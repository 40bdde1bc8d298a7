SPECIFICATION Spec
CONSTANTS
    Setting = {s0, s1}
    Factory = s0
    Hostname = {h0, h1}
    Net = {n1, n2}
    Dongle = {"wlan1"}
    Task = {t1, t2}
    Off = Off
    Torn = Torn
    Leased = Leased
    MaxOps = 4
SYMMETRY Symmetry
INVARIANTS
    TypeOK
    HotspotAgrees
    ModeAsAsked
PROPERTY ConnectedAsAsked
\* A run stops when MaxOps is used up.
CHECK_DEADLOCK FALSE
