\* A camera is disabled, enabled and reconfigured in quick succession.
SPECIFICATION Spec
CONSTANTS
    Path = {0}
    Camera = {"cam1"}
    CamId = {"usb1"}
    Mode = {"480p", "720p"}
    Advertised <- MCAdvertised
    FirstMode <- MCFirstMode
    ConfigMode = "480p"
    Auth = {}
    NoAuth = NoAuth
    EmptyUser = EmptyUser
    BasePort = 65534
    Cabling <- MCCabling
    Known <- MCKnown
    Budget = 6
INVARIANTS
    ModeApplied
CHECK_DEADLOCK FALSE
