\* Handlers one at a time, ports for everyone, stops at any point, another camera
\* in a port at a boot.
SPECIFICATION Spec
CONSTANTS
    Path = {0, 1}
    Camera = {"cam1", "cam2", "cam4"}
    CamId = {"usb1", "usb2"}
    Mode = {"240p", "480p", "720p"}
    Advertised <- MCAdvertised
    FirstMode <- MCFirstMode
    ConfigMode = "720p"
    Auth = {"alice"}
    NoAuth = NoAuth
    EmptyUser = EmptyUser
    BasePort = 65533
    Request = {"r1"}
    Monitor = Monitor
    Nobody = Nobody
    Cabling <- SharedCabling
    NodesPerCamera = 1
    Faults = {"crash", "rewire"}
    Overlap = FALSE
INVARIANTS
    TypeOK ChoicesDurable DiskMirrorsMemory ModeFitsPort
