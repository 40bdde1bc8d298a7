\* Two cameras with up to two nodes each, every fault, any cabling at a boot.
SPECIFICATION Spec
CONSTANTS
    Path = {0, 1}
    Camera = {"cam1", "cam2"}
    CamId = {"usb1", "usb2"}
    Mode = {"480p"}
    Advertised <- MCAdvertised
    FirstMode <- MCFirstMode
    ConfigMode = "480p"
    Auth = {}
    NoAuth = NoAuth
    EmptyUser = EmptyUser
    BasePort = 65533
    Request = {"r1"}
    Monitor = Monitor
    Nobody = Nobody
    Cabling <- AnyCabling
    NodesPerCamera = 2
    Faults = {"crash", "rewire", "disconnect", "save_error"}
    Overlap = TRUE
INVARIANTS
    StreamStateConsistent 
PROPERTIES
    NoPortMoved
