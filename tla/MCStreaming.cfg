\* Two cameras and one port, which changes hands while the old child still holds it.
SPECIFICATION Spec
CONSTANTS
    Path = {0, 1}
    Camera = {"cam1", "cam2"}
    CamId = {"usb1", "usb2"}
    Mode = {"480p", "720p"}
    Advertised <- MCAdvertised
    FirstMode <- MCFirstMode
    ConfigMode = "480p"
    Auth = {}
    NoAuth = NoAuth
    EmptyUser = EmptyUser
    BasePort = 65534
    Cabling <- MCCabling
    Known <- MCKnown
    Budget = 5
INVARIANTS
    TypeOK SupervisorsMatchRegistry ModeAppliedWithPatience StatusTrueWithPatience
PROPERTIES
    EventuallyServed
CHECK_DEADLOCK FALSE
