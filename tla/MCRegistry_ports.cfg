\* Three cameras compete for two ports; requests and hotplug interleave freely.
SPECIFICATION Spec
CONSTANTS
    Path = {0, 1, 2}
    Camera = {"cam1", "cam2", "cam3"}
    CamId = {"usb1", "usb2", "usb3"}
    Mode = {"480p"}
    Advertised <- MCAdvertised
    FirstMode <- MCFirstMode
    ConfigMode = "480p"
    Auth = {}
    NoAuth = NoAuth
    EmptyUser = EmptyUser
    BasePort = 65533
    Request = {"r1"}
    Monitor = Monitor
    Nobody = Nobody
    Cabling <- FixedCabling
    NodesPerCamera = 1
    Faults = {}
    Overlap = TRUE
INVARIANTS
    PortsDistinct WaitOnlyWhenExhausted
PROPERTIES
    ImplementsPortLease
