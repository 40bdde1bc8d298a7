\* The scan parser on up to three stations; the loops of reconcile on four cameras, a pool of three
\* ports and a remembered port below it.
SPECIFICATION MCSpec
CONSTANTS
    Blocks <- MCBlocks
    Addresses <- MCAddresses
    Tags <- MCTags
    Base = 10
    Drivers <- MCDrivers
    Configured <- MCConfigured
    Contents <- MCContents
    MaxIndex = 2
    Path = {0, 1, 2, 3}
    Camera = {"cam"}
    CamId = {"usb"}
    Mode = {"480p"}
    Advertised <- MCAdvertised
    FirstMode <- MCFirstMode
    ConfigMode = "480p"
    Auth = {}
    NoAuth = NoAuth
    EmptyUser = EmptyUser
    BasePort = 65532
    Remembered = {65531, 65532, 65534, 65535}
INVARIANTS
    ScanKeepsStrongest
    GatewayIsNoLease
    NewerIsNumeric
    InitialSettingsWork
    HostsKeepOthers
    LoopComputesReconcile
    UsedIsExact
\* A function returns once.
CHECK_DEADLOCK FALSE
