\* Three gadgets on two nodes, a socket for two events, every fault.
SPECIFICATION Spec
CONSTANTS
    Path = {0, 1}
    Gadget = {"cam1", "cam2", "codec"}
    Usable <- MCUsable
    QueueCap = 2
    Budget = 4
    Faults = {"early", "scan_error", "probe_error", "open_error"}
INVARIANTS
    TypeOK ViewConverges
PROPERTIES
    ListedUnlessLost
CHECK_DEADLOCK FALSE
