\* Two requests at once, three releases: two updates in a row and one withdrawn.
SPECIFICATION Spec
CONSTANTS
    Task = {"t1", "t2"}
    Version = {1, 2, 3}
    MaxUpdates = 3
INVARIANTS
    TypeOK InstalledIsWhole BackupIsReplaced
PROPERTIES
    NoDowngrade UpdateStarts
CHECK_DEADLOCK FALSE
