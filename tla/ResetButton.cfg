SPECIFICATION ButtonSpec
CONSTANTS
    reset_hold_secs = 2
    MaxOwed = 3
PROPERTIES
    ResetNeedsHold
    HeldButtonResets
