SPECIFICATION ScanSpec
CONSTANT
    Blocks <- MCBlocks
INVARIANT
    EntriesAreStrongest
\* A scan ends.
CHECK_DEADLOCK FALSE
