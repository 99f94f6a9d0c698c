SPECIFICATION Spec
CONSTANTS
    Processes = {p1, p2}
    Tables <- ThreeTables
    OldFiles <- OldRelease
    Keys = {k1}
    MaxCrashes = 1
INVARIANT OneRecordPerKey
CHECK_DEADLOCK FALSE
