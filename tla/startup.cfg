SPECIFICATION FairSpec
CONSTANTS
    Processes = {p1, p2}
    Tables <- ThreeTables
    OldFiles <- OldRelease
    Keys = {k1}
    MaxCrashes = 2
INVARIANTS
    TypeOK
    ServesOnFullSchema
PROPERTIES
    EveryProcessServes
CHECK_DEADLOCK FALSE
