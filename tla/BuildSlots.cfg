\* Four Builds, up to three slots, room for two to wait.
SPECIFICATION FairSpec
CONSTANTS
    b1 = b1
    b2 = b2
    b3 = b3
    b4 = b4
    Build <- MCBuild
    MaxLimit = 3
    Capacity = 2
INVARIANTS
    TypeOK
    SlotsBalance
PROPERTIES
    NoOvertaking
    Served
CHECK_DEADLOCK FALSE
