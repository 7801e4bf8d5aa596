CONSTANTS
    Contacts <- OneFinger
    Levels <- SomeLevels
    Fallback = 50
SPECIFICATION Spec
INVARIANTS
    TypeOK
    AwakeLitAsSet
    DimmedRemembers
PROPERTIES
    ExitLeavesLight
    SwallowsWakeTapOnly
