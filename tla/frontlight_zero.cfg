CONSTANTS
    Contacts <- OneFinger
    Levels <- SomeLevels
    Fallback = 50
SPECIFICATION Spec
INVARIANTS
    AwakeAsConfigured
