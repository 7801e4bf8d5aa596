CONSTANTS
    MaxTokens = 4
    DefaultSettings = "default"
    SettingsValues <- TwoSettings
    ReuseAccepted = FALSE
    Faults <- CrashesOnly
    Keys <- SomeKeys
    Texts <- OldAndNew
    CONFIG_MAX_ENTRIES = 2
    CONFIG_MAX_KEY = 64
    CONFIG_MAX_VALUE = 2048
SPECIFICATION Spec
INVARIANTS
    TypeOK
    SessionOnDisk
    SettingsOnDisk
    IdleSessionUsable
    FailedBootKeepsSession
