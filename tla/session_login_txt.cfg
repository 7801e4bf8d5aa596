CONSTANTS
    MaxTokens = 2
    DefaultSettings = "default"
    SettingsValues <- TwoSettings
    ReuseAccepted = FALSE
    Faults <- NoFaults
    Keys <- SomeKeys
    Texts <- OldAndNew
    CONFIG_MAX_ENTRIES = 2
    CONFIG_MAX_KEY = 64
    CONFIG_MAX_VALUE = 2048
SPECIFICATION FairSpec
PROPERTIES
    LoginTxtKeptUntilLogin
