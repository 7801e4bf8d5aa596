CONSTANTS
    Sources <- MCSources
    Timeline = "timeline"
    Feeds <- MCFeeds
    Limit = 3
    MaxFit = 2
    MaxItems = 4
    NoCursor = NoCursor
    NoSource = NoSource
SPECIFICATION Spec
INVARIANTS
    TypeOK
    TapHitsShownPost
    NothingSkipped
    HistoryAscends
    ListIsFeedPrefix
