CONSTANTS
    MaxPosts = 3
    MaxFeeds = 5
    FeedRows = 2
    SettingRows = 8
    VisibleRows = 6
    Posts = {1, 2, 3, 4, 5}
    MaxDepth = 1
    DiagnosticsRow = 5
    ScreenDimRow = 6
SPECIFICATION Spec
INVARIANTS
    TypeOK
    HitsAreOfList
    ScreenIsView
    ArrivalsAnnounced
PROPERTIES
    DownSkipsNothing
    UpSkipsNoRow
    StrayDashboardGoes
CHECK_DEADLOCK FALSE
