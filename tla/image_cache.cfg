CONSTANTS
    Keys <- TwoSizes
    Sources <- OneSource
    SourceOf <- TwoSizesSourceOf
    Paths <- OnePath
    PathOf <- OnePathOf
    Avatars <- NoAvatars
    MAX_CACHE_ENTRIES = 1
    MaxReplies = 2
    NoPixels = NoPixels
    NoFile = NoFile
    TornFile = TornFile
SPECIFICATION Spec
INVARIANTS
    TypeOK
    LoadingHasReply
    ShowsOwnImage
    ReadySignalled
    PixelsFreed
    SingleFetch
    SizeBounded
