CONSTANTS
    FeedCopies <- InFeed
    ThreadCopies <- InThread
    Kinds <- MCKinds
    Others = 0
    MaxRecords = 2
SPECIFICATION Spec
INVARIANTS
    TypeOK
    PendingMeansAsked
    LikedIsCounted
    ShowsServerState
PROPERTIES
    ImplementsButton
