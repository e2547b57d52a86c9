SPECIFICATION Spec
CONSTANTS
    SplitRunes = {"letter", "digit", ".", ")", "space", "line", "break"}
    SplitLength = 5
    MaxWords = 2
    GuardRunes = {"a", "A", "[", "]"}
    GuardLength = 4
    Bits = 2
    Retries = 3
    MaxElements = 6
    MaxTexts = 3
    MaxDepth = 5
    MaxFragments = 4
    MaxFrames = 2
    MinSamples = 3
    Jobs = 3
    Limit = 2
    Filter = {"all", "active"}
    MaxEvents = 3
INVARIANTS
    SegmentsAreRight
    RewritingIsSafe
    BookIsRead
    ExportIsRight
    ListIsConsistent
PROPERTIES
    EveryAttemptHasItsSeed
    ListFollowsPerson
CHECK_DEADLOCK FALSE
