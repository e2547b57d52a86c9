SPECIFICATION FairSpec
CONSTANTS
    Attempts = 2
    MaxBody = 2
    Faults = {"timeout", "cancel", "upload", "worker", "memory", "answer"}
    Free = Free
INVARIANTS
    SlotsFollowWork
    BusyMeansAbandoned
    AudioIsWhole
PROPERTIES
    NobodyWaitsForEver
