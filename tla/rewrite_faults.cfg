SPECIFICATION Spec
CONSTANTS
    h1 = h1
    j1 = j1
    j2 = j2
    f1 = f1
    f2 = f2
    t1 = t1
    t2 = t2
    r1 = r1
    r2 = r2
    v1 = v1
    v2 = v2
    NoAudio = NoAudio
    NoModel = NoModel
    Handler = {h1}
    Job = {j1}
    Fragment = {f1, f2}
    Text = {t1, t2}
    JobOf <- MCOneJobOf
    Source <- MCOneSource
    Catalog <- MCOneCatalog
    QueueSize = 1
    MaxAutoRetries = 0
    Faults = {"db", "disconnect", "close", "crash"}
    MaxRevisions = 2
    MaxAttempts = 1
    Rewrite = {r1}
    ModelRevision = {v1, v2}
    RewriteQueueSize = 1
SYMMETRY IdSymmetry
INVARIANTS
    TaskStatusIsHonest
    OneModelPerTask
PROPERTIES
    LateAnswersChangeNothing
    ImplementsGeneration
CHECK_DEADLOCK FALSE
