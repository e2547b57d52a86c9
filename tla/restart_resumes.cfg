SPECIFICATION FairSpec
CONSTANTS
    h1 = h1
    h2 = h2
    j1 = j1
    j2 = j2
    f1 = f1
    f2 = f2
    f3 = f3
    t1 = t1
    t2 = t2
    NoAudio = NoAudio
    Handler = {h1, h2}
    Job = {j1}
    Fragment = {f1, f2}
    Text = {t1, t2}
    JobOf <- MCOneJobOf
    Source <- MCOneSource
    Catalog <- MCOneCatalog
    QueueSize = 1
    MaxAutoRetries = 1
    Faults = {"crash"}
    MaxRevisions = 1
    MaxAttempts = 1
PROPERTIES
    RestartResumes
CHECK_DEADLOCK FALSE
