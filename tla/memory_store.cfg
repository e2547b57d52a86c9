SPECIFICATION Spec
CONSTANTS
    b1 = b1
    j1 = j1
    f1 = f1
    f2 = f2
    t1 = t1
    t2 = t2
    NoAudio = NoAudio
    NoJob = NoJob
    Book = {b1}
    Job = {j1}
    Fragment = {f1, f2}
    Text = {t1, t2}
    JobOf <- MCOneJobOf
    Source <- MCOneSource
    Catalog <- MCOneCatalog
    BookOf <- MCOneBookOf
    Rewrite = {"r1"}
    Codes = {"transcript_mismatch"}
    MaxRevisions = 2
    MaxAttempts = 1
INVARIANTS
    MapsAgree
PROPERTIES
    ImplementsStore
CHECK_DEADLOCK FALSE
