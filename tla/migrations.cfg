SPECIFICATION FairSpec
CONSTANTS
    p1 = p1
    p2 = p2
    p3 = p3
    Proc = {p1, p2, p3}
    Known <- MCKnown
    Files = 5
    Faulty = {p2, p3}
    NoProc = NoProc
INVARIANTS
    LedgerIsTrue
    HealthyNeverFails
PROPERTIES
    HealthyFinishes
