--------------------------- MODULE MigrationsProofs ---------------------------
(***************************************************************************)
(* Migrations for any number of programs, binaries and files.  The lock    *)
(* makes what a program read in the ledger stay true while it works:       *)
(* Inv says what each place of the program knows of the tables.            *)
(***************************************************************************)
EXTENDS Migrations, TLAPS

\* The lock is held by the one program at work.
LockOfWorker ==
    /\ \A p \in Proc : pc[p] \in Holding => lock = p
    /\ \A p \in Proc : lock = p => pc[p] \in Holding

\* A transaction has run the file of the loop, which still may be applied.
OpenTransaction ==
    \A p \in Proc :
        IF pc[p] = "commit"
        THEN tx[p] = at[p] /\ at[p] <= Known[p] /\ MayRun(at[p])
        ELSE tx[p] = 0

\* What the loop has seen.
LoopProgress ==
    \A p \in Proc :
        /\ pc[p] \in {"check", "execute", "commit"} =>
              ledger = "created" /\ \A n \in 1 .. at[p] - 1 : n \in applied
        /\ pc[p] = "execute" => at[p] <= Known[p] /\ at[p] \notin recorded
        /\ pc[p] \in {"return", "done"} =>
              \A n \in 1 .. Known[p] : n \in applied

Inv ==
    /\ TypeOK /\ LedgerIsTrue /\ HealthyNeverFails
    /\ LockOfWorker /\ OpenTransaction /\ LoopProgress

-----------------------------------------------------------------------------
LEMMA InitInv == Init => Inv
<1> SUFFICES ASSUME Init PROVE Inv
    OBVIOUS
<1>1. TypeOK
    BY FilesAssumption DEF Init, TypeOK, File, Holding
<1>2. LedgerIsTrue /\ HealthyNeverFails
    BY DEF Init, LedgerIsTrue, HealthyNeverFails
<1>3. LockOfWorker /\ OpenTransaction /\ LoopProgress
    BY ProcAssumption
    DEF Init, LockOfWorker, OpenTransaction, LoopProgress, Holding
<1> QED
    BY <1>1, <1>2, <1>3 DEF Inv

\* Steps that leave the tables and transactions alone.
LEMMA PlaceSteps ==
    ASSUME Inv, NEW p \in Proc,
           \/ AcquireLock(p) \/ LastFile(p) \/ SkipFile(p) \/ MissingFile(p)
           \/ Unlock(p) \/ StartAgain(p)
    PROVE  Inv'
<1> USE FilesAssumption, KnownAssumption, ProcAssumption
<1> USE DEF AcquireLock, LastFile, SkipFile, MissingFile, Unlock, StartAgain,
            GoTo
<1>0. at' \in [Proc -> 1 .. Files + 1]
    BY DEF Inv, TypeOK
<1>1. TypeOK'
    BY <1>0 DEF Inv, TypeOK, Holding
<1>2. LedgerIsTrue'
    BY DEF Inv, LedgerIsTrue
<1>3. HealthyNeverFails'
    BY DEF Inv, TypeOK, HealthyNeverFails
<1>4. LockOfWorker'
    BY DEF Inv, TypeOK, LockOfWorker, Holding
<1>5. OpenTransaction'
    BY DEF Inv, TypeOK, OpenTransaction, MayRun
<1>6. LoopProgress'
    BY DEF Inv, TypeOK, LoopProgress, LedgerIsTrue, File
<1> QED
    BY <1>1, <1>2, <1>3, <1>4, <1>5, <1>6 DEF Inv

LEMMA CreateLedgerStep ==
    ASSUME Inv, NEW p \in Proc, CreateLedger(p)
    PROVE  Inv'
<1> USE FilesAssumption, KnownAssumption, ProcAssumption DEF CreateLedger, GoTo
<1>1. TypeOK'
    BY DEF Inv, TypeOK, Holding
<1>2. LedgerIsTrue' /\ HealthyNeverFails'
    BY DEF Inv, TypeOK, LedgerIsTrue, HealthyNeverFails
<1>3. LockOfWorker' /\ OpenTransaction'
    BY DEF Inv, TypeOK, LockOfWorker, OpenTransaction, Holding, MayRun
<1>4. LoopProgress'
    BY DEF Inv, TypeOK, LoopProgress
<1> QED
    BY <1>1, <1>2, <1>3, <1>4 DEF Inv

\* What the lock is for: the script the ledger lacks can run.
LEMMA ExecuteStep ==
    ASSUME Inv, NEW p \in Proc, Execute(p)
    PROVE  Inv'
<1> USE FilesAssumption, KnownAssumption, ProcAssumption DEF Execute, GoTo
<1>1. MayRun(at[p])
    BY DEF Inv, LoopProgress, LedgerIsTrue, MayRun
<1>2. TypeOK'
  <2>1. at[p] \in 0 .. Files
      BY DEF Inv, TypeOK, LoopProgress
  <2>2. tx' \in [Proc -> 0 .. Files]
      BY <1>1, <2>1 DEF Inv, TypeOK
  <2> QED
      BY <1>1, <2>2 DEF Inv, TypeOK, Holding
<1>3. LedgerIsTrue' /\ HealthyNeverFails'
    BY <1>1 DEF Inv, TypeOK, LedgerIsTrue, HealthyNeverFails
<1>4. LockOfWorker'
    BY <1>1 DEF Inv, TypeOK, LockOfWorker, Holding
<1>5. OpenTransaction'
    BY <1>1 DEF Inv, TypeOK, OpenTransaction, LoopProgress, MayRun
<1>6. LoopProgress'
    BY <1>1 DEF Inv, TypeOK, LoopProgress
<1> QED
    BY <1>2, <1>3, <1>4, <1>5, <1>6 DEF Inv

\* The commit of p, whatever becomes of p then: nobody else is at work.
LEMMA CommittedTables ==
    ASSUME Inv, NEW p \in Proc, pc[p] = "commit", Committed(p),
           ledger' = ledger, lock' = lock,
           pc' \in [Proc -> Holding \cup {"start", "done", "failed"}],
           at' \in [Proc -> 1 .. Files + 1],
           \A q \in Proc \ {p} : pc'[q] = pc[q] /\ at'[q] = at[q],
           \/ pc'[p] = "check" /\ at'[p] = at[p] + 1
           \/ pc'[p] = "fail" /\ p \in Faulty
    PROVE  Inv'
<1> USE FilesAssumption, KnownAssumption, ProcAssumption DEF Committed
<1>1. tx[p] = at[p] /\ at[p] \in File /\ MayRun(at[p]) /\ ledger = "created"
    BY DEF Inv, TypeOK, OpenTransaction, LoopProgress, File
<1>2. TypeOK'
  <2>1. tx' \in [Proc -> 0 .. Files]
      BY DEF Inv, TypeOK
  <2>2. applied' \subseteq File /\ recorded' \subseteq File
      BY <1>1 DEF Inv, TypeOK
  <2> QED
      BY <2>1, <2>2 DEF Inv, TypeOK
<1>3. LedgerIsTrue'
    BY <1>1 DEF Inv, LedgerIsTrue, MayRun, TypeOK, File
<1>4. HealthyNeverFails'
    BY DEF Inv, HealthyNeverFails
<1>5. LockOfWorker'
    BY DEF Inv, LockOfWorker, Holding
<1>6. \A q \in Proc \ {p} : pc[q] \notin Holding
    BY DEF Inv, LockOfWorker, Holding
<1>7. OpenTransaction'
    BY <1>6 DEF Inv, TypeOK, OpenTransaction, MayRun, Holding
<1>8. LoopProgress'
    BY <1>1, <1>6 DEF Inv, TypeOK, LoopProgress, Holding, MayRun
<1> QED
    BY <1>2, <1>3, <1>4, <1>5, <1>7, <1>8 DEF Inv

LEMMA CommitStep ==
    ASSUME Inv, NEW p \in Proc, Commit(p)
    PROVE  Inv'
<1>1. at[p] \in File
    BY KnownAssumption, FilesAssumption
    DEF Inv, TypeOK, OpenTransaction, Commit, File
<1>2. /\ pc' \in [Proc -> Holding \cup {"start", "done", "failed"}]
      /\ at' \in [Proc -> 1 .. Files + 1]
    BY <1>1, FilesAssumption DEF Inv, TypeOK, Commit, GoTo, Holding, File
<1> QED
    BY <1>2, CommittedTables DEF Inv, TypeOK, Commit, GoTo

LEMMA FaultSteps ==
    ASSUME Inv, NEW p \in Proc, Interrupt(p) \/ Die(p)
    PROVE  Inv'
<1> USE FilesAssumption, KnownAssumption, ProcAssumption DEF GoTo
<1>1. CASE Die(p)
  <2>1. TypeOK' /\ LedgerIsTrue' /\ HealthyNeverFails'
      BY <1>1 DEF Inv, TypeOK, Die, LedgerIsTrue, HealthyNeverFails
  <2>2. LockOfWorker' /\ OpenTransaction'
      BY <1>1 DEF Inv, TypeOK, Die, LockOfWorker, OpenTransaction, MayRun,
                  Holding
  <2>3. LoopProgress'
      BY <1>1 DEF Inv, TypeOK, Die, LoopProgress
  <2> QED
      BY <2>1, <2>2, <2>3 DEF Inv
<1>2. CASE Interrupt(p) /\ tx' = [tx EXCEPT ![p] = 0]
           /\ UNCHANGED <<applied, recorded>>
  <2>0. ledger' \in {ledger, "created"}
      BY <1>2 DEF Interrupt, Inv, TypeOK, Committed
  <2>1. TypeOK' /\ LedgerIsTrue' /\ HealthyNeverFails'
      BY <1>2, <2>0 DEF Inv, TypeOK, Interrupt, LedgerIsTrue,
                        HealthyNeverFails, Holding
  <2>2. LockOfWorker' /\ OpenTransaction'
      BY <1>2 DEF Inv, TypeOK, Interrupt, LockOfWorker, OpenTransaction,
                  MayRun, Holding
  <2>3. LoopProgress'
      BY <1>2, <2>0 DEF Inv, TypeOK, Interrupt, LoopProgress
  <2> QED
      BY <2>1, <2>2, <2>3 DEF Inv
<1>3. CASE Interrupt(p) /\ pc[p] = "commit" /\ Committed(p)
           /\ UNCHANGED ledger
  <2>1. pc' \in [Proc -> Holding \cup {"start", "done", "failed"}]
      BY <1>3 DEF Inv, TypeOK, Interrupt, Holding
  <2> QED
      BY <1>3, <2>1, CommittedTables DEF Inv, TypeOK, Interrupt
<1> QED
    BY <1>1, <1>2, <1>3 DEF Interrupt

LEMMA NextInv == Inv /\ [Next]_vars => Inv'
<1> SUFFICES ASSUME Inv, [Next]_vars PROVE Inv'
    OBVIOUS
<1>1. CASE UNCHANGED vars
    BY <1>1 DEF vars, Inv, TypeOK, LedgerIsTrue, HealthyNeverFails,
                LockOfWorker, OpenTransaction, LoopProgress, MayRun
<1>2. CASE Next
    BY <1>2, PlaceSteps, CreateLedgerStep, ExecuteStep, CommitStep,
       FaultSteps DEF Next, Step
<1> QED
    BY <1>1, <1>2

LEMMA AlwaysInv == Spec => []Inv
    BY InitInv, NextInv, PTL DEF Spec

-----------------------------------------------------------------------------
\* The ledger never lies and the schema has no gaps, wherever programs stop.
THEOREM LedgerAlwaysTrue == Spec => []LedgerIsTrue
<1>1. Inv => LedgerIsTrue
    BY DEF Inv
<1> QED
    BY AlwaysInv, <1>1, PTL

\* No interleaving with other programs makes a healthy one fail.
THEOREM HealthyNeverFail == Spec => []HealthyNeverFails
<1>1. Inv => HealthyNeverFails
    BY DEF Inv
<1> QED
    BY AlwaysInv, <1>1, PTL

\* Success is reported only of a schema that is up to date.
THEOREM DoneIsApplied == Spec => []DoneMeansApplied
<1>1. Inv => DoneMeansApplied
    BY DEF Inv, LoopProgress, DoneMeansApplied
<1> QED
    BY AlwaysInv, <1>1, PTL

\* Scripts are never run over a schema that has them.
THEOREM NeverTwice == Spec => OnlyForward
<1>1. Inv /\ [Next]_vars =>
      [/\ applied \subseteq applied' /\ recorded \subseteq recorded'
       /\ \A p \in Proc : tx'[p] \notin applied]_vars
  <2> SUFFICES ASSUME Inv, Next
               PROVE  /\ applied \subseteq applied'
                      /\ recorded \subseteq recorded'
                      /\ \A p \in Proc : tx'[p] \notin applied
      OBVIOUS
  <2>1. /\ applied \subseteq applied' /\ recorded \subseteq recorded'
      BY DEF Next, Step, AcquireLock, LastFile, SkipFile, MissingFile, Unlock,
             StartAgain, CreateLedger, Execute, Commit, Committed, Interrupt,
             Die
  <2>2. \A p \in Proc : tx[p] \notin applied
    <3>1. 0 \notin applied
        BY FilesAssumption DEF Inv, TypeOK, File
    <3> QED
        BY <3>1 DEF Inv, OpenTransaction, MayRun
  <2>3. \A q \in Proc : tx'[q] = tx[q] \/ tx'[q] = 0 \/ Execute(q)
      BY DEF Next, Step, AcquireLock, LastFile, SkipFile, MissingFile, Unlock,
             StartAgain, CreateLedger, Execute, Commit, Committed, Interrupt,
             Die, Inv, TypeOK
  <2>4. \A q \in Proc : Execute(q) => tx'[q] \notin applied
      BY <2>2 DEF Execute, MayRun, Inv, TypeOK
  <2>5. 0 \notin applied
      BY FilesAssumption DEF Inv, TypeOK, File
  <2> QED
      BY <2>1, <2>2, <2>3, <2>4, <2>5
<1> QED
    BY AlwaysInv, <1>1, PTL DEF Spec, OnlyForward

=============================================================================
