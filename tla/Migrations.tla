------------------------------ MODULE Migrations ------------------------------
(***************************************************************************)
(* cmd/migrate and migrations.Apply: programs that may run at once against *)
(* one database bring its schema up to date.  A session-level advisory     *)
(* lock keeps them apart; each file's script and its row in the ledger are *)
(* one transaction; PostgreSQL rolls back the transaction and releases the *)
(* lock of a session that ends.                                            *)
(*                                                                         *)
(* A file is its version: sort.Strings puts the embedded names in the      *)
(* order of their versions, which are padded to six digits, and a script   *)
(* builds on the tables of the scripts before it.  Left out: the text of   *)
(* the scripts, and the down migrations, which no program runs.            *)
(***************************************************************************)
EXTENDS Naturals

CONSTANTS
    Proc,       \* runs of the program, each with a session of its own
    Known,      \* Known[p]: p's binary embeds the files 1 .. Known[p]
    Files,      \* number of files of the newest binary
    Faulty,     \* programs that may be killed, interrupted or disconnected
    NoProc      \* nobody holds the lock

ASSUME FilesAssumption == Files \in Nat
ASSUME ProcAssumption == NoProc \notin Proc /\ Faulty \subseteq Proc
ASSUME KnownAssumption == Known \in [Proc -> 0 .. Files]

VARIABLES
    lock,       \* holder of advisoryLockID
    ledger,     \* the table schema_migrations: "absent" or "created"
    applied,    \* files whose script is committed
    recorded,   \* versions in schema_migrations
    tx,         \* tx[p]: the file whose script p's open transaction ran, or 0
    pc,         \* where p is in Apply and applyFile
    at          \* at[p]: the file of p's loop

vars == <<lock, ledger, applied, recorded, tx, pc, at>>

File == 1 .. Files
Holding == {"ledger", "check", "execute", "commit", "return", "fail"}

GoTo(p, place) == pc' = [pc EXCEPT ![p] = place]

-----------------------------------------------------------------------------
\* A slip of AcquireLock: the lock is not asked for.
AcquireLockNever(p) ==
    /\ pc[p] = "start"
    /\ GoTo(p, "ledger")
    /\ UNCHANGED <<lock, ledger, applied, recorded, tx, at>>

AcquireLock(p) ==
    /\ pc[p] = "start"
    /\ lock = NoProc
    /\ lock' = p
    /\ GoTo(p, "ledger")
    /\ UNCHANGED <<ledger, applied, recorded, tx, at>>

\* CREATE TABLE IF NOT EXISTS.
CreateLedger(p) ==
    /\ pc[p] = "ledger"
    /\ ledger' = "created"
    /\ at' = [at EXCEPT ![p] = 1]
    /\ GoTo(p, "check")
    /\ UNCHANGED <<lock, applied, recorded, tx>>

LastFile(p) ==
    /\ pc[p] = "check" /\ at[p] > Known[p]
    /\ GoTo(p, "return")
    /\ UNCHANGED <<lock, ledger, applied, recorded, tx, at>>

SkipFile(p) ==
    /\ pc[p] = "check" /\ at[p] <= Known[p]
    /\ ledger = "created" /\ at[p] \in recorded
    /\ at' = [at EXCEPT ![p] = @ + 1]
    /\ UNCHANGED <<lock, ledger, applied, recorded, tx, pc>>

MissingFile(p) ==
    /\ pc[p] = "check" /\ at[p] <= Known[p]
    /\ ledger = "created" /\ at[p] \notin recorded
    /\ GoTo(p, "execute")
    /\ UNCHANGED <<lock, ledger, applied, recorded, tx, at>>

\* A script creates what it names and alters what the scripts before it
\* created: it runs only where they are and it is not.  Until a transaction
\* that did the same ends, it waits.
MayRun(n) == n \notin applied /\ \A m \in 1 .. n - 1 : m \in applied

Execute(p) ==
    /\ pc[p] = "execute"
    /\ \A q \in Proc : tx[q] # at[p]
    /\ IF MayRun(at[p])
       THEN tx' = [tx EXCEPT ![p] = at[p]] /\ GoTo(p, "commit")
       ELSE UNCHANGED tx /\ GoTo(p, "fail")
    /\ UNCHANGED <<lock, ledger, applied, recorded, at>>

\* What the end of p's transaction makes of the tables.
Committed(p) ==
    /\ applied' = applied \cup {tx[p]}
    /\ recorded' = recorded \cup {tx[p]}
    /\ tx' = [tx EXCEPT ![p] = 0]

\* A slip of Commit: the script and its record are committed one after the
\* other, so that a program may end in between.
CommitScriptFirst(p) ==
    /\ pc[p] = "commit"
    /\ IF tx[p] # 0
       THEN /\ applied' = applied \cup {tx[p]}
            /\ tx' = [tx EXCEPT ![p] = 0]
            /\ UNCHANGED <<recorded, at, pc>>
       ELSE /\ recorded' = recorded \cup {at[p]}
            /\ at' = [at EXCEPT ![p] = @ + 1]
            /\ GoTo(p, "check")
            /\ UNCHANGED <<applied, tx>>
    /\ UNCHANGED <<lock, ledger>>

Commit(p) ==
    /\ pc[p] = "commit"
    /\ Committed(p)
    /\ at' = [at EXCEPT ![p] = @ + 1]
    /\ GoTo(p, "check")
    /\ UNCHANGED <<lock, ledger>>

\* The deferred unlock, with a context of its own.
Unlock(p) ==
    /\ pc[p] \in {"return", "fail"}
    /\ lock' = IF lock = p THEN NoProc ELSE lock
    /\ GoTo(p, IF pc[p] = "return" THEN "done" ELSE "failed")
    /\ UNCHANGED <<ledger, applied, recorded, tx, at>>

-----------------------------------------------------------------------------
(* Faults.                                                                 *)

\* A signal cancels the context, or a statement's answer is lost: Apply
\* returns an error and rolls back; a commit may have been done.
Interrupt(p) ==
    /\ p \in Faulty /\ pc[p] \in Holding \ {"return", "fail"}
    /\ GoTo(p, "fail")
    /\ \/ /\ tx' = [tx EXCEPT ![p] = 0]
          /\ ledger' \in {ledger} \cup (IF pc[p] = "ledger" THEN {"created"} ELSE {})
          /\ UNCHANGED <<applied, recorded>>
       \/ pc[p] = "commit" /\ Committed(p) /\ UNCHANGED ledger
    /\ UNCHANGED <<lock, at>>

\* A slip of Die: the session outlives its program.
DieLocked(p) ==
    /\ p \in Faulty /\ pc[p] \notin {"done", "failed"}
    /\ tx' = [tx EXCEPT ![p] = 0]
    /\ GoTo(p, "failed")
    /\ UNCHANGED <<lock, ledger, applied, recorded, at>>

\* The program is killed, waiting or at work: its session ends.
Die(p) ==
    /\ p \in Faulty /\ pc[p] \notin {"done", "failed"}
    /\ lock' = IF lock = p THEN NoProc ELSE lock
    /\ tx' = [tx EXCEPT ![p] = 0]
    /\ GoTo(p, "failed")
    /\ UNCHANGED <<ledger, applied, recorded, at>>

\* An operator starts the program again.
StartAgain(p) ==
    /\ pc[p] \in {"done", "failed"}
    /\ GoTo(p, "start")
    /\ UNCHANGED <<lock, ledger, applied, recorded, tx, at>>

-----------------------------------------------------------------------------
Init ==
    /\ lock = NoProc /\ ledger = "absent"
    /\ applied = {} /\ recorded = {}
    /\ tx = [p \in Proc |-> 0]
    /\ pc = [p \in Proc |-> "start"]
    /\ at = [p \in Proc |-> 1]

Step(p) ==
    \/ CreateLedger(p) \/ LastFile(p) \/ SkipFile(p) \/ MissingFile(p)
    \/ Execute(p) \/ Commit(p) \/ Unlock(p)

Next ==
    \E p \in Proc :
        \/ AcquireLock(p) \/ Step(p)
        \/ Interrupt(p) \/ Die(p) \/ StartAgain(p)

Spec == Init /\ [][Next]_vars

\* PostgreSQL answers every statement, and gives a lock to those who wait for
\* it in their order.
Fairness ==
    \A p \in Proc : WF_vars(Step(p)) /\ SF_vars(AcquireLock(p))

FairSpec == Spec /\ Fairness

-----------------------------------------------------------------------------
(* Properties.                                                             *)

\* Who holds the lock is at work, files are counted by the loop, and only a
\* transaction about to commit has run a script.
TypeOK ==
    /\ lock \in Proc \cup {NoProc}
    /\ ledger \in {"absent", "created"}
    /\ applied \subseteq File /\ recorded \subseteq File
    /\ tx \in [Proc -> 0 .. Files]
    /\ pc \in [Proc -> Holding \cup {"start", "done", "failed"}]
    /\ at \in [Proc -> 1 .. Files + 1]

\* The ledger tells the truth about the schema after every transaction,
\* wherever a program was stopped, and the schema has no gaps: an older
\* binary's work is a start for a newer one's.
LedgerIsTrue ==
    /\ recorded = applied
    /\ recorded # {} => ledger = "created"
    /\ \A n \in applied : \A m \in 1 .. n - 1 : m \in applied

\* A program that nobody stops never fails: it does not run a script twice or
\* too early, whatever other programs do at the same time and wherever they
\* were killed.
HealthyNeverFails ==
    \A p \in Proc \ Faulty : pc[p] \notin {"fail", "failed"}

\* "database migrations are up to date" is logged only where every file the
\* binary has is applied.
DoneMeansApplied ==
    \A p \in Proc : pc[p] = "done" =>
        \A n \in 1 .. Known[p] : n \in applied

\* No migration is taken back or applied for a second time.
OnlyForward ==
    [][/\ applied \subseteq applied' /\ recorded \subseteq recorded'
       /\ \A p \in Proc : tx'[p] \notin applied]_vars

\* A healthy program ends with the schema up to date though others are
\* killed while they hold the lock.
HealthyFinishes ==
    \A p \in Proc \ Faulty : pc[p] = "start" ~> pc[p] = "done"

=============================================================================
