----------------------------- MODULE MemoryStore -----------------------------
(***************************************************************************)
(* The second implementation of the repository interface, used by the      *)
(* tests of the service: memoryStore keeps maps of records that refer to   *)
(* each other by id, and every method runs under one mutex, so a method is *)
(* one action.  An action that is not enabled is a method that answers an  *)
(* error before it has changed anything.                                   *)
(*                                                                         *)
(* The records are related to the tables of FragmentStore by a refinement  *)
(* mapping at the end: the tests exercise the runners against a repository *)
(* that promises what PostgreSQL does.                                     *)
(*                                                                         *)
(* Left out: books and voices but for the job a book points to, the model  *)
(* a rewrite answer names (RewriteRunner has it; a refusal is an action    *)
(* not taken), and the indexes of revision and review ids, which newID     *)
(* never repeats.                                                          *)
(***************************************************************************)
EXTENDS Integers, FiniteSets, Sequences, Functions

CONSTANTS
    Job, Fragment, JobOf, Text, Source, NoAudio,  \* see FragmentStore
    Catalog,        \* fragmentIDs of createJob, in book order
    Book, BookOf,   \* the book a job reads
    NoJob,          \* the empty LatestJobID
    Rewrite,        \* identifiers of rewrite tasks
    Codes,          \* bound: warnings validation gives, of those in RetryCode
    MaxRevisions,   \* bound: revisions a fragment may get
    MaxAttempts     \* bound: attempts a fragment may get

ASSUME JobsAssumption == JobOf \in [Fragment -> Job]
ASSUME TextAssumption == Source \in [Fragment -> Text] /\ NoAudio \notin Text
ASSUME CatalogAssumption ==
    /\ Catalog \in [Job -> Seq(Fragment)]
    /\ \A j \in Job : /\ Catalog[j] # <<>> /\ IsInjective(Catalog[j])
                      /\ Range(Catalog[j]) = {f \in Fragment : JobOf[f] = j}
ASSUME BookAssumption == BookOf \in [Job -> Book] /\ NoJob \notin Job

VARIABLES
    latest,     \* bookRecord.LatestJobID
    jobs,       \* memoryStore.jobs, a map: its domain are the jobs there are
    fragments,  \* memoryStore.fragments, likewise
    rewrites    \* memoryStore.rewriteTasks, likewise

memVars == <<latest, jobs, fragments, rewrites>>

Retryable == {"warning", "failed"}
ActiveStatus == {"queued", "running"}
RetryCode == {"transcript_mismatch", "audio_warning"}
ASSUME CodesAssumption == Codes \subseteq RetryCode

Removed(map, ids) == Restrict(map, DOMAIN map \ ids)
Added(map, new) ==
    [x \in DOMAIN map \cup DOMAIN new |->
        IF x \in DOMAIN new THEN new[x] ELSE map[x]]

-----------------------------------------------------------------------------
(* Helpers of store.go.                                                    *)

\* The record of a job whose fragments are as in frs.
RecomputeJob(job, frs) ==
    LET With(S) == {k \in DOMAIN job.fragmentIDs :
                       frs[job.fragmentIDs[k]].status \in S}
        Busy == With({"pending", "generating"})
    IN  [job EXCEPT
          !.pending = Cardinality(Busy),
          !.ready = Cardinality(With({"ready"})),
          !.warnings = Cardinality(With({"warning"})),
          !.failed = Cardinality(With({"failed"})),
          !.status = CASE Busy # {} -> "running"
                       [] Busy = {} /\ With({"failed"}) # {} -> "failed"
                       [] /\ Busy \cup With({"failed"}) = {}
                          /\ With({"warning"}) # {} -> "completed_with_warnings"
                       [] OTHER -> "completed"]

JobsAfter(j, frs) == [jobs EXCEPT ![j] = RecomputeJob(@, frs)]

\* What an edit, a restore and a rewrite do to a record.
Retexted(r, t, st, c) ==
    [r EXCEPT !.text = t, !.status = st, !.code = c, !.audio = NoAudio,
              !.revisions = Append(@, t)]

SnapshotAttempt(r) ==
    [r EXCEPT !.history =
        Append(@, [attempt |-> r.attempt, status |-> r.status,
                   code |-> r.code])]

HasActiveRewrite(j) ==
    \E r \in DOMAIN rewrites :
        rewrites[r].job = j /\ rewrites[r].status \in ActiveStatus

-----------------------------------------------------------------------------
(* Jobs.                                                                   *)

CreateJob(j) ==
    /\ j \notin DOMAIN jobs
    /\ \A f \in Range(Catalog[j]) : f \notin DOMAIN fragments
    /\ \A r \in DOMAIN rewrites : rewrites[r].job # j  \* newID is fresh
    /\ jobs' = Added(jobs, [x \in {j} |->
          [status |-> "queued", pending |-> Len(Catalog[j]), ready |-> 0,
           warnings |-> 0, failed |-> 0, fragmentIDs |-> Catalog[j]]])
    /\ fragments' = Added(fragments, [f \in Range(Catalog[j]) |->
          [job |-> j, status |-> "pending", text |-> Source[f], code |-> "",
           audio |-> NoAudio, attempt |-> 0, history |-> <<>>,
           revisions |-> <<Source[f]>>, reviews |-> <<>>]])
    /\ latest' = [latest EXCEPT ![BookOf[j]] = j]
    /\ UNCHANGED rewrites

\* A slip of DeleteJob: the fragments stay in their map.
DeleteJobOnly(j) ==
    /\ j \in DOMAIN jobs
    /\ jobs' = Removed(jobs, {j})
    /\ latest' = [latest EXCEPT ![BookOf[j]] = IF @ = j THEN NoJob ELSE @]
    /\ UNCHANGED <<fragments, rewrites>>

\* The job's rewrite tasks stay in their map.
DeleteJob(j) ==
    /\ j \in DOMAIN jobs
    /\ fragments' = Removed(fragments, Range(jobs[j].fragmentIDs))
    /\ jobs' = Removed(jobs, {j})
    /\ latest' = [latest EXCEPT ![BookOf[j]] = IF @ = j THEN NoJob ELSE @]
    /\ UNCHANGED rewrites

StartTask(j) ==
    /\ j \in DOMAIN jobs
    /\ jobs' = [jobs EXCEPT ![j].status = "running"]
    /\ UNCHANGED <<latest, fragments, rewrites>>

FinishTask(j) ==
    /\ j \in DOMAIN jobs
    /\ jobs' = JobsAfter(j, fragments)
    /\ UNCHANGED <<latest, fragments, rewrites>>

WithStatus(S, st) ==
    [f \in DOMAIN fragments |->
        IF f \in S THEN [fragments[f] EXCEPT !.status = st[f]]
        ELSE fragments[f]]

PrepareRetry(j, S) ==
    /\ j \in DOMAIN jobs
    /\ jobs[j].status \notin ActiveStatus /\ ~HasActiveRewrite(j)
    /\ S # {} /\ S \subseteq DOMAIN fragments
    /\ \A f \in S : fragments[f].job = j /\ fragments[f].status \in Retryable
    /\ fragments' = WithStatus(S, [f \in S |-> "pending"])
    /\ jobs' = [JobsAfter(j, fragments') EXCEPT ![j].status = "queued"]
    /\ UNCHANGED <<latest, rewrites>>

\* previous is the PreviousStatuses of a retry of this job.
CancelRetry(j, previous) ==
    /\ j \in DOMAIN jobs
    /\ fragments' = WithStatus({f \in DOMAIN previous \cap DOMAIN fragments :
                                   fragments[f].status = "pending"}, previous)
    /\ jobs' = JobsAfter(j, fragments')
    /\ UNCHANGED <<latest, rewrites>>

-----------------------------------------------------------------------------
(* Generation of one fragment.                                             *)

StartFragment(f) ==
    /\ f \in DOMAIN fragments
    /\ fragments[f].status = "pending"
    /\ fragments[f].attempt < MaxAttempts
    /\ fragments' = [fragments EXCEPT
          ![f].status = "generating", ![f].attempt = @ + 1, ![f].code = ""]
    /\ UNCHANGED <<latest, jobs, rewrites>>

\* The outcome o of an attempt: its status, code and audio.
Settled(f, o) ==
    /\ f \in DOMAIN fragments
    /\ fragments[f].status = "generating"
    /\ fragments' = [fragments EXCEPT ![f] =
          SnapshotAttempt([@ EXCEPT !.status = o.status, !.code = o.code,
                                    !.audio = o.audio])]
    /\ jobs' = JobsAfter(fragments[f].job, fragments')
    /\ UNCHANGED <<latest, rewrites>>

CompleteFragment(f, spoken, c) ==
    Settled(f, [status |-> IF c = "" THEN "ready" ELSE "warning",
                code |-> c, audio |-> spoken])

FailFragment(f) ==
    /\ f \in DOMAIN fragments
    /\ Settled(f, [status |-> "failed", code |-> "",
                   audio |-> fragments[f].audio])

PrepareAutomaticWarningRetry(f) ==
    /\ f \in DOMAIN fragments
    /\ fragments[f].status = "warning" /\ fragments[f].code \in RetryCode
    /\ fragments' = [fragments EXCEPT ![f].status = "pending", ![f].code = ""]
    /\ jobs' = [JobsAfter(fragments[f].job, fragments') EXCEPT
                   ![fragments[f].job].status = "running"]
    /\ UNCHANGED <<latest, rewrites>>

-----------------------------------------------------------------------------
(* Edits, restored texts and approvals.                                    *)

\* Bound: one fragment gets new texts, the others keep theirs.
MayRevise(f) ==
    /\ Len(fragments[f].revisions) < MaxRevisions
    /\ \A g \in DOMAIN fragments \ {f} : Len(fragments[g].revisions) = 1

EditFragment(f, t) ==
    /\ f \in DOMAIN fragments /\ MayRevise(f)
    /\ fragments[f].status \in Retryable
    /\ fragments' = [fragments EXCEPT ![f] =
                        Retexted(@, t, "warning", "text_edited")]
    /\ jobs' = JobsAfter(fragments[f].job, fragments')
    /\ UNCHANGED <<latest, rewrites>>

RestoreFragmentRevision(f, n) ==
    /\ f \in DOMAIN fragments /\ MayRevise(f)
    /\ fragments[f].status # "generating"
    /\ n \in DOMAIN fragments[f].revisions
    /\ LET waits == fragments[f].status = "pending"
           j == fragments[f].job
       IN  /\ fragments' = [fragments EXCEPT ![f] =
                 Retexted(@, fragments[f].revisions[n],
                          IF waits THEN "pending" ELSE "warning",
                          IF waits THEN "" ELSE "text_restored")]
           /\ jobs' = IF jobs[j].status = "queued" /\ waits
                      THEN [JobsAfter(j, fragments') EXCEPT
                               ![j].status = "queued"]
                      ELSE JobsAfter(j, fragments')
    /\ UNCHANGED <<latest, rewrites>>

ApproveFragment(f) ==
    /\ f \in DOMAIN fragments
    /\ fragments[f].status = "warning"
    /\ fragments[f].audio # NoAudio
    /\ fragments' = [fragments EXCEPT
          ![f].status = "ready", ![f].code = "",
          ![f].reviews = Append(@, fragments[f].attempt)]
    /\ jobs' = JobsAfter(fragments[f].job, fragments')
    /\ UNCHANGED <<latest, rewrites>>

-----------------------------------------------------------------------------
(* Rewrite tasks.                                                          *)

Children(status, S) == {f \in DOMAIN status : status[f] \in S}

RecomputeMemoryRewriteTask(w) ==
    LET In(S) == Children(w.child, S)
        open == In({"queued", "running"})
        failed == In({"failed"})
    IN  [w EXCEPT !.status =
            CASE open # {} -> "running"
              [] open = {} /\ failed = DOMAIN w.child -> "failed"
              [] open = {} /\ failed \notin {{}, DOMAIN w.child}
                    -> "completed_with_errors"
              [] OTHER -> "completed"]

CreateRewriteTask(r, j, S) ==
    /\ j \in DOMAIN jobs
    /\ jobs[j].status \notin ActiveStatus
    /\ r \notin DOMAIN rewrites /\ ~HasActiveRewrite(j)
    /\ S # {} /\ S \subseteq DOMAIN fragments
    /\ \A f \in S : fragments[f].job = j /\ fragments[f].status = "warning"
    /\ rewrites' = Added(rewrites, [x \in {r} |->
          [job |-> j, status |-> "queued", child |-> [f \in S |-> "queued"]]])
    /\ UNCHANGED <<latest, jobs, fragments>>

DeleteRewriteTask(r) ==
    /\ r \in DOMAIN rewrites
    /\ rewrites' = Removed(rewrites, {r})
    /\ UNCHANGED <<latest, jobs, fragments>>

StartRewriteTask(r) ==
    /\ r \in DOMAIN rewrites
    /\ rewrites[r].status = "queued"
    /\ rewrites' = [rewrites EXCEPT ![r].status = "running"]
    /\ UNCHANGED <<latest, jobs, fragments>>

StartRewriteFragment(r, f) ==
    /\ r \in DOMAIN rewrites /\ f \in DOMAIN rewrites[r].child
    /\ rewrites[r].status = "running"
    /\ rewrites[r].child[f] = "queued"
    /\ f \in DOMAIN fragments
    /\ fragments[f].job = rewrites[r].job
    /\ fragments[f].status = "warning"
    /\ rewrites' = [rewrites EXCEPT ![r].child[f] = "running"]
    /\ UNCHANGED <<latest, jobs, fragments>>

WithChild(r, f, st) ==
    [rewrites EXCEPT ![r] =
        RecomputeMemoryRewriteTask([@ EXCEPT !.child[f] = st])]

\* A slip of CompleteRewriteFragment: the fragment may have left warnings.
CompleteRewriteFragmentAnyStatus(r, f, expected, t) ==
    /\ r \in DOMAIN rewrites /\ f \in DOMAIN rewrites[r].child
    /\ f \in DOMAIN fragments
    /\ rewrites[r].status = "running" /\ rewrites[r].child[f] = "running"
    /\ fragments[f].text = expected
    /\ IF t = expected THEN UNCHANGED <<jobs, fragments>>
       ELSE /\ MayRevise(f)
            /\ fragments' = [fragments EXCEPT ![f] =
                                Retexted(@, t, "warning", "text_rewritten")]
            /\ jobs' = JobsAfter(fragments[f].job, fragments')
    /\ rewrites' = WithChild(r, f, "completed")
    /\ UNCHANGED latest

CompleteRewriteFragment(r, f, expected, t) ==
    /\ r \in DOMAIN rewrites /\ f \in DOMAIN rewrites[r].child
    /\ f \in DOMAIN fragments
    /\ rewrites[r].status = "running" /\ rewrites[r].child[f] = "running"
    /\ fragments[f].status = "warning" /\ fragments[f].text = expected
    /\ IF t = expected THEN UNCHANGED <<jobs, fragments>>
       ELSE /\ MayRevise(f)
            /\ fragments' = [fragments EXCEPT ![f] =
                                Retexted(@, t, "warning", "text_rewritten")]
            /\ jobs' = JobsAfter(fragments[f].job, fragments')
    /\ rewrites' = WithChild(r, f, "completed")
    /\ UNCHANGED latest

FailRewriteFragment(r, f) ==
    /\ r \in DOMAIN rewrites /\ f \in DOMAIN rewrites[r].child
    /\ rewrites[r].child[f] \notin {"completed", "failed"}
    /\ rewrites' = WithChild(r, f, "failed")
    /\ UNCHANGED <<latest, jobs, fragments>>

\* A task with unfinished fragments is recomputed before the method answers
\* that they are pending: its new status stays.
FinishRewriteTask(r) ==
    /\ r \in DOMAIN rewrites
    /\ rewrites' = [rewrites EXCEPT ![r] = RecomputeMemoryRewriteTask(@)]
    /\ UNCHANGED <<latest, jobs, fragments>>

-----------------------------------------------------------------------------
(* Reads.                                                                  *)

\* The fragments in the archive of j, none when the method answers an error.
ArchiveSnapshotLocked(j) ==
    IF /\ j \in DOMAIN jobs
       /\ jobs[j].status = "completed"
       /\ \A f \in Range(jobs[j].fragmentIDs) :
             fragments[f].status = "ready" /\ fragments[f].audio # NoAudio
    THEN Range(jobs[j].fragmentIDs) ELSE {}

-----------------------------------------------------------------------------
Empty == [x \in {} |-> x]

Init ==
    /\ latest = [b \in Book |-> NoJob]
    /\ jobs = Empty /\ fragments = Empty /\ rewrites = Empty

JobNext(j) ==
    \/ CreateJob(j) \/ DeleteJob(j) \/ StartTask(j) \/ FinishTask(j)
    \/ \E S \in SUBSET Range(Catalog[j]) :
          \/ PrepareRetry(j, S)
          \/ \E previous \in [S -> Retryable] : CancelRetry(j, previous)
          \/ \E r \in Rewrite : CreateRewriteTask(r, j, S)

FragmentNext(f) ==
    \/ StartFragment(f) \/ FailFragment(f) \/ PrepareAutomaticWarningRetry(f)
    \/ ApproveFragment(f)
    \/ \E t \in Text :
          \/ EditFragment(f, t)
          \/ \E c \in {""} \cup Codes : CompleteFragment(f, t, c)
    \/ \E n \in 1 .. MaxRevisions : RestoreFragmentRevision(f, n)

RewriteNext(r) ==
    \/ DeleteRewriteTask(r) \/ StartRewriteTask(r) \/ FinishRewriteTask(r)
    \/ \E f \in Fragment :
          \/ StartRewriteFragment(r, f) \/ FailRewriteFragment(r, f)
          \/ \E expected, t \in Text : CompleteRewriteFragment(r, f, expected, t)

Next ==
    \/ \E j \in Job : JobNext(j)
    \/ \E f \in Fragment : FragmentNext(f)
    \/ \E r \in Rewrite : RewriteNext(r)

Spec == Init /\ [][Next]_memVars

-----------------------------------------------------------------------------
(* The tables these maps stand for.                                        *)

Row(f, field, default) ==
    IF f \in DOMAIN fragments THEN fragments[f][field] ELSE default

Unfinished(r) == {f \in DOMAIN rewrites[r].child :
                     rewrites[r].child[f] \in {"queued", "running"}}

JobStatusColumn ==
    [j \in Job |-> IF j \in DOMAIN jobs THEN jobs[j].status ELSE "absent"]
CountColumns ==
    [j \in Job |->
        IF j \in DOMAIN jobs
        THEN [pending |-> jobs[j].pending, ready |-> jobs[j].ready,
              warnings |-> jobs[j].warnings, failed |-> jobs[j].failed]
        ELSE [pending |-> Len(Catalog[j]), ready |-> 0, warnings |-> 0,
              failed |-> 0]]
RewritingRows ==
    [j \in Job |-> IF j \in DOMAIN jobs
                   THEN UNION {Unfinished(r) : r \in
                          {x \in DOMAIN rewrites : rewrites[x].job = j}}
                   ELSE {}]
OutcomeOf(h) ==
    [attempt |-> h.attempt,
     outcome |-> IF h.status = "warning" THEN h.code ELSE h.status]
StatusColumn == [f \in Fragment |-> Row(f, "status", "pending")]
TextColumn == [f \in Fragment |-> Row(f, "text", Source[f])]
RevisionRows == [f \in Fragment |-> Row(f, "revisions", <<Source[f]>>)]
AudioColumn == [f \in Fragment |-> Row(f, "audio", NoAudio)]
CodeColumn == [f \in Fragment |-> Row(f, "code", "")]
AttemptColumn == [f \in Fragment |-> Row(f, "attempt", 0)]
AttemptRows ==
    [f \in Fragment |-> {OutcomeOf(h) : h \in Range(Row(f, "history", <<>>))}]
ReviewRows == [f \in Fragment |-> Range(Row(f, "reviews", <<>>))]

Store == INSTANCE FragmentStore WITH
    jobStatus <- JobStatusColumn, counts <- CountColumns,
    rewriting <- RewritingRows, status <- StatusColumn, text <- TextColumn,
    revisions <- RevisionRows, audio <- AudioColumn, code <- CodeColumn,
    attempt <- AttemptColumn, log <- AttemptRows, approved <- ReviewRows

-----------------------------------------------------------------------------
(* Properties.                                                             *)

\* The maps never point at something that is gone: methods dereference a
\* fragment's job and a job's fragments without looking, and would panic
\* under the mutex.
NoDanglingReferences ==
    /\ \A f \in DOMAIN fragments :
          /\ fragments[f].job \in DOMAIN jobs
          /\ f \in Range(jobs[fragments[f].job].fragmentIDs)
    /\ \A j \in DOMAIN jobs :
          \A f \in Range(jobs[j].fragmentIDs) :
             f \in DOMAIN fragments /\ fragments[f].job = j
    /\ \A b \in Book : latest[b] \in DOMAIN jobs \cup {NoJob}

\* Whatever callers do, an archive has every fragment of its job, each ready
\* and with audio, and a completed job always has one.
ArchivesAreWhole ==
    \A j \in Job :
        /\ ArchiveSnapshotLocked(j) # {} =>
              /\ ArchiveSnapshotLocked(j) = Range(Catalog[j])
              /\ \A f \in Range(Catalog[j]) : fragments[f].status = "ready"
        /\ j \in DOMAIN jobs /\ jobs[j].status = "completed" =>
              ArchiveSnapshotLocked(j) # {}

\* The maps agree with each other.
MapsAgree == NoDanglingReferences /\ ArchivesAreWhole

\* memoryStore implements the repository the runners rely on: each method
\* does to its maps what the transaction does to the tables, or nothing the
\* tables show.
ImplementsStore == Store!StoreSpec

=============================================================================
