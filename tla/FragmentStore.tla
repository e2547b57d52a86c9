--------------------------- MODULE FragmentStore ---------------------------
(***************************************************************************)
(* The repository behind the audiobook service: the jobs, job_fragments,   *)
(* fragment_text_revisions, fragment_attempts, fragment_manual_reviews and *)
(* rewrite_tasks tables, and the transactions of PostgresStore that change *)
(* them.  Every transaction locks the job row (or, for StartFragment, the  *)
(* fragment row) before it reads what it decides on, so each is one atomic *)
(* action here.  An action that is not enabled is a transaction that       *)
(* answers errNotFound, errConflict or errInvalid and rolls back.          *)
(*                                                                         *)
(* Nothing is said about who calls the repository, when, or how often:     *)
(* StoreSpec is what the tables promise to every caller.  GenerationRunner *)
(* adds the callers.                                                       *)
(***************************************************************************)
EXTENDS Integers, FiniteSets, Sequences

CONSTANTS
    Job,        \* identifiers a generate call may give a job
    Fragment,   \* identifiers of the fragments of those jobs
    JobOf,      \* the job a fragment belongs to
    Text,       \* texts a fragment can have
    Source,     \* the text the book gives a fragment
    NoAudio     \* the empty audio_pcm column

ASSUME JobsAssumption == JobOf \in [Fragment -> Job]
ASSUME FragmentsAssumption == IsFiniteSet(Fragment)
ASSUME TextAssumption == Source \in [Fragment -> Text]
ASSUME AudioAssumption == NoAudio \notin Text

VARIABLES
    jobStatus,  \* jobs.status, "absent" when the row does not exist
    counts,     \* jobs.fragments_pending, _ready, _warnings and _failed
    rewriting,  \* unfinished fragments of the job's active rewrite task
    status,     \* job_fragments.status
    text,       \* job_fragments.text
    revisions,  \* fragment_text_revisions, by revision_number
    audio,      \* job_fragments.audio_pcm: the text it speaks, or NoAudio
    code,       \* job_fragments.warning_code
    attempt,    \* job_fragments.attempt
    log,        \* fragment_attempts: the attempts that reached an outcome
    approved    \* fragment_manual_reviews: the attempts a person approved

storeVars == <<jobStatus, counts, rewriting, status, text, revisions, audio,
               code, attempt, log, approved>>

JobStatus == {"queued", "running", "completed", "completed_with_warnings",
              "failed"}
FragmentStatus == {"pending", "generating", "ready", "warning", "failed"}
Retryable == {"warning", "failed"}
Unsettled == {"pending", "generating"}

\* The warnings validation gives a result, and those an edit leaves behind.
ValidationCode == {"transcript_mismatch", "audio_warning"}
TextCode == {"text_edited", "text_restored", "text_rewritten"}
WarningCode == {""} \cup ValidationCode \cup TextCode
Outcome == {"ready", "failed"} \cup ValidationCode

Active(j) == jobStatus[j] \in {"queued", "running"}
Exists(f) == jobStatus[JobOf[f]] # "absent"
FragmentsOf(j) == {f \in Fragment : JobOf[f] = j}

-----------------------------------------------------------------------------
(* The job row is derived from the fragment rows.                          *)

CountsOf(j, st) ==
    LET In(S) == Cardinality({f \in FragmentsOf(j) : st[f] \in S})
    IN  [pending  |-> In(Unsettled),
         ready    |-> In({"ready"}),
         warnings |-> In({"warning"}),
         failed   |-> In({"failed"})]

StatusFor(j, st) ==
    LET Some(S) == \E f \in FragmentsOf(j) : st[f] \in S
    IN  CASE Some(Unsettled) -> "running"
          [] ~Some(Unsettled) /\ Some({"failed"}) -> "failed"
          [] ~Some(Unsettled \cup {"failed"}) /\ Some({"warning"})
                -> "completed_with_warnings"
          [] OTHER -> "completed"

\* recomputePostgresJob over the fragment statuses the transaction leaves,
\* with the status a caller forces on the job afterwards.
RecomputeTo(j, st, final) ==
    /\ counts' = [counts EXCEPT ![j] = CountsOf(j, st)]
    /\ jobStatus' = [jobStatus EXCEPT ![j] = final]

Recompute(j, st) == RecomputeTo(j, st, StatusFor(j, st))

\* The rows of a job as createJob inserts them; the rows of an absent job
\* have the same values.
Inserted(j, row, value) ==
    [f \in Fragment |-> IF JobOf[f] = j THEN value[f] ELSE row[f]]

FreshRows(j) ==
    /\ counts' = [counts EXCEPT ![j] =
                     CountsOf(j, [f \in Fragment |-> "pending"])]
    /\ rewriting' = [rewriting EXCEPT ![j] = {}]
    /\ status' = Inserted(j, status, [f \in Fragment |-> "pending"])
    /\ text' = Inserted(j, text, Source)
    /\ revisions' = Inserted(j, revisions,
                             [f \in Fragment |-> <<Source[f]>>])
    /\ audio' = Inserted(j, audio, [f \in Fragment |-> NoAudio])
    /\ code' = Inserted(j, code, [f \in Fragment |-> ""])
    /\ attempt' = Inserted(j, attempt, [f \in Fragment |-> 0])
    /\ log' = Inserted(j, log, [f \in Fragment |-> {}])
    /\ approved' = Inserted(j, approved, [f \in Fragment |-> {}])

\* A new revision becomes the fragment's text; what was spoken is dropped.
SetText(f, t) ==
    /\ text' = [text EXCEPT ![f] = t]
    /\ revisions' = [revisions EXCEPT ![f] = Append(@, t)]
    /\ audio' = [audio EXCEPT ![f] = NoAudio]

\* fragment_attempts has UNIQUE (fragment_id, attempt): an insert that
\* repeats a number fails and takes the transaction with it.
InsertAttempt(f, outcome) ==
    /\ \A r \in log[f] : r.attempt # attempt[f]
    /\ log' = [log EXCEPT ![f] =
                  @ \cup {[attempt |-> attempt[f], outcome |-> outcome]}]

-----------------------------------------------------------------------------
(* Jobs.                                                                   *)

CreateJob(j) ==
    /\ jobStatus[j] = "absent"
    /\ jobStatus' = [jobStatus EXCEPT ![j] = "queued"]
    /\ FreshRows(j)

\* DELETE FROM jobs cascades to every row of the job.
DeleteJob(j) ==
    /\ jobStatus' = [jobStatus EXCEPT ![j] = "absent"]
    /\ FreshRows(j)

StartTask(j) ==
    /\ jobStatus[j] # "absent"
    /\ jobStatus' = [jobStatus EXCEPT ![j] = "running"]
    /\ UNCHANGED <<counts, rewriting, status, text, revisions, audio, code,
                   attempt, log, approved>>

FinishTask(j) ==
    /\ jobStatus[j] # "absent"
    /\ Recompute(j, status)
    /\ UNCHANGED <<rewriting, status, text, revisions, audio, code, attempt,
                   log, approved>>

\* A slip of PrepareRetry: an active rewrite task does not hold it up.
PrepareRetryDuringRewrite(j, S) ==
    /\ jobStatus[j] # "absent" /\ ~Active(j)
    /\ S # {} /\ S \subseteq FragmentsOf(j)
    /\ \A f \in S : status[f] \in Retryable
    /\ status' = [f \in Fragment |-> IF f \in S THEN "pending" ELSE status[f]]
    /\ RecomputeTo(j, status', "queued")
    /\ UNCHANGED <<rewriting, text, revisions, audio, code, attempt, log,
                   approved>>

\* S is the selection of retryCandidates: only warning and failed fragments
\* of the job, at least one.
PrepareRetry(j, S) ==
    /\ jobStatus[j] # "absent" /\ ~Active(j)
    /\ rewriting[j] = {}
    /\ S # {} /\ S \subseteq FragmentsOf(j)
    /\ \A f \in S : status[f] \in Retryable
    /\ status' = [f \in Fragment |-> IF f \in S THEN "pending" ELSE status[f]]
    /\ RecomputeTo(j, status', "queued")
    /\ UNCHANGED <<rewriting, text, revisions, audio, code, attempt, log,
                   approved>>

\* previous maps the fragments of the retry to the statuses they had.  A job
\* that is gone is not an error.
CancelRetry(j, previous) ==
    IF jobStatus[j] = "absent" THEN UNCHANGED storeVars ELSE
    /\ status' = [f \in Fragment |->
                     IF /\ f \in DOMAIN previous /\ JobOf[f] = j
                        /\ status[f] = "pending"
                     THEN previous[f] ELSE status[f]]
    /\ Recompute(j, status')
    /\ UNCHANGED <<rewriting, text, revisions, audio, code, attempt, log,
                   approved>>

-----------------------------------------------------------------------------
(* Generation of one fragment.                                             *)

StartFragment(f) ==
    /\ Exists(f)
    /\ status[f] = "pending"
    /\ status' = [status EXCEPT ![f] = "generating"]
    /\ attempt' = [attempt EXCEPT ![f] = @ + 1]
    /\ code' = [code EXCEPT ![f] = ""]
    /\ UNCHANGED <<jobStatus, counts, rewriting, text, revisions, audio, log,
                   approved>>

\* spoken is the text the new audio speaks, c the code validation gave it.
CompleteFragment(f, spoken, c) ==
    /\ Exists(f)
    /\ status[f] = "generating"
    /\ InsertAttempt(f, IF c = "" THEN "ready" ELSE c)
    /\ status' = [status EXCEPT ![f] = IF c = "" THEN "ready" ELSE "warning"]
    /\ code' = [code EXCEPT ![f] = c]
    /\ audio' = [audio EXCEPT ![f] = spoken]
    /\ Recompute(JobOf[f], status')
    /\ UNCHANGED <<rewriting, text, revisions, attempt, approved>>

\* A slip of FailFragment: a failure is not worth an attempt row.
FailFragmentUnrecorded(f) ==
    /\ Exists(f)
    /\ status[f] = "generating"
    /\ status' = [status EXCEPT ![f] = "failed"]
    /\ code' = [code EXCEPT ![f] = ""]
    /\ Recompute(JobOf[f], status')
    /\ UNCHANGED <<rewriting, text, revisions, audio, attempt, log, approved>>

\* The audio of an earlier attempt stays in the row.
FailFragment(f) ==
    /\ Exists(f)
    /\ status[f] = "generating"
    /\ InsertAttempt(f, "failed")
    /\ status' = [status EXCEPT ![f] = "failed"]
    /\ code' = [code EXCEPT ![f] = ""]
    /\ Recompute(JobOf[f], status')
    /\ UNCHANGED <<rewriting, text, revisions, audio, attempt, approved>>

\* A slip of PrepareAutomaticWarningRetry: it trusts that the fragment still
\* has the warning its caller saw.
PrepareAutomaticWarningRetryUnchecked(f) ==
    /\ Exists(f)
    /\ status' = [status EXCEPT ![f] = "pending"]
    /\ code' = [code EXCEPT ![f] = ""]
    /\ RecomputeTo(JobOf[f], status', "running")
    /\ UNCHANGED <<rewriting, text, revisions, audio, attempt, log, approved>>

PrepareAutomaticWarningRetry(f) ==
    /\ Exists(f)
    /\ status[f] = "warning" /\ code[f] \in ValidationCode
    /\ status' = [status EXCEPT ![f] = "pending"]
    /\ code' = [code EXCEPT ![f] = ""]
    /\ RecomputeTo(JobOf[f], status', "running")
    /\ UNCHANGED <<rewriting, text, revisions, audio, attempt, log, approved>>

-----------------------------------------------------------------------------
(* What a person does to one fragment.                                     *)

EditFragment(f, t) ==
    /\ Exists(f)
    /\ status[f] \in Retryable
    /\ SetText(f, t)
    /\ status' = [status EXCEPT ![f] = "warning"]
    /\ code' = [code EXCEPT ![f] = "text_edited"]
    /\ Recompute(JobOf[f], status')
    /\ UNCHANGED <<rewriting, attempt, log, approved>>

RestoredStatus(st) == IF st = "pending" THEN "pending" ELSE "warning"
RestoredCode(st) == IF st = "pending" THEN "" ELSE "text_restored"

\* A slip of RestoreFragmentRevision: the job's row is recomputed only when
\* the fragment has work to do.
RestoreFragmentRevisionStaleJob(f, n) ==
    /\ Exists(f)
    /\ status[f] # "generating"
    /\ n \in DOMAIN revisions[f]
    /\ SetText(f, revisions[f][n])
    /\ status' = [status EXCEPT ![f] = RestoredStatus(@)]
    /\ code' = [code EXCEPT ![f] = RestoredCode(status[f])]
    /\ UNCHANGED <<jobStatus, counts, rewriting, attempt, log, approved>>

\* A queued job whose pending fragment gets an old text back stays queued.
RestoreFragmentRevision(f, n) ==
    LET j == JobOf[f]
        keepsQueued == jobStatus[j] = "queued" /\ status[f] = "pending"
    IN  /\ Exists(f)
        /\ status[f] # "generating"
        /\ n \in DOMAIN revisions[f]
        /\ SetText(f, revisions[f][n])
        /\ status' = [status EXCEPT ![f] = RestoredStatus(@)]
        /\ code' = [code EXCEPT ![f] = RestoredCode(status[f])]
        /\ RecomputeTo(j, status',
                       IF keepsQueued THEN "queued" ELSE StatusFor(j, status'))
        /\ UNCHANGED <<rewriting, attempt, log, approved>>

\* Slips of ApproveFragment: it does not look for audio; it accepts a failed
\* fragment whose row still has the audio of an earlier attempt.
ApproveFragmentUnheard(f) ==
    /\ Exists(f)
    /\ status[f] = "warning"
    /\ approved' = [approved EXCEPT ![f] = @ \cup {attempt[f]}]
    /\ status' = [status EXCEPT ![f] = "ready"]
    /\ code' = [code EXCEPT ![f] = ""]
    /\ Recompute(JobOf[f], status')
    /\ UNCHANGED <<rewriting, text, revisions, audio, attempt, log>>

ApproveFragmentFailed(f) ==
    /\ Exists(f)
    /\ status[f] \in Retryable
    /\ audio[f] # NoAudio
    /\ approved' = [approved EXCEPT ![f] = @ \cup {attempt[f]}]
    /\ status' = [status EXCEPT ![f] = "ready"]
    /\ code' = [code EXCEPT ![f] = ""]
    /\ Recompute(JobOf[f], status')
    /\ UNCHANGED <<rewriting, text, revisions, audio, attempt, log>>

ApproveFragment(f) ==
    /\ Exists(f)
    /\ status[f] = "warning"
    /\ audio[f] # NoAudio
    /\ approved' = [approved EXCEPT ![f] = @ \cup {attempt[f]}]
    /\ status' = [status EXCEPT ![f] = "ready"]
    /\ code' = [code EXCEPT ![f] = ""]
    /\ Recompute(JobOf[f], status')
    /\ UNCHANGED <<rewriting, text, revisions, audio, attempt, log>>

-----------------------------------------------------------------------------
(* Rewrite tasks, as the fragments see them: the fragments the job's       *)
(* active task has still to rewrite.  The task is active while there are   *)
(* any.                                                                    *)

CreateRewriteTask(j, S) ==
    /\ jobStatus[j] # "absent" /\ ~Active(j)
    /\ rewriting[j] = {}
    /\ S # {} /\ S \subseteq FragmentsOf(j)
    /\ \A f \in S : status[f] = "warning"
    /\ rewriting' = [rewriting EXCEPT ![j] = S]
    /\ UNCHANGED <<jobStatus, counts, status, text, revisions, audio, code,
                   attempt, log, approved>>

\* expected is the text the model was given; t the text it answered.
CompleteRewriteFragment(f, expected, t) ==
    /\ f \in rewriting[JobOf[f]]
    /\ status[f] = "warning" /\ text[f] = expected
    /\ rewriting' = [rewriting EXCEPT ![JobOf[f]] = @ \ {f}]
    /\ IF t = expected
       THEN UNCHANGED <<jobStatus, counts, status, text, revisions, audio, code>>
       ELSE /\ SetText(f, t)
            /\ code' = [code EXCEPT ![f] = "text_rewritten"]
            /\ Recompute(JobOf[f], status)
            /\ UNCHANGED status
    /\ UNCHANGED <<attempt, log, approved>>

FailRewriteFragment(f) ==
    /\ f \in rewriting[JobOf[f]]
    /\ rewriting' = [rewriting EXCEPT ![JobOf[f]] = @ \ {f}]
    /\ UNCHANGED <<jobStatus, counts, status, text, revisions, audio, code,
                   attempt, log, approved>>

DeleteRewriteTask(j) ==
    /\ rewriting' = [rewriting EXCEPT ![j] = {}]
    /\ UNCHANGED <<jobStatus, counts, status, text, revisions, audio, code,
                   attempt, log, approved>>

-----------------------------------------------------------------------------
(* GET /v1/job/{jobID}/archive: one REPEATABLE READ snapshot of the tables. *)

ArchiveSnapshot(j) ==
    CASE jobStatus[j] = "absent" -> "job not found"
      [] jobStatus[j] \in JobStatus \ {"completed"} -> "job is not completed"
      [] /\ jobStatus[j] = "completed"
         /\ \E f \in FragmentsOf(j) : status[f] # "ready" \/ audio[f] = NoAudio
            -> "fragment audio is not ready"
      [] OTHER -> "archive"

-----------------------------------------------------------------------------
StoreInit ==
    /\ jobStatus = [j \in Job |-> "absent"]
    /\ counts = [j \in Job |-> CountsOf(j, [f \in Fragment |-> "pending"])]
    /\ rewriting = [j \in Job |-> {}]
    /\ status = [f \in Fragment |-> "pending"]
    /\ text = Source
    /\ revisions = [f \in Fragment |-> <<Source[f]>>]
    /\ audio = [f \in Fragment |-> NoAudio]
    /\ code = [f \in Fragment |-> ""]
    /\ attempt = [f \in Fragment |-> 0]
    /\ log = [f \in Fragment |-> {}]
    /\ approved = [f \in Fragment |-> {}]

JobStep(j) ==
    \/ CreateJob(j)
    \/ DeleteJob(j)
    \/ StartTask(j)
    \/ FinishTask(j)
    \/ \E S \in SUBSET FragmentsOf(j) :
          \/ PrepareRetry(j, S)
          \/ CreateRewriteTask(j, S)
          \/ \E previous \in [S -> Retryable] : CancelRetry(j, previous)
    \/ DeleteRewriteTask(j)

FragmentStep(f) ==
    \/ StartFragment(f)
    \/ \E spoken \in Text, c \in {""} \cup ValidationCode :
          CompleteFragment(f, spoken, c)
    \/ FailFragment(f)
    \/ PrepareAutomaticWarningRetry(f)
    \/ \E t \in Text : EditFragment(f, t)
    \/ \E n \in DOMAIN revisions[f] : RestoreFragmentRevision(f, n)
    \/ ApproveFragment(f)
    \/ \E t \in Text : CompleteRewriteFragment(f, text[f], t)
    \/ FailRewriteFragment(f)

StoreNext ==
    \/ \E j \in Job : JobStep(j)
    \/ \E f \in Fragment : FragmentStep(f)

StoreSpec == StoreInit /\ [][StoreNext]_storeVars

-----------------------------------------------------------------------------
(* What the tables promise whoever calls.                                  *)

Attempts(f) == {r.attempt : r \in log[f]}

\* The columns of the tables have their types, which the CHECKs of the
\* migrations state in part; a fragment has a revision, and a rewrite task
\* only fragments of its own job.
StoreTypeOK ==
    /\ jobStatus \in [Job -> JobStatus \cup {"absent"}]
    /\ counts \in [Job -> [pending : Nat, ready : Nat, warnings : Nat,
                           failed : Nat]]
    /\ rewriting \in [Job -> SUBSET Fragment]
    /\ \A j \in Job : rewriting[j] \subseteq FragmentsOf(j)
    /\ status \in [Fragment -> FragmentStatus]
    /\ text \in [Fragment -> Text]
    /\ revisions \in [Fragment -> Seq(Text) \ {<<>>}]
    /\ audio \in [Fragment -> Text \cup {NoAudio}]
    /\ code \in [Fragment -> WarningCode]
    /\ attempt \in [Fragment -> Nat]
    /\ log \in [Fragment -> SUBSET [attempt : Nat, outcome : Outcome]]
    /\ approved \in [Fragment -> SUBSET Nat]

\* The counters a client polls agree with the fragments after every
\* transaction, also after StartFragment, which changes a fragment without
\* locking or recomputing its job.
CountersMatch == \A j \in Job : counts[j] = CountsOf(j, status)

\* A job that shows a final status shows the one its fragments have: in
\* particular none of them is pending or generating.
FinalStatusIsHonest ==
    \A j \in Job : jobStatus[j] \notin {"absent", "queued", "running"} =>
        jobStatus[j] = StatusFor(j, status)

\* What a client reads in a job's row is true of the job's fragments.
RowsMatch == CountersMatch /\ FinalStatusIsHonest

\* Every attempt that reached an outcome is recorded once, under its own
\* number, and none is missing: UNIQUE (fragment_id, attempt) never refuses
\* a result, and the attempt counter never runs ahead of the record by more
\* than the attempt under way.
AttemptsAreRecorded ==
    \A f \in Fragment :
        /\ Attempts(f) = IF status[f] = "generating"
                         THEN 1 .. attempt[f] - 1 ELSE 1 .. attempt[f]
        /\ status[f] = "generating" => attempt[f] >= 1
        /\ \A r, s \in log[f] : r.attempt = s.attempt => r = s

\* A job that shows "completed" can be exported: the archive handler, which
\* reads the fragments after the job, never answers that audio is missing.
CompletedIsExportable ==
    \A j \in Job : ArchiveSnapshot(j) # "fragment audio is not ready"

=============================================================================
