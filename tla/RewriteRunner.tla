---------------------------- MODULE RewriteRunner ----------------------------
(***************************************************************************)
(* Rewrite tasks in full: the rewrite_tasks and rewrite_task_fragments     *)
(* rows, the handler that creates a task (rewriteWarnings), and the second *)
(* background goroutine (rewriteRunner), which takes tasks from a queue of *)
(* its own and asks the local text model to rewrite one warning after the  *)
(* other.  It runs beside the whole of GenerationRunner, on the same       *)
(* fragments: every generation step is a step here.                        *)
(*                                                                         *)
(* GenerationRunner sees of a rewrite task only the fragments it has still *)
(* to rewrite.  Here that is not a variable but is read off the rows       *)
(* (Rewriting), so that this module implements GenerationRunner.           *)
(***************************************************************************)
EXTENDS Integers, FiniteSets, Sequences, Functions

CONSTANTS
    Job, Fragment, JobOf, Text, Source, NoAudio, Handler, Catalog, QueueSize,
    MaxAutoRetries, Faults, MaxRevisions, MaxAttempts,  \* see GenerationRunner
    Rewrite,            \* identifiers newID may give rewrite tasks
    ModelRevision,      \* revisions of the model the worker may be running
    NoModel,            \* the empty model_revision column
    RewriteQueueSize    \* capacity of rewriteRunner.queue

ASSUME JobsAssumption == JobOf \in [Fragment -> Job] /\ IsFiniteSet(Fragment)
ASSUME CatalogAssumption ==
    /\ Catalog \in [Job -> Seq(Fragment)]
    /\ \A j \in Job : /\ Range(Catalog[j]) = {f \in Fragment : JobOf[f] = j}
                      /\ IsInjective(Catalog[j])
ASSUME ModelAssumption == NoModel \notin ModelRevision
ASSUME RewriteQueueAssumption == RewriteQueueSize \in Nat \ {0}

VARIABLES
    jobStatus, counts, status, text, revisions, audio, code, attempt, log,
    approved, queue, request, pc, task, index, retries, item, closed

VARIABLES
    row,        \* rewrite_tasks and rewrite_task_fragments, by task id
    rwQueue,    \* rewriteRunner.queue
    rwRequest,  \* where the request that was given this id is
    rwPc,       \* where the rewrite runner's goroutine is
    rwTask,     \* the task it processes
    rwIndex,    \* the position in rwTask.fragments of its current fragment
    rwItem,     \* the text of the work item it sent to the model
    rwClosed    \* rewriteRunner.closed

tableVars == <<jobStatus, counts, status, text, revisions, audio, code,
               attempt, log, approved>>
generationVars == <<queue, request, pc, task, index, retries, item, closed>>
rwRunnerVars == <<rwPc, rwTask, rwIndex, rwItem>>
rwProcessVars == <<rwQueue, rwRequest, rwRunnerVars, rwClosed>>
vars == <<tableVars, generationVars, row, rwProcessVars>>

Unfinished == {"queued", "running"}

\* A row that does not exist, and a child as createRewriteTask inserts it.
NoRow == [status |-> "absent", model |-> NoModel, child |-> <<>>]
NewChild == [status |-> "queued", model |-> NoModel]

Pending(r) ==
    {f \in DOMAIN row[r].child : row[r].child[f].status \in Unfinished}
IsActive(r) == row[r].status \in Unfinished

\* What generation sees: a child names a fragment of the task's own job
\* (FOREIGN KEY (fragment_id, job_id)).
Rewriting ==
    [j \in Job |-> {f \in UNION {Pending(r) : r \in Rewrite} : JobOf[f] = j}]

Gen == INSTANCE GenerationRunner WITH rewriting <- Rewriting

Of(j, r) == DOMAIN row[r].child \cap Gen!FragmentsOf(j) # {}

-----------------------------------------------------------------------------
(* The rows of a rewrite task.                                             *)

StatusForChildren(child) ==
    LET Some(st) == \E f \in DOMAIN child : child[f].status = st
        Unsettled == Some("queued") \/ Some("running")
    IN  CASE Unsettled -> "running"
          [] ~Unsettled /\ ~Some("completed") -> "failed"
          [] ~Unsettled /\ Some("completed") /\ Some("failed")
                -> "completed_with_errors"
          [] OTHER -> "completed"

\* recomputePostgresRewriteTask over the children a transaction leaves; the
\* fragments_* counters are those of the children.
Recomputed(w) == [w EXCEPT !.status = StatusForChildren(w.child)]

SetChild(w, f, c) == [w EXCEPT !.child[f] = c]

\* DELETE FROM jobs cascades to the job's rewrite tasks.
WithoutTasksOf(j) ==
    [r \in Rewrite |-> IF Of(j, r) THEN NoRow ELSE row[r]]

-----------------------------------------------------------------------------
(* The generation side, which knows nothing of these rows; only deleting a *)
(* job reaches them.                                                       *)

UndoesGenerate(h) ==
    request[h].pc = "compensate" /\ request[h].kind = "generate"

Generation ==
    /\ \/ /\ UNCHANGED row
          /\ \/ \E h \in Handler :
                   \/ Gen!Generate(h)
                   \/ Gen!Retry(h)
                   \/ Gen!Enqueue(h)
                   \/ ~UndoesGenerate(h) /\ Gen!Compensate(h)
                   \/ Gen!CompensateFails(h)
                   \/ Gen!ScheduleFails(h)
             \/ Gen!Client
             \/ Gen!Runner
             \/ Gen!Close
       \/ \E h \in Handler :
             /\ UndoesGenerate(h)
             /\ row' = WithoutTasksOf(request[h].task.job)
             /\ Gen!Compensate(h)
    /\ UNCHANGED rwProcessVars

-----------------------------------------------------------------------------
(* POST /v1/job/{jobID}/rewrite/warnings.                                  *)

\* The task value lists the fragments S in book order, whatever order the
\* request named them in.  There is one such list.
InBookOrder(j, S) ==
    {s \in Bijection(1 .. Cardinality(S), S) :
        \A a, b \in DOMAIN s : a < b =>
            \E x, y \in DOMAIN Catalog[j] :
                x < y /\ Catalog[j][x] = s[a] /\ Catalog[j][y] = s[b]}
RewriteTasksFor(r, j, S) == [id : {r}, fragments : InBookOrder(j, S)]
NoRwTask == [fragments |-> <<>>]

InsertTask(r, S) ==
    row' = [row EXCEPT ![r] = [status |-> "queued", model |-> NoModel,
                               child |-> [f \in S |-> NewChild]]]

\* A slip of CreateTask: it does not ask whether the job has an active task.
CreateTaskUnchecked(r) ==
    /\ rwRequest[r].pc = "new"
    /\ \E j \in Job : \E S \in SUBSET Gen!FragmentsOf(j) \ {{}} :
          /\ jobStatus[j] # "absent" /\ ~Gen!Active(j)
          /\ \A f \in S : status[f] = "warning"
          /\ InsertTask(r, S)
          /\ \E t \in RewriteTasksFor(r, j, S) :
                rwRequest' = [rwRequest EXCEPT ![r] =
                                 [pc |-> "enqueue", task |-> t]]
    /\ UNCHANGED <<tableVars, generationVars, rwQueue, rwRunnerVars, rwClosed>>

\* The commit's answer may be lost: the client is told of an error.
CreateTask(r) ==
    /\ rwRequest[r].pc = "new"
    /\ \E j \in Job : \E S \in SUBSET Gen!FragmentsOf(j) :
          /\ InsertTask(r, S)
          /\ Gen!CreateRewriteTask(j, S)
          /\ \/ \E t \in RewriteTasksFor(r, j, S) :
                   rwRequest' = [rwRequest EXCEPT ![r] =
                                    [pc |-> "enqueue", task |-> t]]
             \/ Gen!RequestFails
                /\ rwRequest' = [rwRequest EXCEPT ![r] = [pc |-> "done"]]
    /\ UNCHANGED <<generationVars, rwQueue, rwRunnerVars, rwClosed>>

\* A slip of EnqueueTask: a task that was sent is also reported as refused.
EnqueueTaskSentAndRefused(r) ==
    /\ rwRequest[r].pc = "enqueue"
    /\ rwQueue' = IF ~rwClosed /\ Len(rwQueue) < RewriteQueueSize
                  THEN Append(rwQueue, rwRequest[r].task) ELSE rwQueue
    /\ rwRequest' = [rwRequest EXCEPT ![r] = [pc |-> "compensate"]]
    /\ UNCHANGED <<tableVars, generationVars, row, rwRunnerVars, rwClosed>>

EnqueueTask(r) ==
    /\ rwRequest[r].pc = "enqueue"
    /\ IF ~rwClosed /\ Len(rwQueue) < RewriteQueueSize
       THEN /\ rwQueue' = Append(rwQueue, rwRequest[r].task)
            /\ rwRequest' = [rwRequest EXCEPT ![r] = [pc |-> "done"]]
       ELSE /\ rwRequest' = [rwRequest EXCEPT ![r] = [pc |-> "compensate"]]
            /\ UNCHANGED rwQueue
    /\ UNCHANGED <<tableVars, generationVars, row, rwRunnerVars, rwClosed>>

\* A slip of UndoTask: a refused task stays in the table.
UndoTaskForgotten(r) ==
    /\ rwRequest[r].pc = "compensate"
    /\ rwRequest' = [rwRequest EXCEPT ![r] = [pc |-> "done"]]
    /\ UNCHANGED <<tableVars, generationVars, row, rwQueue, rwRunnerVars,
                   rwClosed>>

UndoTask(r) ==
    /\ rwRequest[r].pc = "compensate"
    /\ row' = [row EXCEPT ![r] = NoRow]
    /\ rwRequest' = [rwRequest EXCEPT ![r] = [pc |-> "done"]]
    /\ UNCHANGED <<tableVars, generationVars, rwQueue, rwRunnerVars, rwClosed>>

\* deleteRewriteTask is called with the context of the request.
UndoTaskFails(r) ==
    /\ rwRequest[r].pc = "compensate"
    /\ Faults \cap {"db", "disconnect"} # {}
    /\ rwRequest' = [rwRequest EXCEPT ![r] = [pc |-> "done"]]
    /\ UNCHANGED <<tableVars, generationVars, row, rwQueue, rwRunnerVars,
                   rwClosed>>

-----------------------------------------------------------------------------
(* The rewrite runner.                                                     *)

rw == rwTask.id
RwFragment == rwTask.fragments[rwIndex]
Child == row[rw].child[RwFragment]
CallFails == rwClosed \/ "db" \in Faults
Stay == UNCHANGED <<generationVars, rwQueue, rwRequest, rwClosed>>

ToIdle == rwPc' = "idle" /\ rwTask' = NoRwTask /\ rwIndex' = 0
          /\ rwItem' = NoAudio

ToFragment(i) ==
    /\ rwPc' = IF i <= Len(rwTask.fragments) THEN "claim" ELSE "finish"
    /\ rwIndex' = i /\ rwItem' = NoAudio
    /\ UNCHANGED rwTask
NextFragment == ToFragment(rwIndex + 1)

ToFailing ==
    /\ rwPc' = "failing" /\ rwItem' = NoAudio
    /\ UNCHANGED <<rwTask, rwIndex>>

TakeTask ==
    /\ rwPc = "idle" /\ rwQueue # <<>>
    /\ rwTask' = Head(rwQueue) /\ rwQueue' = Tail(rwQueue)
    /\ rwPc' = "begin"
    /\ UNCHANGED <<tableVars, generationVars, row, rwRequest, rwIndex, rwItem,
                   rwClosed>>

LoopExit ==
    /\ rwPc = "idle" /\ rwClosed
    /\ rwPc' = "exited"
    /\ UNCHANGED <<tableVars, row, rwTask, rwIndex, rwItem>> /\ Stay

StartTask ==
    /\ row[rw].status = "queued"
    /\ row' = [row EXCEPT ![rw].status = "running"]

BeginTask ==
    /\ rwPc = "begin" /\ ~rwClosed
    /\ StartTask
    /\ ToFragment(1)
    /\ UNCHANGED tableVars /\ Stay

\* startRewriteTask answered an error, whether or not it was applied: the
\* task is gone from the process.
DropTask ==
    /\ rwPc = "begin"
    /\ \/ CallFails /\ UNCHANGED row
       \/ row[rw].status # "queued" /\ UNCHANGED row
       \/ "db" \in Faults /\ StartTask
    /\ ToIdle /\ UNCHANGED tableVars /\ Stay

Abandon ==
    /\ rwPc = "claim" /\ rwClosed
    /\ ToIdle /\ UNCHANGED <<tableVars, row>> /\ Stay

Claimable ==
    /\ row[rw].status = "running"
    /\ Child.status = "queued"
    /\ status[RwFragment] = "warning"

ClaimFragment ==
    /\ rwPc = "claim" /\ ~rwClosed
    /\ Claimable
    /\ row' = [row EXCEPT ![rw].child[RwFragment].status = "running"]
    /\ rwPc' = "work" /\ rwItem' = text[RwFragment]
    /\ UNCHANGED <<tableVars, rwTask, rwIndex>> /\ Stay

ClaimFails ==
    /\ rwPc = "claim" /\ ~rwClosed
    /\ \/ ~Claimable /\ UNCHANGED row
       \/ "db" \in Faults /\ UNCHANGED row
       \/ /\ "db" \in Faults /\ Claimable
          /\ row' = [row EXCEPT ![rw].child[RwFragment].status = "running"]
    /\ ToFailing /\ UNCHANGED tableVars /\ Stay

\* The task's row as completeRewriteFragment leaves it, and its conditions.
Completed(m) ==
    Recomputed([SetChild(row[rw], RwFragment,
                         [status |-> "completed", model |-> m])
                EXCEPT !.model = IF @ = NoModel THEN m ELSE @])

\* Slips of Save: the model's revision is not compared with the one the task
\* recorded; the text is not compared with the one the model was given;
\* nobody looks whether the fragment is still a warning.
SaveAnyModel(t, m) ==
    /\ row[rw].status = "running"
    /\ Child.status = "running"
    /\ row' = [row EXCEPT ![rw] = Completed(m)]
    /\ Gen!CompleteRewriteFragment(RwFragment, rwItem, t)

SaveOverEdit(t, m) ==
    /\ row[rw].status = "running"
    /\ row[rw].model \in {NoModel, m}
    /\ Child.status = "running"
    /\ row' = [row EXCEPT ![rw] = Completed(m)]
    /\ Gen!CompleteRewriteFragment(RwFragment, text[RwFragment], t)

SaveAfterRetry(t, m) ==
    /\ row[rw].status = "running"
    /\ row[rw].model \in {NoModel, m}
    /\ Child.status = "running"
    /\ text[RwFragment] = rwItem
    /\ row' = [row EXCEPT ![rw] = Completed(m)]
    /\ text' = [text EXCEPT ![RwFragment] = t]
    /\ revisions' = [revisions EXCEPT ![RwFragment] = Append(@, t)]
    /\ audio' = [audio EXCEPT ![RwFragment] = NoAudio]
    /\ UNCHANGED <<jobStatus, counts, status, code, attempt, log, approved>>

\* t and m are the text and the revision of the model's answer.
Save(t, m) ==
    /\ row[rw].status = "running"
    /\ row[rw].model \in {NoModel, m}
    /\ Child.status = "running"
    /\ row' = [row EXCEPT ![rw] = Completed(m)]
    /\ Gen!CompleteRewriteFragment(RwFragment, rwItem, t)

MayAnswer(t) == t # rwItem => Len(revisions[RwFragment]) < MaxRevisions

Answer(t, m) ==
    /\ rwPc = "work" /\ ~rwClosed
    /\ MayAnswer(t)
    /\ Save(t, m)
    /\ NextFragment /\ Stay

\* The model answers an error, too late, or something that is not the same
\* phrase; the answer can not be saved, or is saved and the reply is lost.
NoAnswer ==
    /\ rwPc = "work"
    /\ \/ UNCHANGED <<tableVars, row>>
       \/ /\ "db" \in Faults
          /\ \E t \in Text, m \in ModelRevision : MayAnswer(t) /\ Save(t, m)
    /\ ToFailing /\ Stay

\* A slip of FailFragment: the task is not recomputed.
FailFragmentUncounted ==
    /\ rwPc = "failing"
    /\ IF RwFragment \in Pending(rw)
       THEN /\ row' = [row EXCEPT ![rw] =
                          SetChild(@, RwFragment, [NewChild EXCEPT
                                                      !.status = "failed"])]
            /\ Gen!FailRewriteFragment(RwFragment)
       ELSE UNCHANGED <<tableVars, row>>
    /\ NextFragment /\ Stay

\* A child that reached an outcome, or is gone with its task, is left alone.
FailFragment ==
    /\ rwPc = "failing"
    /\ IF RwFragment \in Pending(rw)
       THEN /\ row' = [row EXCEPT ![rw] =
                          Recomputed(SetChild(@, RwFragment,
                                              [NewChild EXCEPT
                                                  !.status = "failed"]))]
            /\ Gen!FailRewriteFragment(RwFragment)
       ELSE UNCHANGED <<tableVars, row>>
    /\ NextFragment /\ Stay

\* failFragment uses context.Background(), so only the database can make it
\* fail; nothing tries again.
FailFragmentFails ==
    /\ rwPc = "failing" /\ "db" \in Faults
    /\ NextFragment /\ UNCHANGED <<tableVars, row>> /\ Stay

EndTask ==
    /\ rwPc = "finish" /\ ~rwClosed
    /\ row[rw].status # "absent" /\ Pending(rw) = {}
    /\ row' = [row EXCEPT ![rw] = Recomputed(@)]
    /\ ToIdle /\ UNCHANGED tableVars /\ Stay

EndTaskFails ==
    /\ rwPc = "finish"
    /\ CallFails \/ row[rw].status = "absent" \/ Pending(rw) # {}
    /\ ToIdle /\ UNCHANGED <<tableVars, row>> /\ Stay

RwRunner ==
    \/ TakeTask \/ LoopExit \/ BeginTask \/ DropTask \/ Abandon
    \/ ClaimFragment \/ ClaimFails
    \/ \E t \in Text, m \in ModelRevision : Answer(t, m)
    \/ NoAnswer \/ FailFragment \/ FailFragmentFails
    \/ EndTask \/ EndTaskFails

-----------------------------------------------------------------------------
(* The process.                                                            *)

\* Server.Close waits for the generation runner before it closes this one.
CloseRewriter ==
    /\ pc = "exited" /\ ~rwClosed
    /\ rwClosed' = TRUE
    /\ UNCHANGED <<tableVars, generationVars, row, rwQueue, rwRequest,
                   rwRunnerVars>>

\* Nothing reads unfinished tasks back from the tables.
Restart ==
    /\ "crash" \in Faults \/ rwPc = "exited"
    /\ UNCHANGED row
    /\ Gen!Restart
    /\ rwQueue' = <<>>
    /\ rwRequest' = [r \in Rewrite |->
                        IF rwRequest[r].pc = "new" THEN rwRequest[r]
                        ELSE [pc |-> "done"]]
    /\ ToIdle
    /\ rwClosed' = FALSE

Init ==
    /\ row = [r \in Rewrite |-> NoRow]
    /\ Gen!Init
    /\ rwQueue = <<>>
    /\ rwRequest = [r \in Rewrite |-> [pc |-> "new"]]
    /\ rwPc = "idle" /\ rwTask = NoRwTask /\ rwIndex = 0 /\ rwItem = NoAudio
    /\ rwClosed = FALSE

Next ==
    \/ Generation
    \/ \E r \in Rewrite :
          CreateTask(r) \/ EnqueueTask(r) \/ UndoTask(r) \/ UndoTaskFails(r)
    \/ RwRunner
    \/ CloseRewriter
    \/ Restart

Spec == Init /\ [][Next]_vars

\* The Go scheduler runs the goroutine and the handlers; the model answers
\* or rewriterTimeout ends the call.
Fairness ==
    /\ WF_vars(RwRunner)
    /\ \A r \in Rewrite : WF_vars(EnqueueTask(r)) /\ WF_vars(UndoTask(r))

FairSpec == Spec /\ Fairness

-----------------------------------------------------------------------------
(* Properties.                                                             *)

\* A job never has two active rewrite tasks, whoever asks for them and
\* whatever becomes of the requests: rewrite_tasks_one_active_per_job_idx
\* never refuses what createRewriteTask let through.
OneActiveTask ==
    \A j \in Job : Cardinality({r \in Rewrite : Of(j, r) /\ IsActive(r)}) <= 1

\* The status a client polls is the one the children have, after every
\* transaction: a task is active exactly while a child is unfinished, and
\* a final status says truthfully whether all, some or none of them failed.
TaskStatusIsHonest ==
    \A r \in Rewrite : row[r].status # "absent" =>
        /\ IsActive(r) <=> Pending(r) # {}
        /\ ~IsActive(r) => row[r].status = StatusForChildren(row[r].child)

\* All the texts a task changed come from one revision of the model, the one
\* the task's row names, though the worker may be updated in its middle.
OneModelPerTask ==
    \A r \in Rewrite : \A f \in DOMAIN row[r].child :
        row[r].child[f].status = "completed" =>
            /\ row[r].child[f].model # NoModel
            /\ row[r].child[f].model = row[r].model

\* A task the handler takes back because the queue refused it has never been
\* begun: none of its fragments was shown to the model, and it is neither in
\* the queue nor in the runner's hands.
UndoneTaskIsUntouched ==
    \A r \in Rewrite : rwRequest[r].pc = "compensate" =>
        /\ row[r].status = "queued"
        /\ \A f \in DOMAIN row[r].child : row[r].child[f] = NewChild
        /\ \A k \in DOMAIN rwQueue : rwQueue[k].id # r
        /\ rwTask # NoRwTask => rw # r

\* The model's answer never undoes what happened to the fragment while it was
\* thinking: a text is replaced only in a fragment that is still a warning
\* and still has the text the model was given, so an edit, a restored text,
\* a retry or an approval made meanwhile is kept.
LateAnswersChangeNothing ==
    [][\A f \in Fragment :
          \A r \in Rewrite :
             /\ f \in Pending(r)
             /\ f \in DOMAIN row'[r].child
             /\ row'[r].child[f].status = "completed"
             => /\ status[f] = "warning" /\ text[f] = rwItem
                /\ text'[f] # text[f] => audio'[f] = NoAudio]_vars

\* With the rewrite tasks hidden, this is GenerationRunner: what is proved and
\* checked there of the fragments holds while the real rewrite runner, its
\* queue and its handlers act on them.
ImplementsGeneration == Gen!Spec

\* Without faults every rewrite task reaches a final status, or is taken back
\* by the handler that could not schedule it; the job can then be retried.
RewritesSettle == \A r \in Rewrite : IsActive(r) ~> ~IsActive(r)

=============================================================================
