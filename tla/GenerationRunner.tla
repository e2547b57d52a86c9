-------------------------- MODULE GenerationRunner --------------------------
(***************************************************************************)
(* The callers of FragmentStore: the HTTP handlers that create and retry   *)
(* generation jobs, edit, restore, approve and rewrite fragments, and the  *)
(* one background goroutine (jobRunner) that takes tasks from a bounded    *)
(* in-memory queue and drives TTS, STT and validation of each fragment.    *)
(*                                                                         *)
(* A handler first commits a change of the repository and then, in a       *)
(* second step, sends a task to the queue; when the queue refuses it, a    *)
(* third step undoes the commit.  Other handlers and the runner act in     *)
(* between.  The runner holds no lock between two transactions.            *)
(*                                                                         *)
(* Faults names what may go wrong outside the program's control:           *)
(*   "db"          a transaction answers an error that is not its own      *)
(*                 (it was not applied, or it was and the answer was lost) *)
(*   "disconnect"  the client is gone, so a call made with the request's   *)
(*                 context fails                                           *)
(*   "close"       the process is asked to stop: the runner's context is   *)
(*                 cancelled and the queue refuses tasks                   *)
(*   "crash"       the process dies; only the repository survives          *)
(***************************************************************************)
EXTENDS FragmentStore, Functions

CONSTANTS
    Handler,        \* concurrent HTTP requests
    Catalog,        \* the fragments of a job in book order
    QueueSize,      \* capacity of jobRunner.queue
    MaxAutoRetries, \* Settings.AutomaticWarningRetries
    Faults,         \* the faults considered
    MaxRevisions,   \* bound: revisions a person or a model may add up to
    MaxAttempts     \* bound: a fragment with this many is not retried by hand

FaultKind == {"db", "disconnect", "close", "crash"}

ASSUME CatalogAssumption ==
    /\ Catalog \in [Job -> Seq(Fragment)]
    /\ \A j \in Job : /\ Range(Catalog[j]) = FragmentsOf(j)
                      /\ IsInjective(Catalog[j])
\* The parser refuses a book without readable text.
ASSUME BookAssumption == \A j \in Job : Catalog[j] # <<>>
ASSUME BoundsAssumption ==
    /\ QueueSize \in Nat \ {0}
    /\ MaxAutoRetries \in Nat
    /\ MaxRevisions \in Nat
    /\ MaxAttempts \in Nat
ASSUME FaultsAssumption == Faults \subseteq FaultKind

VARIABLES
    queue,    \* jobRunner.queue
    request,  \* what each handler is in the middle of
    pc,       \* where the runner's goroutine is
    task,     \* the task it processes
    index,    \* the position in task.fragments of its current fragment
    retries,  \* retriesRemaining of processFragment
    item,     \* the text of the work item it sent to the workers
    closed    \* jobRunner.closed, set together with the context's cancel

runnerVars == <<pc, task, index, retries, item>>
vars == <<storeVars, queue, request, runnerVars, closed>>

NoTask == [fragments |-> <<>>]
NoItem == NoAudio
Task == [job : Job, fragments : Seq(Fragment)]

\* Requests: nothing under way, a task committed but not sent to the queue,
\* or a task the queue refused whose commit has to be undone.
Idle == [pc |-> "idle"]
Enqueueing(kind, t, previous) ==
    [pc |-> "enqueue", kind |-> kind, task |-> t, previous |-> previous]
Refused(r) == [r EXCEPT !.pc = "compensate"]

CurrentFragment == task.fragments[index]

-----------------------------------------------------------------------------
(* Handlers that schedule work.                                            *)

\* POST /v1/book/{bookID}/voice/{voiceID}: commit the job.
Generate(h) ==
    /\ request[h] = Idle
    /\ \E j \in Job :
          /\ CreateJob(j)
          /\ request' = [request EXCEPT ![h] =
                Enqueueing("generate",
                           [job |-> j, fragments |-> Catalog[j]], <<>>)]
    /\ UNCHANGED <<queue, runnerVars, closed>>

\* The orders a retry may ask for: the request's own, without repetition,
\* or the book's when it names no fragment (one of these).
Selections(S) == UNION {Injection(1..n, S) : n \in 1..Cardinality(S)}

\* POST /v1/job/{jobID}/retry: commit the retry.
Retry(h) ==
    /\ request[h] = Idle
    /\ \E j \in Job :
       \E chosen \in Selections({f \in FragmentsOf(j) :
                                    attempt[f] < MaxAttempts}) :
          /\ PrepareRetry(j, Range(chosen))
          /\ request' = [request EXCEPT ![h] =
                Enqueueing("retry", [job |-> j, fragments |-> chosen],
                           [f \in Range(chosen) |-> status[f]])]
    /\ UNCHANGED <<queue, runnerVars, closed>>

\* A call with the request's context may answer an error.
RequestFails == Faults \cap {"db", "disconnect"} # {}

\* The job or the retry was committed, but the handler is told of an error: it
\* answers one too, and nothing is sent to the queue or undone.
ScheduleFails(h) ==
    /\ request[h] = Idle /\ RequestFails
    /\ \E j \in Job :
          \/ CreateJob(j)
          \/ \E S \in SUBSET {f \in FragmentsOf(j) : attempt[f] < MaxAttempts} :
                PrepareRetry(j, S)
    /\ UNCHANGED <<queue, request, runnerVars, closed>>

\* A slip of Enqueue: it reports a task it has sent as refused.
EnqueueSentAndRefused(h) ==
    /\ request[h].pc = "enqueue"
    /\ IF ~closed /\ Len(queue) < QueueSize
       THEN queue' = Append(queue, request[h].task)
       ELSE UNCHANGED queue
    /\ request' = [request EXCEPT ![h] = Refused(@)]
    /\ UNCHANGED <<storeVars, runnerVars, closed>>

Enqueue(h) ==
    /\ request[h].pc = "enqueue"
    /\ IF ~closed /\ Len(queue) < QueueSize
       THEN /\ queue' = Append(queue, request[h].task)
            /\ request' = [request EXCEPT ![h] = Idle]
       ELSE /\ request' = [request EXCEPT ![h] = Refused(@)]
            /\ UNCHANGED queue
    /\ UNCHANGED <<storeVars, runnerVars, closed>>

\* A slip of Compensate: only a new job is undone.
CompensateGenerateOnly(h) ==
    /\ request[h].pc = "compensate"
    /\ IF request[h].kind = "generate"
       THEN DeleteJob(request[h].task.job)
       ELSE UNCHANGED storeVars
    /\ request' = [request EXCEPT ![h] = Idle]
    /\ UNCHANGED <<queue, runnerVars, closed>>

Compensate(h) ==
    /\ request[h].pc = "compensate"
    /\ IF request[h].kind = "generate"
       THEN DeleteJob(request[h].task.job)
       ELSE CancelRetry(request[h].task.job, request[h].previous)
    /\ request' = [request EXCEPT ![h] = Idle]
    /\ UNCHANGED <<queue, runnerVars, closed>>

\* The undoing call uses the request's context as well: without its client it
\* fails, is logged, and is not tried again.
CompensateFails(h) ==
    /\ request[h].pc = "compensate"
    /\ RequestFails
    /\ request' = [request EXCEPT ![h] = Idle]
    /\ UNCHANGED <<storeVars, queue, runnerVars, closed>>

-----------------------------------------------------------------------------
(* Handlers that make one transaction, and the rewrite runner's            *)
(* transactions on the fragments.                                          *)

MayRevise(f) == Len(revisions[f]) < MaxRevisions

Client ==
    /\ \E f \in Fragment :
          \/ /\ MayRevise(f)
             /\ \/ \E t \in Text : EditFragment(f, t)
                \/ \E n \in DOMAIN revisions[f] : RestoreFragmentRevision(f, n)
          \/ ApproveFragment(f)
    /\ UNCHANGED <<queue, request, runnerVars, closed>>

Rewriter ==
    /\ \/ \E j \in Job : \E S \in SUBSET FragmentsOf(j) :
             CreateRewriteTask(j, S)
       \/ \E j \in Job : rewriting[j] # {} /\ DeleteRewriteTask(j)
       \/ \E f \in Fragment :
             \/ \E t \in Text :
                   /\ t # text[f] => MayRevise(f)
                   /\ CompleteRewriteFragment(f, text[f], t)
             \/ FailRewriteFragment(f)
    /\ UNCHANGED <<queue, request, runnerVars, closed>>

-----------------------------------------------------------------------------
(* The runner.  Every call but failFragment uses the runner's context, so  *)
(* it fails once the runner is closed.                                     *)

Stay == UNCHANGED <<queue, request, closed>>
CallFails == closed \/ "db" \in Faults

ToIdle ==
    /\ pc' = "idle" /\ task' = NoTask
    /\ index' = 0 /\ retries' = 0 /\ item' = NoItem

\* On to fragment i of t with a fresh retry budget, or past the last one.
ToFragment(t, i) ==
    /\ pc' = IF i <= Len(t.fragments) THEN "claim" ELSE "finish"
    /\ index' = i
    /\ retries' = IF i <= Len(t.fragments) THEN MaxAutoRetries ELSE 0
    /\ item' = NoItem

\* A slip of NextFragment: one retry budget for the whole task.
NextFragmentSharedBudget ==
    /\ pc' = IF index < Len(task.fragments) THEN "claim" ELSE "finish"
    /\ index' = index + 1
    /\ item' = NoItem
    /\ UNCHANGED <<task, retries>>

NextFragment == ToFragment(task, index + 1) /\ UNCHANGED task

\* With the context cancelled and a task in the queue, select takes either.
TakeTask ==
    /\ pc = "idle" /\ queue # <<>>
    /\ task' = Head(queue)
    /\ queue' = Tail(queue)
    /\ pc' = "begin"
    /\ UNCHANGED <<storeVars, request, index, retries, item, closed>>

LoopExit ==
    /\ pc = "idle" /\ closed
    /\ pc' = "exited"
    /\ UNCHANGED <<storeVars, task, index, retries, item>> /\ Stay

BeginTask ==
    /\ pc = "begin" /\ ~closed
    /\ StartTask(task.job)
    /\ ToFragment(task, 1) /\ UNCHANGED task /\ Stay

\* process returns when startTask answers an error, whether or not it was
\* applied: the task is gone.
DropTask ==
    /\ pc = "begin"
    /\ \/ /\ CallFails \/ jobStatus[task.job] = "absent"
          /\ UNCHANGED storeVars
       \/ "db" \in Faults /\ ~closed /\ StartTask(task.job)
    /\ ToIdle /\ Stay

\* A slip of ClaimFragment: the task carries the texts of the book.
ClaimFragmentOriginalText ==
    /\ pc = "claim" /\ ~closed
    /\ StartFragment(CurrentFragment)
    /\ pc' = "work"
    /\ item' = revisions[CurrentFragment][1]
    /\ UNCHANGED <<task, index, retries>> /\ Stay

ClaimFragment ==
    /\ pc = "claim" /\ ~closed
    /\ StartFragment(CurrentFragment)
    /\ pc' = "work"
    /\ item' = text[CurrentFragment]
    /\ UNCHANGED <<task, index, retries>> /\ Stay

\* startFragment answers an error: processFragment returns it, the loop goes
\* on.  The transaction may have been committed all the same.
SkipFragment ==
    /\ pc = "claim" /\ ~closed
    /\ \/ /\ \/ "db" \in Faults
             \/ ~Exists(CurrentFragment)
             \/ status[CurrentFragment] # "pending"
          /\ UNCHANGED storeVars
       \/ "db" \in Faults /\ StartFragment(CurrentFragment)
    /\ NextFragment /\ Stay

\* The loop looks at the context before every fragment.
Abandon ==
    /\ pc = "claim" /\ closed
    /\ ToIdle /\ UNCHANGED storeVars /\ Stay

\* A slip of Complete: a warning is retried whatever is left of the budget.
CompleteUnbudgeted(c) ==
    /\ pc = "work" /\ ~closed
    /\ CompleteFragment(CurrentFragment, item, c)
    /\ IF c \in ValidationCode
       THEN pc' = "warned" /\ item' = NoItem /\ UNCHANGED <<task, index, retries>>
       ELSE NextFragment
    /\ Stay

\* TTS and STT answered and validation gave code c.
Complete(c) ==
    /\ pc = "work" /\ ~closed
    /\ CompleteFragment(CurrentFragment, item, c)
    /\ IF c \in ValidationCode /\ retries > 0
       THEN pc' = "warned" /\ item' = NoItem /\ UNCHANGED <<task, index, retries>>
       ELSE NextFragment
    /\ Stay

\* A slip of Fail: the failure is saved without recomputing the job.
FailUncounted ==
    /\ pc = "work"
    /\ status[CurrentFragment] = "generating"
    /\ InsertAttempt(CurrentFragment, "failed")
    /\ status' = [status EXCEPT ![CurrentFragment] = "failed"]
    /\ UNCHANGED <<jobStatus, counts, rewriting, text, revisions, audio, code,
                   attempt, approved>>
    /\ NextFragment /\ Stay

\* A worker answered an error, timed out or was interrupted.
Fail ==
    /\ pc = "work"
    /\ FailFragment(CurrentFragment)
    /\ NextFragment /\ Stay

\* The outcome could not be saved, or was saved and the answer was lost;
\* nothing tries again.
LoseResult ==
    /\ pc = "work"
    /\ \/ /\ CallFails \/ status[CurrentFragment] # "generating"
          /\ UNCHANGED storeVars
       \/ /\ "db" \in Faults
          /\ \E c \in {""} \cup ValidationCode :
                CompleteFragment(CurrentFragment, item, c)
    /\ NextFragment /\ Stay

\* A slip of AutoRetry: the loop goes on with the next fragment.
AutoRetryMovesOn ==
    /\ pc = "warned" /\ ~closed
    /\ PrepareAutomaticWarningRetry(CurrentFragment)
    /\ NextFragment /\ Stay

AutoRetry ==
    /\ pc = "warned" /\ ~closed
    /\ PrepareAutomaticWarningRetry(CurrentFragment)
    /\ pc' = "claim" /\ retries' = retries - 1
    /\ UNCHANGED <<task, index, item>> /\ Stay

\* Somebody changed the fragment since its warning was saved, or the call
\* failed, perhaps after it had made the fragment pending again.
AutoRetryRejected ==
    /\ pc = "warned"
    /\ \/ /\ \/ CallFails
             \/ status[CurrentFragment] # "warning"
             \/ code[CurrentFragment] \notin ValidationCode
          /\ UNCHANGED storeVars
       \/ /\ "db" \in Faults /\ ~closed
          /\ PrepareAutomaticWarningRetry(CurrentFragment)
    /\ NextFragment /\ Stay

EndTask ==
    /\ pc = "finish" /\ ~closed
    /\ FinishTask(task.job)
    /\ ToIdle /\ Stay

EndTaskFails ==
    /\ pc = "finish"
    /\ CallFails \/ jobStatus[task.job] = "absent"
    /\ ToIdle /\ UNCHANGED storeVars /\ Stay

Runner ==
    \/ TakeTask \/ LoopExit \/ BeginTask \/ DropTask
    \/ ClaimFragment \/ SkipFragment \/ Abandon
    \/ \E c \in {""} \cup ValidationCode : Complete(c)
    \/ Fail \/ LoseResult
    \/ AutoRetry \/ AutoRetryRejected
    \/ EndTask \/ EndTaskFails

-----------------------------------------------------------------------------
(* The process.                                                            *)

Close ==
    /\ "close" \in Faults /\ ~closed
    /\ closed' = TRUE
    /\ UNCHANGED <<storeVars, queue, request, runnerVars>>

\* A new process starts with an empty queue and reads nothing back from the
\* repository.  The old one crashed, or was closed and left its loop.
Restart ==
    /\ "crash" \in Faults \/ pc = "exited"
    /\ queue' = <<>>
    /\ request' = [h \in Handler |-> Idle]
    /\ ToIdle
    /\ closed' = FALSE
    /\ UNCHANGED storeVars

Init ==
    /\ StoreInit
    /\ queue = <<>>
    /\ request = [h \in Handler |-> Idle]
    /\ pc = "idle" /\ task = NoTask
    /\ index = 0 /\ retries = 0 /\ item = NoItem
    /\ closed = FALSE

Next ==
    \/ \E h \in Handler :
          Generate(h) \/ Retry(h) \/ Enqueue(h) \/ Compensate(h)
          \/ CompensateFails(h) \/ ScheduleFails(h)
    \/ Client
    \/ Rewriter
    \/ Runner
    \/ Close
    \/ Restart

Spec == Init /\ [][Next]_vars

\* The Go scheduler runs the runner's goroutine and every handler that has a
\* step to take; workers answer or time out (workerTimeout).  Nothing obliges
\* a client to do anything.
Fairness ==
    /\ WF_vars(Runner)
    /\ \A h \in Handler : WF_vars(Enqueue(h)) /\ WF_vars(Compensate(h))

FairSpec == Spec /\ Fairness

-----------------------------------------------------------------------------
(* Properties.                                                             *)

\* The work the program still knows of: tasks waiting in the queue, tasks a
\* handler has committed and not yet sent or undone, and what is left of the
\* runner's task, its current fragment included while it is to be claimed.
Rest(t, i) == {t.fragments[k] : k \in i .. Len(t.fragments)}
OfQueue(k) == Rest(queue[k], 1)
OfRequest(h) == IF request[h] = Idle THEN {} ELSE Rest(request[h].task, 1)
OfRunner ==
    CASE pc = "begin" -> Rest(task, 1)
      [] pc = "claim" -> Rest(task, index)
      [] pc \in {"work", "warned"} -> Rest(task, index + 1)
      [] OTHER -> {}
Known == OfRunner \cup (UNION {OfQueue(k) : k \in DOMAIN queue})
                  \cup (UNION {OfRequest(h) : h \in Handler})

Request ==
    {Idle} \cup
    [pc : {"enqueue", "compensate"}, kind : {"generate", "retry"},
     task : Task,
     previous : UNION {[S -> Retryable] : S \in SUBSET Fragment}]

QueueTypeOK == queue \in Seq(Task) /\ Len(queue) <= QueueSize
RequestTypeOK == request \in [Handler -> Request]
RunnerTypeOK ==
    /\ pc \in {"idle", "begin", "claim", "work", "warned", "finish", "exited"}
    /\ closed \in BOOLEAN
    /\ retries \in 0..MaxAutoRetries
    /\ IF pc \in {"idle", "exited"}
       THEN task = NoTask /\ index = 0
       ELSE task \in Task /\ index \in 0 .. Len(task.fragments) + 1
    /\ pc \in {"claim", "work", "warned"} => index \in DOMAIN task.fragments
    /\ pc = "work" => item \in Text
    /\ pc = "warned" => retries > 0
    /\ pc = "exited" => closed

\* The variables of the process have the types of the Go values, the runner
\* has a task exactly while it processes one, its current fragment is in it,
\* it asks for an automatic retry only when it has one left, and the queue
\* never holds more than its capacity.
TypeOK == QueueTypeOK /\ RequestTypeOK /\ RunnerTypeOK

\* Audio never outlives its text: whatever a fragment's row stores, and so
\* what can be listened to, approved or exported, speaks the fragment's
\* current text, although the text the workers are given was read before a
\* long call during which handlers and the rewriter go on.
AudioSpeaksText ==
    \A f \in Fragment : audio[f] \in {NoAudio, text[f]}

\* A fragment is ready only because its latest attempt passed validation, or
\* because a person approved that very attempt: no retry, cancelled retry,
\* failure or restart makes a fragment ready on an older attempt's merits.
ReadyIsJustified ==
    \A f \in Fragment : status[f] = "ready" =>
        \E r \in log[f] :
           /\ r.attempt = attempt[f]
           /\ \/ r.outcome = "ready"
              \/ r.outcome \in ValidationCode /\ attempt[f] \in approved[f]

\* A fragment some task has still to generate is pending, and no two tasks
\* have it: no task generates what another one does or has done.
KnownWorkIsPending ==
    /\ \A f \in Known : Exists(f) /\ status[f] = "pending"
    /\ \A k \in DOMAIN queue :
          /\ OfQueue(k) \cap OfRunner = {}
          /\ \A m \in DOMAIN queue : k # m => OfQueue(k) \cap OfQueue(m) = {}
    /\ \A h \in Handler :
          /\ OfRequest(h) \cap OfRunner = {}
          /\ \A k \in DOMAIN queue : OfRequest(h) \cap OfQueue(k) = {}
          /\ \A g \in Handler : g # h => OfRequest(h) \cap OfRequest(g) = {}

\* Undoing a refused generate call deletes the whole job: by then nothing of
\* it has been generated, and no task for it is queued or being processed.
UndoneJobIsUntouched ==
    \A h \in Handler :
        request[h].pc = "compensate" /\ request[h].kind = "generate" =>
            LET j == request[h].task.job
            IN  /\ \A f \in FragmentsOf(j) : attempt[f] = 0
                /\ \A k \in DOMAIN queue : queue[k].job # j
                /\ task # NoTask => task.job # j

\* An automatic retry is spent only on a warning of validation: of the
\* attempts this task has made on the current fragment before the one under
\* way, every one ended in such a warning, and a technical failure ends the
\* series.
RetriesFollowWarnings ==
    pc = "work" =>
        \A k \in 1 .. MaxAutoRetries - retries :
            \E r \in log[CurrentFragment] :
                /\ r.attempt = attempt[CurrentFragment] - k
                /\ r.outcome \in ValidationCode

\* Without faults no work is forgotten: a pending fragment is in a task the
\* program still knows of, and a fragment is generating exactly while the
\* runner works on it.
NothingForgotten ==
    \A f \in Fragment : Exists(f) =>
        /\ status[f] = "pending" => f \in Known
        /\ status[f] = "generating" <=> pc = "work" /\ f = CurrentFragment

\* What was accepted is kept.  A ready fragment stays ready with the same
\* audio, whatever tasks and handlers do, until a person restores an older
\* text for it.
AcceptedStays ==
    [][\A f \in Fragment : status[f] = "ready" =>
          \/ status'[f] = "ready" /\ audio'[f] = audio[f]
          \/ \E n \in DOMAIN revisions[f] : RestoreFragmentRevision(f, n)]_vars

\* Without faults every job that is queued or running settles: it reaches a
\* final status, or is deleted by the handler that could not schedule it.
JobsSettle == \A j \in Job : Active(j) ~> ~Active(j)

\* Generation and rewriting keep out of each other's way, but for one window:
\* the last fragment's warning makes its job final before the runner asks for
\* the automatic retry, so a rewrite task may be created in between.  Without
\* faults a job that has both is in the hands of the runner.
RewriteMeetsGeneration ==
    \A j \in Job : rewriting[j] # {} /\ Active(j) =>
        pc \notin {"idle", "exited"} /\ task.job = j

\* What the architecture report asks of a restart in the middle of a book:
\* the job is carried on, so that it settles provided the process does not
\* crash for ever.
MidBook(j) ==
    /\ jobStatus[j] = "running"
    /\ \E f \in FragmentsOf(j) : status[f] = "ready"
    /\ \E f \in FragmentsOf(j) : status[f] = "pending"
RestartResumes ==
    <>[][~Restart]_vars => \A j \in Job : MidBook(j) ~> ~Active(j)

=============================================================================
