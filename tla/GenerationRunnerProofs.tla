----------------------- MODULE GenerationRunnerProofs -----------------------
(***************************************************************************)
(* The callers keep to what the repository offers: every step of the       *)
(* handlers and of the runner is one transaction of FragmentStore or       *)
(* leaves the tables alone, so whatever holds of the tables holds of the   *)
(* program, with any number of handlers, fragments and retries, any        *)
(* capacity of the queue, and every fault.  The second half is about who   *)
(* has which fragments to generate.                                        *)
(***************************************************************************)
EXTENDS GenerationRunner, FragmentStoreProofs

\* A request that undoes a retry names fragments of the job it retried, with
\* the statuses they had.
RequestsFit ==
    \A h \in Handler : request[h] # Idle /\ request[h].kind = "retry" =>
        \E S \in SUBSET FragmentsOf(request[h].task.job) :
            request[h].previous \in [S -> Retryable]

CallersInv == StoreTypeOK /\ TypeOK /\ RequestsFit

-----------------------------------------------------------------------------
(* Handlers.                                                               *)

\* The orders of a selection are sequences of the selected fragments.
LEMMA SelectionType ==
    ASSUME NEW S \in SUBSET Fragment, NEW chosen \in Selections(S)
    PROVE  chosen \in Seq(Fragment) /\ Range(chosen) \in SUBSET S
<1>1. PICK n \in 1..Cardinality(S) : chosen \in [1..n -> S]
  BY DEF Selections, Injection
<1>2. n \in Nat
  <2>1. IsFiniteSet(S)
    BY FragmentsAssumption, FS_Subset
  <2> QED
    BY <2>1, FS_CardinalityType
<1>3. chosen \in Seq(S)
  BY <1>1, <1>2
<1> QED
  BY <1>1, <1>3 DEF Range

\* What Enqueueing makes of a task and the statuses before it.
LEMMA EnqueueingType ==
    ASSUME NEW kind \in {"generate", "retry"}, NEW t \in Task,
           NEW S \in SUBSET Fragment, NEW previous \in [S -> Retryable]
    PROVE  /\ Enqueueing(kind, t, previous) \in Request
           /\ Enqueueing(kind, t, previous) # Idle
           /\ Enqueueing(kind, t, previous).kind = kind
           /\ Enqueueing(kind, t, previous).task = t
           /\ Enqueueing(kind, t, previous).previous = previous
<1>1. previous \in UNION {[T -> Retryable] : T \in SUBSET Fragment}
  OBVIOUS
<1>2. Enqueueing(kind, t, previous).pc # Idle.pc
  BY DEF Enqueueing, Idle
<1> QED
  BY <1>1, <1>2 DEF Enqueueing, Request

\* One handler's new request keeps what is known of the requests.
LEMMA RequestKept ==
    ASSUME RequestTypeOK, RequestsFit, NEW h \in Handler, NEW r \in Request,
           r # Idle /\ r.kind = "retry" =>
              \E S \in SUBSET FragmentsOf(r.task.job) :
                  r.previous \in [S -> Retryable],
           request' = [request EXCEPT ![h] = r]
    PROVE  RequestTypeOK' /\ RequestsFit'
<1>1. RequestTypeOK'
  BY DEF RequestTypeOK
<1>2. \A g \in Handler : request'[g] = r \/ request'[g] = request[g]
  BY DEF RequestTypeOK
<1>3. ASSUME NEW g \in Handler, request'[g] # Idle, request'[g].kind = "retry"
      PROVE  \E S \in SUBSET FragmentsOf(request'[g].task.job) :
                 request'[g].previous \in [S -> Retryable]
  <2>1. CASE request'[g] = r
    BY <1>3, <2>1
  <2>2. CASE request'[g] = request[g]
    BY <1>3, <2>2 DEF RequestsFit
  <2> QED
    BY <1>2, <2>1, <2>2
<1> QED
  BY <1>1, <1>3 DEF RequestsFit

LEMMA RequestFields ==
    ASSUME RequestTypeOK, NEW h \in Handler, request[h].pc \in {"enqueue", "compensate"}
    PROVE  /\ request[h] # Idle
           /\ request[h].task \in Task
           /\ request[h].kind \in {"generate", "retry"}
           /\ Refused(request[h]) \in Request
           /\ Refused(request[h]).kind = request[h].kind
           /\ Refused(request[h]).task = request[h].task
           /\ Refused(request[h]).previous = request[h].previous
<1>1. request[h] # Idle
  BY DEF Idle
<1>2. request[h] \in Request \ {Idle}
  BY <1>1 DEF RequestTypeOK
<1> QED
  BY <1>1, <1>2 DEF Request, Refused

\* What a handler's step leaves alone.
LEMMA RunnerKept ==
    ASSUME RunnerTypeOK, UNCHANGED <<runnerVars, closed>>
    PROVE  RunnerTypeOK'
BY DEF RunnerTypeOK, runnerVars

LEMMA GenerateKeeps ==
    ASSUME CallersInv, NEW h \in Handler, Generate(h)
    PROVE  (\E k \in Job : JobStep(k)) /\ TypeOK' /\ RequestsFit'
<1>1. PICK j \in Job :
         /\ CreateJob(j)
         /\ request' = [request EXCEPT ![h] =
               Enqueueing("generate", [job |-> j, fragments |-> Catalog[j]],
                          <<>>)]
  BY DEF Generate
<1> DEFINE t == [job |-> j, fragments |-> Catalog[j]]
           none == <<>>
           r == Enqueueing("generate", t, none)
<1>2. JobStep(j)
  BY <1>1 DEF JobStep
<1>3. t \in Task
  BY CatalogAssumption DEF Task
<1>4. r \in Request /\ r.kind = "generate"
  <2> DEFINE nobody == {}
  <2>1. none \in [nobody -> Retryable] /\ nobody \in SUBSET Fragment
    OBVIOUS
  <2> HIDE DEF t, none, nobody
  <2> QED
    BY <1>3, <2>1, EnqueueingType
<1>5. RequestTypeOK' /\ RequestsFit'
  <2>1. request' = [request EXCEPT ![h] = r]
    BY <1>1
  <2> HIDE DEF r
  <2> QED
    BY <2>1, <1>4, RequestKept DEF CallersInv, TypeOK
<1>6. QueueTypeOK' /\ RunnerTypeOK'
  BY RunnerKept DEF Generate, CallersInv, TypeOK, QueueTypeOK
<1> QED
  BY <1>2, <1>5, <1>6 DEF TypeOK

LEMMA RetryKeeps ==
    ASSUME CallersInv, NEW h \in Handler, Retry(h)
    PROVE  (\E k \in Job : JobStep(k)) /\ TypeOK' /\ RequestsFit'
<1>0. PICK j \in Job :
         \E chosen \in Selections({f \in FragmentsOf(j) :
                                      attempt[f] < MaxAttempts}) :
            /\ PrepareRetry(j, Range(chosen))
            /\ request' = [request EXCEPT ![h] =
                  Enqueueing("retry", [job |-> j, fragments |-> chosen],
                             [f \in Range(chosen) |-> status[f]])]
  BY DEF Retry
<1>1. PICK chosen \in Selections({f \in FragmentsOf(j) :
                                     attempt[f] < MaxAttempts}) :
         /\ PrepareRetry(j, Range(chosen))
         /\ request' = [request EXCEPT ![h] =
               Enqueueing("retry", [job |-> j, fragments |-> chosen],
                          [f \in Range(chosen) |-> status[f]])]
  BY <1>0
<1> DEFINE t == [job |-> j, fragments |-> chosen]
           S == Range(chosen)
           previous == [f \in S |-> status[f]]
           r == Enqueueing("retry", t, previous)
<1>2. t \in Task /\ S \in SUBSET FragmentsOf(j)
  <2>1. {f \in FragmentsOf(j) : attempt[f] < MaxAttempts} \in SUBSET Fragment
    BY DEF FragmentsOf
  <2>2. /\ chosen \in Seq(Fragment)
        /\ S \in SUBSET {f \in FragmentsOf(j) : attempt[f] < MaxAttempts}
    BY <2>1, SelectionType
  <2> QED
    BY <2>2 DEF Task
<1>3. JobStep(j)
  BY <1>1, <1>2 DEF JobStep
<1>4. previous \in [S -> Retryable]
  BY <1>1 DEF PrepareRetry
<1>5. /\ r \in Request /\ r.kind = "retry"
      /\ r.task = t /\ r.previous = previous
  <2>1. S \in SUBSET Fragment
    BY <1>2 DEF FragmentsOf
  <2> HIDE DEF t, S, previous
  <2> QED
    BY <1>2, <1>4, <2>1, EnqueueingType
<1>6. \E T \in SUBSET FragmentsOf(r.task.job) : r.previous \in [T -> Retryable]
  BY <1>2, <1>4, <1>5
<1>7. RequestTypeOK' /\ RequestsFit'
  <2>1. request' = [request EXCEPT ![h] = r]
    BY <1>1
  <2> HIDE DEF r
  <2> QED
    BY <2>1, <1>5, <1>6, RequestKept DEF CallersInv, TypeOK
<1>8. QueueTypeOK' /\ RunnerTypeOK'
  BY RunnerKept DEF Retry, CallersInv, TypeOK, QueueTypeOK
<1> QED
  BY <1>3, <1>7, <1>8 DEF TypeOK

LEMMA IdleKept ==
    ASSUME RequestTypeOK, RequestsFit, NEW h \in Handler,
           request' = [request EXCEPT ![h] = Idle]
    PROVE  RequestTypeOK' /\ RequestsFit'
<1>1. Idle \in Request
  BY DEF Request
<1> QED
  BY <1>1, RequestKept

LEMMA EnqueueKeeps ==
    ASSUME CallersInv, NEW h \in Handler, Enqueue(h)
    PROVE  UNCHANGED storeVars /\ TypeOK' /\ RequestsFit'
<1>1. RequestTypeOK /\ RequestsFit /\ QueueTypeOK /\ RunnerTypeOK
  BY DEF CallersInv, TypeOK
<1>2. UNCHANGED storeVars /\ RunnerTypeOK'
  BY <1>1, RunnerKept DEF Enqueue
<1>3. CASE ~closed /\ Len(queue) < QueueSize
  <2>1. /\ queue' = Append(queue, request[h].task)
        /\ request' = [request EXCEPT ![h] = Idle]
    BY <1>3 DEF Enqueue
  <2>2. request[h].task \in Task
    BY <1>1, RequestFields DEF Enqueue
  <2>3. QueueTypeOK'
    BY <1>1, <1>3, <2>1, <2>2, BoundsAssumption DEF QueueTypeOK
  <2> QED
    BY <1>1, <1>2, <2>1, <2>3, IdleKept DEF TypeOK
<1>4. CASE ~(~closed /\ Len(queue) < QueueSize)
  <2>1. /\ queue' = queue
        /\ request' = [request EXCEPT ![h] = Refused(request[h])]
    BY <1>4 DEF Enqueue
  <2>2. /\ Refused(request[h]) \in Request
        /\ request[h] # Idle
        /\ Refused(request[h]).kind = request[h].kind
        /\ Refused(request[h]).task = request[h].task
        /\ Refused(request[h]).previous = request[h].previous
    BY <1>1, RequestFields DEF Enqueue
  <2>3. RequestTypeOK' /\ RequestsFit'
    <3>1. Refused(request[h]).kind = "retry" =>
             \E S \in SUBSET FragmentsOf(Refused(request[h]).task.job) :
                 Refused(request[h]).previous \in [S -> Retryable]
      BY <1>1, <2>2 DEF RequestsFit
    <3> QED
      BY <1>1, <2>1, <2>2, <3>1, RequestKept
  <2> QED
    BY <1>1, <1>2, <2>1, <2>3 DEF TypeOK, QueueTypeOK
<1> QED
  BY <1>3, <1>4

LEMMA CompensateKeeps ==
    ASSUME CallersInv, NEW h \in Handler, Compensate(h) \/ CompensateFails(h)
    PROVE  /\ (\E k \in Job : JobStep(k)) \/ UNCHANGED storeVars
           /\ TypeOK' /\ RequestsFit'
<1>1. RequestTypeOK /\ RequestsFit /\ QueueTypeOK /\ RunnerTypeOK
  BY DEF CallersInv, TypeOK
<1>2. /\ request' = [request EXCEPT ![h] = Idle]
      /\ UNCHANGED <<queue, runnerVars, closed>>
      /\ request[h].pc = "compensate"
  BY DEF Compensate, CompensateFails
<1>3. TypeOK' /\ RequestsFit'
  BY <1>1, <1>2, IdleKept, RunnerKept DEF TypeOK, QueueTypeOK
<1>4. /\ request[h] # Idle
      /\ request[h].task \in Task
      /\ request[h].kind \in {"generate", "retry"}
  BY <1>1, <1>2, RequestFields
<1>5. request[h].task.job \in Job
  BY <1>4 DEF Task
<1>6. CASE CompensateFails(h)
  BY <1>3, <1>6 DEF CompensateFails
<1>7. CASE Compensate(h) /\ request[h].kind = "generate"
  <2>1. DeleteJob(request[h].task.job)
    BY <1>7 DEF Compensate
  <2> QED
    BY <1>3, <1>5, <2>1 DEF JobStep
<1>8. CASE Compensate(h) /\ request[h].kind = "retry"
  <2>1. CancelRetry(request[h].task.job, request[h].previous)
    BY <1>8 DEF Compensate
  <2>2. PICK S \in SUBSET FragmentsOf(request[h].task.job) :
           request[h].previous \in [S -> Retryable]
    BY <1>1, <1>4, <1>8 DEF RequestsFit
  <2> QED
    BY <1>3, <1>5, <2>1, <2>2 DEF JobStep
<1> QED
  BY <1>4, <1>6, <1>7, <1>8

LEMMA OneTransactionKeeps ==
    ASSUME CallersInv, Client \/ Rewriter
    PROVE  StoreNext /\ TypeOK' /\ RequestsFit'
<1>1. UNCHANGED <<queue, request, runnerVars, closed>>
  BY DEF Client, Rewriter
<1>2. TypeOK' /\ RequestsFit'
  BY <1>1, RunnerKept
  DEF CallersInv, TypeOK, QueueTypeOK, RequestTypeOK, RequestsFit
<1>3. CASE Client
  BY <1>2, <1>3 DEF Client, StoreNext, FragmentStep
<1>4. CASE Rewriter
  BY <1>2, <1>4 DEF Rewriter, StoreNext, FragmentStep, JobStep
<1> QED
  BY <1>3, <1>4

\* A commit whose answer was lost is one all the same.
LEMMA ScheduledUnheard ==
    ASSUME NEW h \in Handler, ScheduleFails(h)
    PROVE  /\ UNCHANGED <<queue, request, runnerVars, closed>>
           /\ \E j \in Job : \/ CreateJob(j)
                             \/ \E S \in SUBSET FragmentsOf(j) :
                                   PrepareRetry(j, S)
<1>1. PICK j \in Job :
         \/ CreateJob(j)
         \/ \E S \in SUBSET {f \in FragmentsOf(j) : attempt[f] < MaxAttempts} :
               PrepareRetry(j, S)
  BY DEF ScheduleFails
<1>2. SUBSET {f \in FragmentsOf(j) : attempt[f] < MaxAttempts}
         \subseteq SUBSET FragmentsOf(j)
  OBVIOUS
<1> QED
  BY <1>1, <1>2 DEF ScheduleFails

LEMMA ScheduleFailsKeeps ==
    ASSUME CallersInv, NEW h \in Handler, ScheduleFails(h)
    PROVE  (\E k \in Job : JobStep(k)) /\ TypeOK' /\ RequestsFit'
<1>1. UNCHANGED <<queue, request, runnerVars, closed>>
  BY ScheduledUnheard
<1>2. \E k \in Job : JobStep(k)
  BY ScheduledUnheard DEF JobStep
<1>3. TypeOK' /\ RequestsFit'
  BY <1>1, RunnerKept
  DEF CallersInv, TypeOK, QueueTypeOK, RequestTypeOK, RequestsFit
<1> QED
  BY <1>2, <1>3

-----------------------------------------------------------------------------
(* The runner.                                                             *)

\* The fragment the runner is at is a fragment.
LEMMA CurrentFragmentType ==
    ASSUME RunnerTypeOK, pc \in {"claim", "work", "warned"}
    PROVE  /\ CurrentFragment \in Fragment
           /\ task \in Task
           /\ index \in 1 .. Len(task.fragments)
BY DEF RunnerTypeOK, CurrentFragment, Task

\* A step of the runner that touches neither the queue nor the requests.
LEMMA StayKeeps ==
    ASSUME CallersInv, Stay, RunnerTypeOK'
    PROVE  TypeOK' /\ RequestsFit'
BY DEF CallersInv, Stay, TypeOK, QueueTypeOK, RequestTypeOK, RequestsFit

LEMMA ToFragmentType ==
    ASSUME NEW t \in Task, NEW i \in 0 .. Len(t.fragments) + 1, i >= 1,
           closed \in BOOLEAN, ToFragment(t, i), task' = t, Stay
    PROVE  RunnerTypeOK'
BY BoundsAssumption DEF ToFragment, RunnerTypeOK, Stay, Task

LEMMA NextFragmentType ==
    ASSUME RunnerTypeOK, pc \in {"claim", "work", "warned"}, NextFragment, Stay
    PROVE  RunnerTypeOK'
<1>1. task \in Task /\ index \in 1 .. Len(task.fragments)
  BY CurrentFragmentType
<1>2. index + 1 \in 0 .. Len(task.fragments) + 1 /\ index + 1 >= 1
  BY <1>1 DEF Task
<1> QED
  BY <1>1, <1>2, ToFragmentType DEF NextFragment, RunnerTypeOK

LEMMA ToIdleType ==
    ASSUME RunnerTypeOK, ToIdle, closed' \in BOOLEAN
    PROVE  RunnerTypeOK'
BY BoundsAssumption DEF ToIdle, RunnerTypeOK

\* Every step of the runner keeps its own variables in order.
LEMMA RunnerStepType ==
    ASSUME CallersInv, Runner
    PROVE  TypeOK' /\ RequestsFit'
<1>1. /\ RunnerTypeOK /\ QueueTypeOK /\ RequestTypeOK /\ RequestsFit
      /\ closed \in BOOLEAN
  BY DEF CallersInv, TypeOK, RunnerTypeOK
<1>2. CASE TakeTask
  <2>1. Head(queue) \in Task /\ Tail(queue) \in Seq(Task)
        /\ Len(Tail(queue)) <= QueueSize
    BY <1>1, <1>2, BoundsAssumption DEF TakeTask, QueueTypeOK
  <2>2. QueueTypeOK' /\ RequestTypeOK' /\ RequestsFit'
    BY <1>1, <1>2, <2>1
    DEF TakeTask, QueueTypeOK, RequestTypeOK, RequestsFit
  <2>3. /\ pc = "idle" /\ pc' = "begin" /\ task' = Head(queue)
        /\ UNCHANGED <<index, retries, closed>>
    BY <1>2 DEF TakeTask
  <2>4. Len(Head(queue).fragments) \in Nat
    BY <2>1 DEF Task
  <2>5. RunnerTypeOK'
    BY <1>1, <2>1, <2>3, <2>4 DEF RunnerTypeOK
  <2> QED
    BY <2>2, <2>5 DEF TypeOK
<1>3. CASE LoopExit
  BY <1>1, <1>3, StayKeeps DEF LoopExit, RunnerTypeOK, Stay
<1>4. CASE BeginTask
  <2>1. task \in Task /\ Len(task.fragments) \in Nat
    BY <1>1, <1>4 DEF BeginTask, RunnerTypeOK, Task
  <2>2. 1 \in 0 .. Len(task.fragments) + 1
    BY <2>1
  <2>3. ToFragment(task, 1) /\ task' = task /\ Stay
    BY <1>4 DEF BeginTask
  <2> QED
    BY <1>1, <2>1, <2>2, <2>3, ToFragmentType, StayKeeps
<1>5. CASE DropTask \/ Abandon \/ EndTask \/ EndTaskFails
  <2>1. ToIdle /\ Stay
    BY <1>5 DEF DropTask, Abandon, EndTask, EndTaskFails
  <2> QED
    BY <1>1, <2>1, ToIdleType, StayKeeps DEF Stay
<1>6. CASE ClaimFragment
  <2>1. /\ pc = "claim" /\ pc' = "work" /\ item' = text[CurrentFragment]
        /\ UNCHANGED <<task, index, retries>> /\ Stay
    BY <1>6 DEF ClaimFragment
  <2>2. text[CurrentFragment] \in Text
    BY <1>1, <2>1, CurrentFragmentType DEF CallersInv, StoreTypeOK
  <2>3. RunnerTypeOK'
    BY <1>1, <2>1, <2>2 DEF RunnerTypeOK, Stay
  <2> QED
    BY <2>1, <2>3, StayKeeps
<1>7. CASE SkipFragment \/ Fail \/ LoseResult \/ AutoRetryRejected
  <2>1. pc \in {"claim", "work", "warned"} /\ NextFragment /\ Stay
    BY <1>7 DEF SkipFragment, Fail, LoseResult, AutoRetryRejected
  <2> QED
    BY <1>1, <2>1, NextFragmentType, StayKeeps
<1>8. ASSUME NEW c \in {""} \cup ValidationCode, Complete(c)
      PROVE  TypeOK' /\ RequestsFit'
  <2>1. pc = "work" /\ Stay
    BY <1>8 DEF Complete
  <2>2. CASE NextFragment
    BY <1>1, <2>1, <2>2, NextFragmentType, StayKeeps
  <2>3. CASE /\ retries > 0 /\ pc' = "warned"
             /\ UNCHANGED <<task, index, retries>>
    <3>1. RunnerTypeOK'
      BY <1>1, <2>1, <2>3 DEF RunnerTypeOK, Stay
    <3> QED
      BY <2>1, <3>1, StayKeeps
  <2> QED
    BY <1>8, <2>2, <2>3 DEF Complete
<1>9. CASE AutoRetry
  <2>1. /\ pc = "warned" /\ pc' = "claim" /\ retries' = retries - 1
        /\ UNCHANGED <<task, index>> /\ Stay
    BY <1>9 DEF AutoRetry
  <2>2. RunnerTypeOK'
    BY <1>1, <2>1, BoundsAssumption DEF RunnerTypeOK, Stay
  <2> QED
    BY <2>1, <2>2, StayKeeps
<1> QED
  BY <1>2, <1>3, <1>4, <1>5, <1>6, <1>7, <1>8, <1>9 DEF Runner

\* The runner drops a task with or without having started it.
LEMMA DroppedTask ==
    ASSUME DropTask
    PROVE  UNCHANGED storeVars \/ StartTask(task.job)
BY DEF DropTask

\* Every step of the runner is at most one transaction of the repository.
LEMMA RunnerStepStore ==
    ASSUME CallersInv, Runner
    PROVE  StoreNext \/ UNCHANGED storeVars
<1>1. RunnerTypeOK
  BY DEF CallersInv, TypeOK
<1>2. CASE \/ TakeTask \/ LoopExit \/ Abandon \/ EndTaskFails
           \/ (DropTask \/ AutoRetryRejected) /\ UNCHANGED storeVars
  BY <1>2 DEF TakeTask, LoopExit, Abandon, EndTaskFails
<1>3. CASE BeginTask \/ EndTask \/ (DropTask /\ StartTask(task.job))
  <2>1. task.job \in Job
    BY <1>1, <1>3 DEF BeginTask, EndTask, DropTask, RunnerTypeOK, Task
  <2>2. StartTask(task.job) \/ FinishTask(task.job)
    BY <1>3 DEF BeginTask, EndTask
  <2> QED
    BY <2>1, <2>2 DEF StoreNext, JobStep
<1>4. ASSUME pc \in {"claim", "work", "warned"},
             \/ StartFragment(CurrentFragment)
             \/ FailFragment(CurrentFragment)
             \/ PrepareAutomaticWarningRetry(CurrentFragment)
      PROVE  StoreNext
  BY <1>1, <1>4, CurrentFragmentType DEF StoreNext, FragmentStep
<1>5. ASSUME NEW c \in {""} \cup ValidationCode, pc = "work",
             CompleteFragment(CurrentFragment, item, c)
      PROVE  StoreNext
  <2>1. item \in Text /\ CurrentFragment \in Fragment
    BY <1>1, <1>5, CurrentFragmentType DEF RunnerTypeOK
  <2> QED
    BY <1>5, <2>1 DEF StoreNext, FragmentStep
<1>6. CASE \/ ClaimFragment \/ SkipFragment \/ Fail \/ AutoRetry
           \/ AutoRetryRejected
  BY <1>4, <1>6 DEF ClaimFragment, SkipFragment, Fail, AutoRetry,
                    AutoRetryRejected
<1>7. ASSUME NEW c \in {""} \cup ValidationCode, Complete(c)
      PROVE  StoreNext
  BY <1>5, <1>7 DEF Complete
<1>8. CASE LoseResult
  BY <1>5, <1>8 DEF LoseResult
<1> QED
  BY <1>2, <1>3, <1>6, <1>7, <1>8, DroppedTask DEF Runner

-----------------------------------------------------------------------------
(* The program.                                                            *)

LEMMA ProcessStepType ==
    ASSUME CallersInv, Close \/ Restart
    PROVE  UNCHANGED storeVars /\ TypeOK' /\ RequestsFit'
<1>1. RunnerTypeOK /\ QueueTypeOK /\ RequestTypeOK /\ RequestsFit
  BY DEF CallersInv, TypeOK
<1>2. CASE Close
  BY <1>1, <1>2
  DEF Close, TypeOK, QueueTypeOK, RequestTypeOK, RunnerTypeOK, RequestsFit,
      runnerVars
<1>3. CASE Restart
  <2>1. RunnerTypeOK'
    BY <1>1, <1>3, ToIdleType DEF Restart
  <2>2. QueueTypeOK'
    BY <1>3, BoundsAssumption DEF Restart, QueueTypeOK
  <2>3. RequestTypeOK' /\ RequestsFit'
    BY <1>3 DEF Restart, RequestTypeOK, RequestsFit, Request
  <2> QED
    BY <1>3, <2>1, <2>2, <2>3 DEF Restart, TypeOK
<1> QED
  BY <1>2, <1>3

LEMMA CallersInit == Init => CallersInv
<1> SUFFICES ASSUME Init PROVE CallersInv
  OBVIOUS
<1>1. StoreTypeOK
  BY InitType DEF Init
<1>2. QueueTypeOK
  BY BoundsAssumption DEF Init, QueueTypeOK
<1>3. RequestTypeOK /\ RequestsFit
  BY DEF Init, RequestTypeOK, RequestsFit, Request
<1>4. RunnerTypeOK
  <2>1. /\ pc = "idle" /\ task = NoTask /\ index = 0 /\ retries = 0
        /\ closed \in BOOLEAN
    BY DEF Init
  <2> QED
    BY <2>1, BoundsAssumption DEF RunnerTypeOK
<1> QED
  BY <1>1, <1>2, <1>3, <1>4 DEF CallersInv, TypeOK

LEMMA CallersStep ==
    CallersInv /\ [Next]_vars => CallersInv' /\ [StoreNext]_storeVars
<1> SUFFICES ASSUME CallersInv, [Next]_vars
             PROVE  CallersInv' /\ [StoreNext]_storeVars
  OBVIOUS
<1>1. CASE Next
  <2>1. (StoreNext \/ UNCHANGED storeVars) /\ TypeOK' /\ RequestsFit'
    BY <1>1, GenerateKeeps, RetryKeeps, EnqueueKeeps, CompensateKeeps,
       ScheduleFailsKeeps, OneTransactionKeeps, RunnerStepType,
       RunnerStepStore, ProcessStepType
    DEF Next, StoreNext
  <2> QED
    BY <2>1, StoreStepType DEF CallersInv
<1>2. CASE UNCHANGED vars
  BY <1>2
  DEF CallersInv, vars, storeVars, runnerVars, StoreTypeOK, TypeOK,
      QueueTypeOK, RequestTypeOK, RunnerTypeOK, RequestsFit
<1> QED
  BY <1>1, <1>2

\* The variables of the process keep their types: the queue its capacity, the
\* requests the shape their undoing needs, and the runner's position in its
\* task names a fragment whenever a transaction is about to be made for it.
THEOREM ProcessTypes == Spec => []TypeOK
<1>1. CallersInv => TypeOK
  BY DEF CallersInv
<1> QED
  BY <1>1, CallersInit, CallersStep, PTL DEF Spec

\* The program implements the repository's promise: whatever the handlers,
\* the runner and the faults do, the tables go through StoreSpec's behaviours.
THEOREM ProgramImplementsStore == Spec => StoreSpec
<1>1. Init => StoreInit
  BY DEF Init
<1> QED
  BY <1>1, CallersInit, CallersStep, PTL DEF Spec, StoreSpec

\* In the running program the counters and final statuses that clients poll
\* agree with the fragments, no attempt goes unrecorded, and a completed job
\* can be exported.
THEOREM ProgramKeepsTables ==
    Spec => [](/\ StoreTypeOK /\ RowsMatch
               /\ AttemptsAreRecorded /\ CompletedIsExportable)
BY ProgramImplementsStore, StoreTypes, RowsAlwaysMatch, AttemptsAlwaysRecorded,
   CompletedAlwaysExportable, PTL

-----------------------------------------------------------------------------
(* Audio speaks its text.  A fragment's text is frozen while it is          *)
(* generating, so the text the runner read is the current one when its      *)
(* result is saved.                                                         *)

TextSent ==
    pc = "work" /\ status[CurrentFragment] = "generating" =>
        item = text[CurrentFragment]

\* What all transactions but StartFragment and CompleteFragment do to a
\* fragment: its audio is kept with its text or dropped, and if it is
\* generating it was and has the same text.
TextsFrozen ==
    \A g \in Fragment :
        /\ \/ text'[g] = text[g] /\ audio'[g] = audio[g]
           \/ audio'[g] = NoAudio
        /\ status'[g] = "generating" =>
              status[g] = "generating" /\ text'[g] = text[g]

LEMMA JobStepTexts ==
    ASSUME StoreTypeOK, NEW j \in Job, JobStep(j)
    PROVE  TextsFrozen
<1>1. CASE FreshRows(j)
  BY <1>1 DEF FreshRows, Inserted, TextsFrozen
<1>2. CASE StartTask(j) \/ FinishTask(j) \/ DeleteRewriteTask(j)
  BY <1>2 DEF StartTask, FinishTask, DeleteRewriteTask, TextsFrozen
<1>3. ASSUME NEW S \in SUBSET FragmentsOf(j), PrepareRetry(j, S)
      PROVE  TextsFrozen
  BY <1>3 DEF PrepareRetry, TextsFrozen
<1>4. ASSUME NEW S \in SUBSET FragmentsOf(j), CreateRewriteTask(j, S)
      PROVE  TextsFrozen
  BY <1>4 DEF CreateRewriteTask, TextsFrozen
<1>5. ASSUME NEW S \in SUBSET FragmentsOf(j), NEW previous \in [S -> Retryable],
             CancelRetry(j, previous)
      PROVE  TextsFrozen
  <2>1. CASE jobStatus[j] = "absent"
    BY <1>5, <2>1 DEF CancelRetry, storeVars, TextsFrozen
  <2>2. CASE jobStatus[j] # "absent"
    <3>1. /\ status' = [f \in Fragment |->
                          IF /\ f \in DOMAIN previous /\ JobOf[f] = j
                             /\ status[f] = "pending"
                          THEN previous[f] ELSE status[f]]
          /\ UNCHANGED <<text, audio>>
      BY <1>5, <2>2 DEF CancelRetry
    <3>2. \A f \in DOMAIN previous : previous[f] # "generating"
      BY DEF Retryable
    <3> QED
      BY <3>1, <3>2 DEF TextsFrozen
  <2> QED
    BY <2>1, <2>2
<1> QED
  BY <1>1, <1>2, <1>3, <1>4, <1>5 DEF JobStep, CreateJob, DeleteJob

\* The transactions that leave the text alone.
LEMMA QuietTexts ==
    ASSUME StoreTypeOK, NEW f \in Fragment, NEW new, new # "generating",
           status' = [status EXCEPT ![f] = new], UNCHANGED <<text, audio>>
    PROVE  TextsFrozen
BY DEF TextsFrozen, StoreTypeOK

\* The transactions that set it.
LEMMA SetTexts ==
    ASSUME StoreTypeOK, NEW f \in Fragment, NEW t, SetText(f, t),
           status'[f] # "generating",
           \A g \in Fragment : g # f => status'[g] = status[g]
    PROVE  TextsFrozen
<1>1. /\ audio'[f] = NoAudio
      /\ \A g \in Fragment : g # f => text'[g] = text[g] /\ audio'[g] = audio[g]
  BY DEF SetText, StoreTypeOK
<1> QED
  BY <1>1 DEF TextsFrozen

LEMMA FailureTexts ==
    ASSUME StoreTypeOK, NEW f \in Fragment,
           FailFragment(f) \/ PrepareAutomaticWarningRetry(f)
              \/ ApproveFragment(f)
    PROVE  TextsFrozen
<1>1. /\ \/ status' = [status EXCEPT ![f] = "failed"]
         \/ status' = [status EXCEPT ![f] = "pending"]
         \/ status' = [status EXCEPT ![f] = "ready"]
      /\ UNCHANGED <<text, audio>>
  BY DEF FailFragment, PrepareAutomaticWarningRetry, ApproveFragment
<1> QED
  BY <1>1, QuietTexts

LEMMA RevisionTexts ==
    ASSUME StoreTypeOK, NEW f \in Fragment,
           \/ \E t \in Text : EditFragment(f, t)
           \/ \E n \in DOMAIN revisions[f] : RestoreFragmentRevision(f, n)
           \/ \E t \in Text : CompleteRewriteFragment(f, text[f], t)
           \/ FailRewriteFragment(f)
    PROVE  TextsFrozen
<1>1. ASSUME NEW t \in Text, EditFragment(f, t)
      PROVE  TextsFrozen
  <2>1. SetText(f, t) /\ status' = [status EXCEPT ![f] = "warning"]
    BY <1>1 DEF EditFragment
  <2>2. /\ status'[f] = "warning"
        /\ \A g \in Fragment : g # f => status'[g] = status[g]
    BY <2>1 DEF StoreTypeOK
  <2> QED
    BY <2>1, <2>2, SetTexts
<1>2. ASSUME NEW n \in DOMAIN revisions[f], RestoreFragmentRevision(f, n)
      PROVE  TextsFrozen
  <2>1. /\ SetText(f, revisions[f][n])
        /\ status' = [status EXCEPT ![f] = RestoredStatus(status[f])]
    BY <1>2 DEF RestoreFragmentRevision
  <2>2. /\ status'[f] # "generating"
        /\ \A g \in Fragment : g # f => status'[g] = status[g]
    BY <2>1 DEF StoreTypeOK, RestoredStatus
  <2> QED
    BY <2>1, <2>2, SetTexts
<1>3. ASSUME NEW t \in Text, CompleteRewriteFragment(f, text[f], t)
      PROVE  TextsFrozen
  <2>1. status[f] = "warning" /\ status' = status
    BY <1>3 DEF CompleteRewriteFragment
  <2>2. CASE t = text[f]
    <3>1. UNCHANGED <<text, audio>>
      BY <1>3, <2>2 DEF CompleteRewriteFragment
    <3> QED
      BY <2>1, <3>1 DEF TextsFrozen
  <2>3. CASE t # text[f]
    <3>1. SetText(f, t)
      BY <1>3, <2>3 DEF CompleteRewriteFragment
    <3> QED
      BY <2>1, <3>1, SetTexts
  <2> QED
    BY <2>2, <2>3
<1>4. CASE FailRewriteFragment(f)
  BY <1>4 DEF FailRewriteFragment, TextsFrozen
<1> QED
  BY <1>1, <1>2, <1>3, <1>4

\* A step that freezes the texts keeps both parts of the invariant, unless
\* the runner turns to a new work item.
LEMMA FrozenKeeps ==
    ASSUME CallersInv, AudioSpeaksText, TextSent, TextsFrozen,
           pc' # "work" \/ UNCHANGED <<pc, task, index, item>>
    PROVE  AudioSpeaksText' /\ TextSent'
<1>1. AudioSpeaksText'
  BY DEF AudioSpeaksText, TextsFrozen
<1>2. ASSUME pc' = "work", UNCHANGED <<pc, task, index, item>>
      PROVE  TextSent'
  <2>1. CurrentFragment \in Fragment /\ CurrentFragment' = CurrentFragment
    BY <1>2, CurrentFragmentType DEF CallersInv, TypeOK, CurrentFragment
  <2> QED
    BY <1>2, <2>1 DEF TextSent, TextsFrozen
<1> QED
  BY <1>1, <1>2 DEF TextSent

LEMMA ClientTexts ==
    ASSUME CallersInv, Client \/ Rewriter
    PROVE  TextsFrozen
<1>1. StoreTypeOK
  BY DEF CallersInv
<1>2. CASE Client
  <2>1. PICK f \in Fragment :
           \/ \E t \in Text : EditFragment(f, t)
           \/ \E n \in DOMAIN revisions[f] : RestoreFragmentRevision(f, n)
           \/ ApproveFragment(f)
    BY <1>2 DEF Client
  <2> QED
    BY <1>1, <2>1, RevisionTexts, FailureTexts
<1>3. CASE Rewriter
  <2>1. \/ \E j \in Job : JobStep(j)
        \/ \E f \in Fragment :
              \/ \E t \in Text : CompleteRewriteFragment(f, text[f], t)
              \/ FailRewriteFragment(f)
    BY <1>3 DEF Rewriter, JobStep
  <2> QED
    BY <1>1, <2>1, JobStepTexts, RevisionTexts
<1> QED
  BY <1>2, <1>3

LEMMA UnchangedTexts ==
    ASSUME UNCHANGED storeVars
    PROVE  TextsFrozen
BY DEF storeVars, TextsFrozen

\* Going on to the next fragment ends the work on this one.
LEMMA NextFragmentLeaves ==
    ASSUME NextFragment
    PROVE  pc' # "work"
BY DEF NextFragment, ToFragment

\* Saving the result of a work item.
LEMMA CompleteTexts ==
    ASSUME CallersInv, AudioSpeaksText, TextSent, pc = "work",
           NEW c \in {""} \cup ValidationCode,
           CompleteFragment(CurrentFragment, item, c), pc' # "work"
    PROVE  AudioSpeaksText' /\ TextSent'
<1>1. /\ status[CurrentFragment] = "generating"
      /\ audio' = [audio EXCEPT ![CurrentFragment] = item]
      /\ text' = text
  BY DEF CompleteFragment
<1>2. item = text[CurrentFragment]
  BY <1>1 DEF TextSent
<1>3. AudioSpeaksText'
  BY <1>1, <1>2 DEF AudioSpeaksText, CallersInv, StoreTypeOK
<1> QED
  BY <1>3 DEF TextSent

LEMMA StartTexts ==
    ASSUME CallersInv, AudioSpeaksText, pc = "claim",
           StartFragment(CurrentFragment),
           \/ pc' # "work"
           \/ /\ UNCHANGED <<task, index>>
              /\ item' = text[CurrentFragment]
    PROVE  AudioSpeaksText' /\ TextSent'
<1>1. UNCHANGED <<text, audio>>
  BY DEF StartFragment
<1>2. AudioSpeaksText'
  BY <1>1 DEF AudioSpeaksText
<1>3. ASSUME UNCHANGED <<task, index>>, item' = text[CurrentFragment]
      PROVE  TextSent'
  <2>1. CurrentFragment' = CurrentFragment
    BY <1>3 DEF CurrentFragment
  <2> QED
    BY <1>1, <1>3, <2>1 DEF TextSent
<1> QED
  BY <1>2, <1>3 DEF TextSent

LEMMA RunnerTexts ==
    ASSUME CallersInv, AudioSpeaksText, TextSent, Runner
    PROVE  AudioSpeaksText' /\ TextSent'
<1>1. StoreTypeOK /\ RunnerTypeOK
  BY DEF CallersInv, TypeOK
<1>2. CASE \/ TakeTask \/ LoopExit \/ Abandon \/ EndTaskFails
           \/ (DropTask \/ AutoRetryRejected) /\ UNCHANGED storeVars
  <2>1. UNCHANGED storeVars /\ pc' # "work"
    BY <1>2, NextFragmentLeaves
    DEF TakeTask, LoopExit, DropTask, Abandon, AutoRetryRejected,
        EndTaskFails, ToIdle
  <2> QED
    BY <2>1, UnchangedTexts, FrozenKeeps
<1>3. CASE BeginTask \/ EndTask \/ (DropTask /\ StartTask(task.job))
  <2>1. task.job \in Job
    BY <1>1, <1>3 DEF BeginTask, EndTask, DropTask, RunnerTypeOK, Task
  <2>2. JobStep(task.job) /\ pc' # "work"
    BY <1>3 DEF BeginTask, EndTask, DropTask, JobStep, ToFragment, ToIdle
  <2> QED
    BY <1>1, <2>1, <2>2, JobStepTexts, FrozenKeeps
<1>4. CASE \/ Fail \/ AutoRetry
           \/ AutoRetryRejected /\ ~UNCHANGED storeVars
  <2>1. /\ CurrentFragment \in Fragment
        /\ \/ FailFragment(CurrentFragment)
           \/ PrepareAutomaticWarningRetry(CurrentFragment)
    BY <1>1, <1>4, CurrentFragmentType DEF Fail, AutoRetry, AutoRetryRejected
  <2>2. pc' # "work"
    BY <1>4, NextFragmentLeaves DEF Fail, AutoRetry, AutoRetryRejected
  <2> QED
    BY <1>1, <2>1, <2>2, FailureTexts, FrozenKeeps
<1>5. CASE ClaimFragment
  BY <1>5, StartTexts DEF ClaimFragment
<1>6. CASE SkipFragment
  <2>1. pc = "claim" /\ pc' # "work"
    BY <1>6, NextFragmentLeaves DEF SkipFragment
  <2>2. UNCHANGED storeVars \/ StartFragment(CurrentFragment)
    BY <1>6 DEF SkipFragment
  <2>3. CASE UNCHANGED storeVars
    BY <2>1, <2>3, UnchangedTexts, FrozenKeeps
  <2>4. CASE StartFragment(CurrentFragment)
    BY <2>1, <2>4, StartTexts
  <2> QED
    BY <2>2, <2>3, <2>4
<1>7. ASSUME NEW c \in {""} \cup ValidationCode, Complete(c)
      PROVE  AudioSpeaksText' /\ TextSent'
  <2>1. pc = "work" /\ CompleteFragment(CurrentFragment, item, c)
    BY <1>7 DEF Complete
  <2>2. pc' # "work"
    BY <1>7, NextFragmentLeaves DEF Complete
  <2> QED
    BY <2>1, <2>2, CompleteTexts
<1>8. CASE LoseResult
  <2>1. pc = "work" /\ pc' # "work"
    BY <1>8, NextFragmentLeaves DEF LoseResult
  <2>2. \/ UNCHANGED storeVars
        \/ \E c \in {""} \cup ValidationCode :
              CompleteFragment(CurrentFragment, item, c)
    BY <1>8 DEF LoseResult
  <2> QED
    BY <2>1, <2>2, UnchangedTexts, FrozenKeeps, CompleteTexts
<1> QED
  BY <1>2, <1>3, <1>4, <1>5, <1>6, <1>7, <1>8, DroppedTask DEF Runner

LEMMA TextsStep ==
    CallersInv /\ AudioSpeaksText /\ TextSent /\ [Next]_vars
        => AudioSpeaksText' /\ TextSent'
<1> SUFFICES ASSUME CallersInv, AudioSpeaksText, TextSent, [Next]_vars
             PROVE  AudioSpeaksText' /\ TextSent'
  OBVIOUS
<1>1. StoreTypeOK
  BY DEF CallersInv
<1>2. ASSUME NEW h \in Handler,
             \/ Generate(h) \/ Retry(h) \/ Enqueue(h)
             \/ Compensate(h) \/ CompensateFails(h) \/ ScheduleFails(h)
      PROVE  AudioSpeaksText' /\ TextSent'
  <2>1. (\E j \in Job : JobStep(j)) \/ UNCHANGED storeVars
    BY <1>2, GenerateKeeps, RetryKeeps, EnqueueKeeps, CompensateKeeps,
       ScheduleFailsKeeps
  <2>2. UNCHANGED runnerVars
    BY <1>2, ScheduledUnheard
    DEF Generate, Retry, Enqueue, Compensate, CompensateFails
  <2>3. UNCHANGED <<pc, task, index, item>>
    BY <2>2 DEF runnerVars
  <2> QED
    BY <1>1, <2>1, <2>3, JobStepTexts, UnchangedTexts, FrozenKeeps
<1>3. CASE Client \/ Rewriter
  <2>1. UNCHANGED <<pc, task, index, item>>
    BY <1>3 DEF Client, Rewriter, runnerVars
  <2> QED
    BY <1>3, <2>1, ClientTexts, FrozenKeeps
<1>4. CASE Close \/ Restart
  <2>1. /\ UNCHANGED storeVars
        /\ pc' # "work" \/ UNCHANGED <<pc, task, index, item>>
    BY <1>4 DEF Close, Restart, ToIdle, runnerVars
  <2> QED
    BY <2>1, UnchangedTexts, FrozenKeeps
<1>5. CASE UNCHANGED vars
  BY <1>5, UnchangedTexts, FrozenKeeps DEF vars, runnerVars
<1> QED
  BY <1>2, <1>3, <1>4, <1>5, RunnerTexts DEF Next

\* Whatever a fragment's row stores, and so what can be listened to, approved
\* or exported, speaks the fragment's current text.
THEOREM AudioAlwaysSpeaksText == Spec => []AudioSpeaksText
<1>1. Init => AudioSpeaksText /\ TextSent
  BY DEF Init, StoreInit, AudioSpeaksText, TextSent
<1> QED
  BY <1>1, CallersInit, CallersStep, TextsStep, PTL DEF Spec

-----------------------------------------------------------------------------
(* Ownership.  Every fragment that is still to be generated belongs to one *)
(* task, and the task to one place: a handler, the queue, or the runner.   *)
(* What handlers and runner may take for granted of each other's fragments *)
(* follows from it.                                                        *)
(*                                                                         *)
(* A transaction is described by what it may do to others: which pending   *)
(* fragments it takes (PendingStays), which jobs it takes out of the state *)
(* a new job is in (NewStays), which it removes (JobsStay), and whose      *)
(* history it touches (HistoryStays).                                      *)

Busy == pc \notin {"idle", "exited"}
Asks(h) == request[h] # Idle
AsksNew(h) == Asks(h) /\ request[h].kind = "generate"
AsksRetry(h) == Asks(h) /\ request[h].kind = "retry"
JobAsked(h) == request[h].task.job

\* A task lists fragments of its own job, at least one and each once, and its
\* job is there.
TaskFits(t) ==
    /\ t.fragments # <<>>
    /\ Range(t.fragments) \subseteq FragmentsOf(t.job)
    /\ IsInjective(t.fragments)

QueueFits ==
    \A k \in DOMAIN queue :
        TaskFits(queue[k]) /\ jobStatus[queue[k].job] # "absent"
HandlersFit ==
    \A h \in Handler : Asks(h) =>
        TaskFits(request[h].task) /\ jobStatus[JobAsked(h)] # "absent"
RunnerFits == Busy => TaskFits(task) /\ jobStatus[task.job] # "absent"

\* A handler that would undo a retry names exactly the task's fragments.
RetriesFit ==
    \A h \in Handler : AsksRetry(h) =>
        DOMAIN request[h].previous = Range(request[h].task.fragments)

\* A job that its handler has not queued yet is as the commit left it, and
\* nobody else has a task of it.
NewJob(j) ==
    /\ jobStatus[j] = "queued"
    /\ \A f \in FragmentsOf(j) : status[f] = "pending" /\ attempt[f] = 0
NewJobsUntouched ==
    \A h \in Handler : AsksNew(h) =>
        /\ NewJob(JobAsked(h))
        /\ FragmentsOf(JobAsked(h)) \subseteq OfRequest(h)
        /\ \A k \in DOMAIN queue : queue[k].job # JobAsked(h)
        /\ Busy => task.job # JobAsked(h)
        /\ \A g \in Handler : g # h /\ Asks(g) => JobAsked(g) # JobAsked(h)

Ownership ==
    /\ QueueFits /\ HandlersFit /\ RunnerFits
    /\ RetriesFit
    /\ NewJobsUntouched
    /\ KnownWorkIsPending

-----------------------------------------------------------------------------
(* What a transaction leaves to others.                                    *)

PendingStays(F) ==
    \A f \in Fragment \ F : status[f] = "pending" => status'[f] = "pending"
JobsStay(D) ==
    \A j \in Job \ D : jobStatus[j] # "absent" => jobStatus'[j] # "absent"
NewStays(J) ==
    \A j \in Job \ J : NewJob(j) => jobStatus'[j] = "queued"
HistoryStays(H) ==
    \A f \in Fragment \ H : attempt'[f] = attempt[f] /\ log[f] \subseteq log'[f]
LeavesAlone(F, D, J, H) ==
    PendingStays(F) /\ JobsStay(D) /\ NewStays(J) /\ HistoryStays(H)

\* A transaction that changes one fragment, which was not pending, and
\* recomputes its job.
LEMMA RecomputeLeaves ==
    ASSUME StoreTypeOK, NEW f \in Fragment, status[f] # "pending",
           NEW new, status' = [status EXCEPT ![f] = new],
           NEW final \in JobStatus,
           jobStatus' = [jobStatus EXCEPT ![JobOf[f]] = final],
           UNCHANGED attempt,
           \A g \in Fragment : log[g] \subseteq log'[g]
    PROVE  LeavesAlone({}, {}, {}, {})
<1>1. PendingStays({})
  BY DEF PendingStays, StoreTypeOK
<1>2. JobsStay({})
  BY DEF JobsStay, StoreTypeOK, JobStatus
<1>3. NewStays({})
  <2>1. ~NewJob(JobOf[f])
    BY DEF NewJob, FragmentsOf
  <2> QED
    BY <2>1 DEF NewStays, NewJob, StoreTypeOK
<1>4. HistoryStays({})
  BY DEF HistoryStays
<1> QED
  BY <1>1, <1>2, <1>3, <1>4 DEF LeavesAlone

LEMMA LogGrows ==
    ASSUME StoreTypeOK, NEW f \in Fragment, NEW outcome, InsertAttempt(f, outcome)
    PROVE  /\ \A g \in Fragment : log[g] \subseteq log'[g]
           /\ [attempt |-> attempt[f], outcome |-> outcome] \in log'[f]
BY DEF InsertAttempt, StoreTypeOK

\* The transactions on one fragment that is neither pending nor becomes so
\* by them.
LEMMA OutcomeLeaves ==
    ASSUME StoreTypeOK, NEW f \in Fragment,
           \/ \E spoken \in Text, c \in {""} \cup ValidationCode :
                 CompleteFragment(f, spoken, c)
           \/ FailFragment(f)
           \/ PrepareAutomaticWarningRetry(f)
           \/ ApproveFragment(f)
    PROVE  LeavesAlone({}, {}, {}, {})
<1>1. status[f] # "pending"
  BY DEF CompleteFragment, FailFragment, PrepareAutomaticWarningRetry,
         ApproveFragment
<1>2. /\ \E new : status' = [status EXCEPT ![f] = new]
      /\ UNCHANGED attempt
  BY DEF CompleteFragment, FailFragment, PrepareAutomaticWarningRetry,
         ApproveFragment
<1>3. \E final \in JobStatus :
         jobStatus' = [jobStatus EXCEPT ![JobOf[f]] = final]
  <2>1. \/ Recompute(JobOf[f], status')
        \/ RecomputeTo(JobOf[f], status', "running")
    BY DEF CompleteFragment, FailFragment, PrepareAutomaticWarningRetry,
           ApproveFragment
  <2> QED
    BY <2>1, StatusForType DEF Recompute, RecomputeTo, JobStatus
<1>4. \A g \in Fragment : log[g] \subseteq log'[g]
  BY LogGrows DEF CompleteFragment, FailFragment,
                  PrepareAutomaticWarningRetry, ApproveFragment
<1> QED
  BY <1>1, <1>2, <1>3, <1>4, RecomputeLeaves

LEMMA QuietLeaves ==
    ASSUME UNCHANGED <<jobStatus, status, attempt, log>>
    PROVE  LeavesAlone({}, {}, {}, {})
BY DEF LeavesAlone, PendingStays, JobsStay, NewStays, NewJob, HistoryStays

\* A restored text leaves a queued job's pending fragment, and the job, as
\* they are.
LEMMA RestoreLeaves ==
    ASSUME StoreTypeOK, NEW f \in Fragment, NEW n \in DOMAIN revisions[f],
           RestoreFragmentRevision(f, n)
    PROVE  LeavesAlone({}, {}, {}, {})
<1> DEFINE j == JobOf[f]
           final == IF jobStatus[j] = "queued" /\ status[f] = "pending"
                    THEN "queued" ELSE StatusFor(j, status')
<1>1. /\ status' = [status EXCEPT ![f] = RestoredStatus(status[f])]
      /\ jobStatus' = [jobStatus EXCEPT ![j] = final]
      /\ UNCHANGED <<attempt, log>>
  BY DEF RestoreFragmentRevision, RecomputeTo
<1>2. final \in JobStatus
  BY StatusForType DEF JobStatus
<1>3. PendingStays({})
  BY <1>1 DEF PendingStays, StoreTypeOK, RestoredStatus
<1>4. JobsStay({})
  BY <1>1, <1>2 DEF JobsStay, StoreTypeOK, JobStatus
<1>5. NewStays({})
  <2>1. NewJob(j) => jobStatus[j] = "queued" /\ status[f] = "pending"
    BY DEF NewJob, FragmentsOf
  <2>2. NewJob(j) => final = "queued"
    BY <2>1
  <2> HIDE DEF final
  <2> QED
    BY <1>1, <2>2, JobsAssumption DEF NewStays, NewJob, StoreTypeOK
<1>6. HistoryStays({})
  BY <1>1 DEF HistoryStays
<1> QED
  BY <1>3, <1>4, <1>5, <1>6 DEF LeavesAlone

\* The handlers that make one transaction, and rewriting, take nothing that
\* is pending.
LEMMA ClientLeaves ==
    ASSUME StoreTypeOK, Client \/ Rewriter
    PROVE  LeavesAlone({}, {}, {}, {})
<1>1. ASSUME NEW f \in Fragment, NEW t \in Text, EditFragment(f, t)
      PROVE  LeavesAlone({}, {}, {}, {})
  <2>1. /\ status[f] # "pending"
        /\ status' = [status EXCEPT ![f] = "warning"]
        /\ UNCHANGED <<attempt, log>>
    BY <1>1 DEF EditFragment, Retryable
  <2>2. \E final \in JobStatus :
           jobStatus' = [jobStatus EXCEPT ![JobOf[f]] = final]
    BY <1>1, StatusForType DEF EditFragment, Recompute, RecomputeTo
  <2> QED
    BY <2>1, <2>2, RecomputeLeaves
<1>2. ASSUME NEW f \in Fragment, NEW t \in Text,
             CompleteRewriteFragment(f, text[f], t)
      PROVE  LeavesAlone({}, {}, {}, {})
  <2>1. CASE t = text[f]
    BY <1>2, <2>1, QuietLeaves DEF CompleteRewriteFragment
  <2>2. CASE t # text[f]
    <3>1. /\ status[f] # "pending"
          /\ UNCHANGED <<status, attempt, log>>
      BY <1>2, <2>2 DEF CompleteRewriteFragment
    <3>2. status' = [status EXCEPT ![f] = status[f]]
      BY <3>1 DEF StoreTypeOK
    <3>3. \E final \in JobStatus :
             jobStatus' = [jobStatus EXCEPT ![JobOf[f]] = final]
      BY <1>2, <2>2, StatusForType
      DEF CompleteRewriteFragment, Recompute, RecomputeTo
    <3> QED
      BY <3>1, <3>2, <3>3, RecomputeLeaves
  <2> QED
    BY <2>1, <2>2
<1>3. CASE Client
  BY <1>1, <1>3, RestoreLeaves, OutcomeLeaves DEF Client
<1>4. CASE Rewriter
  <2>1. ASSUME NEW j \in Job, NEW S \in SUBSET FragmentsOf(j),
               CreateRewriteTask(j, S)
        PROVE  LeavesAlone({}, {}, {}, {})
    BY <2>1, QuietLeaves DEF CreateRewriteTask
  <2>2. ASSUME NEW j \in Job, DeleteRewriteTask(j)
        PROVE  LeavesAlone({}, {}, {}, {})
    BY <2>2, QuietLeaves DEF DeleteRewriteTask
  <2>3. ASSUME NEW f \in Fragment, FailRewriteFragment(f)
        PROVE  LeavesAlone({}, {}, {}, {})
    BY <2>3, QuietLeaves DEF FailRewriteFragment
  <2> QED
    BY <1>2, <1>4, <2>1, <2>2, <2>3 DEF Rewriter
<1> QED
  BY <1>3, <1>4

LEMMA TaskLeaves ==
    ASSUME StoreTypeOK, NEW j \in Job, StartTask(j) \/ FinishTask(j)
    PROVE  LeavesAlone({}, {}, {j}, {})
<1>1. /\ \E final \in JobStatus : jobStatus' = [jobStatus EXCEPT ![j] = final]
      /\ UNCHANGED <<status, attempt, log>>
  BY StatusForType DEF StartTask, FinishTask, Recompute, RecomputeTo, JobStatus
<1> QED
  BY <1>1 DEF LeavesAlone, PendingStays, JobsStay, NewStays, NewJob,
              HistoryStays, StoreTypeOK, JobStatus

LEMMA StartLeaves ==
    ASSUME StoreTypeOK, NEW f \in Fragment, StartFragment(f)
    PROVE  LeavesAlone({f}, {}, {}, {f})
<1>1. /\ status' = [status EXCEPT ![f] = "generating"]
      /\ attempt' = [attempt EXCEPT ![f] = attempt[f] + 1]
      /\ UNCHANGED <<jobStatus, log>>
  BY DEF StartFragment
<1> QED
  BY <1>1 DEF LeavesAlone, PendingStays, JobsStay, NewStays, NewJob,
              HistoryStays, StoreTypeOK

LEMMA RetryLeaves ==
    ASSUME StoreTypeOK, NEW j \in Job, NEW S \in SUBSET FragmentsOf(j),
           PrepareRetry(j, S)
    PROVE  LeavesAlone({}, {}, {}, {})
<1>1. /\ status' = [f \in Fragment |-> IF f \in S THEN "pending" ELSE status[f]]
      /\ jobStatus' = [jobStatus EXCEPT ![j] = "queued"]
      /\ jobStatus[j] # "queued"
      /\ UNCHANGED <<attempt, log>>
  BY DEF PrepareRetry, RecomputeTo, Active
<1> QED
  BY <1>1 DEF LeavesAlone, PendingStays, JobsStay, NewStays, NewJob,
              HistoryStays, StoreTypeOK

LEMMA CancelLeaves ==
    ASSUME StoreTypeOK, NEW j \in Job, NEW previous, CancelRetry(j, previous)
    PROVE  LeavesAlone(DOMAIN previous, {}, {j}, {})
<1>1. CASE jobStatus[j] = "absent"
  BY <1>1, QuietLeaves
  DEF CancelRetry, storeVars, LeavesAlone, PendingStays, NewStays
<1>2. CASE jobStatus[j] # "absent"
  <2>1. /\ status' = [f \in Fragment |->
                        IF /\ f \in DOMAIN previous /\ JobOf[f] = j
                           /\ status[f] = "pending"
                        THEN previous[f] ELSE status[f]]
        /\ \E final \in JobStatus : jobStatus' = [jobStatus EXCEPT ![j] = final]
        /\ UNCHANGED <<attempt, log>>
    BY <1>2, StatusForType DEF CancelRetry, Recompute, RecomputeTo
  <2> QED
    BY <2>1 DEF LeavesAlone, PendingStays, JobsStay, NewStays, NewJob,
                HistoryStays, StoreTypeOK, JobStatus
<1> QED
  BY <1>1, <1>2

\* Fresh rows are pending.
LEMMA FreshLeaves ==
    ASSUME StoreTypeOK, NEW j \in Job, FreshRows(j)
    PROVE  /\ PendingStays({}) /\ HistoryStays(FragmentsOf(j))
           /\ rewriting'[j] = {}
           /\ \A f \in FragmentsOf(j) :
                 /\ status'[f] = "pending" /\ attempt'[f] = 0
                 /\ audio'[f] = NoAudio
           /\ \A f \in Fragment \ FragmentsOf(j) : status'[f] = status[f]
BY DEF FreshRows, Inserted, PendingStays, HistoryStays, FragmentsOf,
       StoreTypeOK

LEMMA DeleteLeaves ==
    ASSUME StoreTypeOK, NEW j \in Job, DeleteJob(j)
    PROVE  LeavesAlone({}, {j}, {j}, FragmentsOf(j))
<1>1. jobStatus' = [jobStatus EXCEPT ![j] = "absent"] /\ FreshRows(j)
  BY DEF DeleteJob
<1> QED
  BY <1>1, FreshLeaves
  DEF LeavesAlone, JobsStay, NewStays, NewJob, StoreTypeOK

LEMMA CreateLeaves ==
    ASSUME StoreTypeOK, NEW j \in Job, CreateJob(j)
    PROVE  LeavesAlone({}, {}, {}, FragmentsOf(j)) /\ NewJob(j)'
<1>1. /\ jobStatus' = [jobStatus EXCEPT ![j] = "queued"] /\ FreshRows(j)
      /\ jobStatus[j] = "absent"
  BY DEF CreateJob
<1>2. jobStatus'[j] = "queued" /\ NewStays({}) /\ JobsStay({})
  BY <1>1 DEF JobsStay, NewStays, NewJob, StoreTypeOK
<1> QED
  BY <1>1, <1>2, FreshLeaves DEF LeavesAlone, NewJob

-----------------------------------------------------------------------------
(* Tasks keep their places.                                                *)

\* What is left of a task.
LEMMA RestOfTask ==
    ASSUME NEW t \in Task
    PROVE  /\ Rest(t, 1) = Range(t.fragments)
           /\ Range(t.fragments) \subseteq Fragment
           /\ \A i \in Nat : Rest(t, i + 1) \subseteq Rest(t, i)
           /\ \A i \in 1 .. Len(t.fragments) :
                 /\ t.fragments[i] \in Range(t.fragments)
                 /\ Rest(t, i) = {t.fragments[i]} \cup Rest(t, i + 1)
                 /\ Rest(t, i) \subseteq Range(t.fragments)
                 /\ IsInjective(t.fragments) =>
                       t.fragments[i] \notin Rest(t, i + 1)
<1>1. t.fragments \in Seq(Fragment) /\ Len(t.fragments) \in Nat
      /\ DOMAIN t.fragments = 1 .. Len(t.fragments)
  BY DEF Task
<1>2. Rest(t, 1) = Range(t.fragments)
  BY <1>1 DEF Rest, Range
<1>3. \A i \in Nat : Rest(t, i + 1) \subseteq Rest(t, i)
  BY <1>1 DEF Rest
<1>4. ASSUME NEW i \in 1 .. Len(t.fragments)
      PROVE  /\ t.fragments[i] \in Range(t.fragments)
             /\ Rest(t, i) = {t.fragments[i]} \cup Rest(t, i + 1)
             /\ Rest(t, i) \subseteq Range(t.fragments)
             /\ IsInjective(t.fragments) =>
                   t.fragments[i] \notin Rest(t, i + 1)
  BY <1>1 DEF Rest, Range, IsInjective
<1>5. Range(t.fragments) \subseteq Fragment
  BY <1>1 DEF Range
<1> QED
  BY <1>2, <1>3, <1>4, <1>5

SameRequest(h) ==
    /\ request'[h].kind = request[h].kind
    /\ request'[h].task = request[h].task
    /\ request'[h].previous = request[h].previous

\* A step in which no place gets a task or part of one it did not have.
NothingNew ==
    /\ \A k \in DOMAIN queue' : k \in DOMAIN queue /\ queue'[k] = queue[k]
    /\ \A h \in Handler : Asks(h)' => Asks(h) /\ SameRequest(h)
    /\ Busy' => Busy /\ task' = task
    /\ OfRunner' \subseteq OfRunner

\* The transaction such a step makes takes from nobody what is still his.
TakesOwn(F, D, J, H) ==
    /\ F \cap Known' = {}
    /\ \A k \in DOMAIN queue' : queue'[k].job \notin D
    /\ \A h \in Handler : Asks(h)' => JobAsked(h)' \notin D
    /\ Busy' => task'.job \notin D
    /\ \A h \in Handler : AsksNew(h)' =>
          JobAsked(h)' \notin J /\ FragmentsOf(JobAsked(h)') \cap H = {}

\* The places of a known fragment, before and after a step.
LEMMA KnownParts ==
    ASSUME NEW f
    PROVE  /\ f \in Known <=>
                 \/ f \in OfRunner
                 \/ \E k \in DOMAIN queue : f \in OfQueue(k)
                 \/ \E h \in Handler : f \in OfRequest(h)
           /\ f \in Known' <=>
                 \/ f \in OfRunner'
                 \/ \E k \in DOMAIN queue' : f \in OfQueue(k)'
                 \/ \E h \in Handler : f \in OfRequest(h)'
<1>1. /\ f \in UNION {OfQueue(k) : k \in DOMAIN queue} <=>
            \E k \in DOMAIN queue : f \in OfQueue(k)
      /\ f \in UNION {OfRequest(h) : h \in Handler} <=>
            \E h \in Handler : f \in OfRequest(h)
  OBVIOUS
<1>2. /\ f \in UNION {OfQueue(k)' : k \in DOMAIN queue'} <=>
            \E k \in DOMAIN queue' : f \in OfQueue(k)'
      /\ f \in UNION {OfRequest(h)' : h \in Handler} <=>
            \E h \in Handler : f \in OfRequest(h)'
  OBVIOUS
<1> QED
  BY <1>1, <1>2 DEF Known

LEMMA NothingNewKnown ==
    ASSUME NothingNew
    PROVE  /\ \A k \in DOMAIN queue' : k \in DOMAIN queue /\ OfQueue(k)' = OfQueue(k)
           /\ \A h \in Handler : OfRequest(h)' \subseteq OfRequest(h)
           /\ \A h \in Handler : Asks(h)' => OfRequest(h)' = OfRequest(h)
           /\ Known' \subseteq Known
<1>1. \A k \in DOMAIN queue' : k \in DOMAIN queue /\ OfQueue(k)' = OfQueue(k)
  BY DEF NothingNew, OfQueue, Rest
<1>2. \A h \in Handler : Asks(h)' => OfRequest(h)' = OfRequest(h)
  BY DEF NothingNew, SameRequest, OfRequest, Asks, Rest
<1>3. \A h \in Handler : OfRequest(h)' \subseteq OfRequest(h)
  BY <1>2 DEF OfRequest, Asks
<1>4. Known' \subseteq Known
  BY <1>1, <1>3, KnownParts DEF NothingNew
<1> QED
  BY <1>1, <1>2, <1>3, <1>4

\* A known fragment belongs to the job of the task that lists it.
LEMMA KnownBelongs ==
    ASSUME CallersInv, Ownership
    PROVE  /\ \A k \in DOMAIN queue :
                 /\ queue[k] \in Task
                 /\ OfQueue(k) \subseteq FragmentsOf(queue[k].job)
           /\ \A h \in Handler : Asks(h) =>
                 /\ request[h].task \in Task
                 /\ request[h].kind \in {"generate", "retry"}
                 /\ OfRequest(h) = Range(request[h].task.fragments)
                 /\ OfRequest(h) \subseteq FragmentsOf(JobAsked(h))
           /\ Busy => task \in Task /\ OfRunner \subseteq FragmentsOf(task.job)
           /\ ~Busy => OfRunner = {}
           /\ Known \subseteq Fragment
<1>1. \A k \in DOMAIN queue :
         queue[k] \in Task /\ OfQueue(k) \subseteq FragmentsOf(queue[k].job)
  <2> SUFFICES ASSUME NEW k \in DOMAIN queue
               PROVE  /\ queue[k] \in Task
                      /\ OfQueue(k) \subseteq FragmentsOf(queue[k].job)
    OBVIOUS
  <2>1. queue[k] \in Task
    BY DEF CallersInv, TypeOK, QueueTypeOK
  <2>2. Range(queue[k].fragments) \subseteq FragmentsOf(queue[k].job)
    BY DEF Ownership, QueueFits, TaskFits
  <2>3. Rest(queue[k], 1) = Range(queue[k].fragments)
    BY <2>1, RestOfTask
  <2> QED
    BY <2>1, <2>2, <2>3 DEF OfQueue
<1>2. ASSUME NEW h \in Handler, Asks(h)
      PROVE  /\ request[h].task \in Task
             /\ request[h].kind \in {"generate", "retry"}
             /\ OfRequest(h) = Range(request[h].task.fragments)
             /\ OfRequest(h) \subseteq FragmentsOf(JobAsked(h))
  <2>1. request[h] \in Request \ {Idle}
    BY <1>2 DEF CallersInv, TypeOK, RequestTypeOK, Asks
  <2>2. request[h].task \in Task /\ request[h].kind \in {"generate", "retry"}
    BY <2>1 DEF Request
  <2>3. Rest(request[h].task, 1) = Range(request[h].task.fragments)
    BY <2>2, RestOfTask
  <2>4. Range(request[h].task.fragments) \subseteq FragmentsOf(JobAsked(h))
    BY <1>2 DEF Asks, Ownership, HandlersFit, TaskFits, JobAsked
  <2>5. OfRequest(h) = Rest(request[h].task, 1)
    BY <1>2 DEF OfRequest, Asks
  <2> QED
    BY <2>2, <2>3, <2>4, <2>5
<1>3. ASSUME Busy
      PROVE  task \in Task /\ OfRunner \subseteq FragmentsOf(task.job)
  <2>1. task \in Task /\ TaskFits(task)
    BY <1>3 DEF Busy, CallersInv, TypeOK, RunnerTypeOK, Ownership, RunnerFits
  <2>2. /\ Rest(task, 1) = Range(task.fragments)
        /\ \A i \in 1 .. Len(task.fragments) :
              /\ Rest(task, i) \subseteq Range(task.fragments)
              /\ Rest(task, i + 1) \subseteq Range(task.fragments)
    <3>1. \A i \in 1 .. Len(task.fragments) : i \in Nat
      OBVIOUS
    <3> QED
      BY <2>1, <3>1, RestOfTask
  <2>3. pc \in {"claim", "work", "warned"} => index \in 1 .. Len(task.fragments)
    BY CurrentFragmentType DEF CallersInv, TypeOK
  <2>4. OfRunner \subseteq Range(task.fragments)
    BY <2>2, <2>3 DEF OfRunner
  <2> QED
    BY <2>1, <2>4 DEF TaskFits
<1>4. ~Busy => OfRunner = {}
  BY DEF Busy, OfRunner
<1>5. Known \subseteq Fragment
  BY <1>1, <1>2, <1>3, <1>4, KnownParts DEF FragmentsOf, OfRequest, Asks
<1> QED
  BY <1>1, <1>2, <1>3, <1>4, <1>5

LEMMA OwnershipKept ==
    ASSUME CallersInv, Ownership, NothingNew,
           NEW F, NEW D, NEW J, NEW H, LeavesAlone(F, D, J, H),
           TakesOwn(F, D, J, H)
    PROVE  Ownership'
<1> USE DEF LeavesAlone
<1>1. \A j \in Job : j \notin D /\ jobStatus[j] # "absent" => jobStatus'[j] # "absent"
  BY DEF JobsStay
<1>2. QueueFits' /\ HandlersFit' /\ RunnerFits'
  <2>1. \A t : TaskFits(t)' = TaskFits(t)
    BY DEF TaskFits
  <2>2. QueueFits'
    BY <1>1, <2>1, KnownBelongs
    DEF NothingNew, Ownership, QueueFits, TakesOwn, TaskFits, Task
  <2>3. HandlersFit'
    BY <1>1, <2>1, KnownBelongs
    DEF NothingNew, SameRequest, Ownership, HandlersFit, TakesOwn, TaskFits,
        JobAsked, Task
  <2>4. RunnerFits'
    BY <1>1, <2>1, KnownBelongs
    DEF NothingNew, Ownership, RunnerFits, TakesOwn, TaskFits, Task
  <2> QED
    BY <2>2, <2>3, <2>4
<1>3. RetriesFit'
  BY DEF NothingNew, SameRequest, Ownership, RetriesFit, AsksRetry, Asks
<1>4. KnownWorkIsPending'
  <2>1. \A f \in Known' : Exists(f)' /\ status'[f] = "pending"
    <3> SUFFICES ASSUME NEW f \in Known'
                 PROVE  Exists(f)' /\ status'[f] = "pending"
      OBVIOUS
    <3>1. f \in Known /\ f \in Fragment /\ f \notin F
      BY NothingNewKnown, KnownBelongs DEF TakesOwn
    <3>2. status'[f] = "pending"
      BY <3>1 DEF PendingStays, Ownership, KnownWorkIsPending
    <3>3. JobOf[f] \notin D
      <4>1. CASE f \in OfRunner'
        <5>1. f \in OfRunner /\ Busy' /\ Busy /\ task' = task
          BY <4>1 DEF NothingNew, OfRunner, Busy
        <5> QED
          BY <5>1, KnownBelongs DEF TakesOwn, FragmentsOf
      <4>2. ASSUME NEW k \in DOMAIN queue', f \in OfQueue(k)'
            PROVE  JobOf[f] \notin D
        <5>1. k \in DOMAIN queue /\ f \in OfQueue(k) /\ queue'[k] = queue[k]
          BY <4>2, NothingNewKnown DEF NothingNew
        <5> QED
          BY <4>2, <5>1, KnownBelongs DEF TakesOwn, FragmentsOf
      <4>3. ASSUME NEW h \in Handler, f \in OfRequest(h)'
            PROVE  JobOf[f] \notin D
        <5>1. Asks(h)' /\ Asks(h) /\ f \in OfRequest(h)
              /\ JobAsked(h)' = JobAsked(h)
          BY <4>3, NothingNewKnown
          DEF NothingNew, SameRequest, OfRequest, Asks, JobAsked
        <5> QED
          BY <5>1, KnownBelongs DEF TakesOwn, FragmentsOf
      <4> QED
        BY <4>1, <4>2, <4>3, KnownParts
    <3>4. Exists(f)'
      BY <1>1, <3>1, <3>3, JobsAssumption
      DEF Exists, Ownership, KnownWorkIsPending
    <3> QED
      BY <3>2, <3>4
  <2>2. /\ \A k \in DOMAIN queue' :
              /\ OfQueue(k)' \cap OfRunner' = {}
              /\ \A m \in DOMAIN queue' :
                    k # m => OfQueue(k)' \cap OfQueue(m)' = {}
        /\ \A h \in Handler :
              /\ OfRequest(h)' \cap OfRunner' = {}
              /\ \A k \in DOMAIN queue' : OfRequest(h)' \cap OfQueue(k)' = {}
              /\ \A g \in Handler : g # h => OfRequest(h)' \cap OfRequest(g)' = {}
    BY NothingNewKnown DEF NothingNew, Ownership, KnownWorkIsPending
  <2> QED
    BY <2>1, <2>2 DEF KnownWorkIsPending
<1>5. NewJobsUntouched'
  <2> SUFFICES ASSUME NEW h \in Handler, AsksNew(h)'
               PROVE  /\ NewJob(JobAsked(h))'
                      /\ FragmentsOf(JobAsked(h)') \subseteq OfRequest(h)'
                      /\ \A k \in DOMAIN queue' : queue'[k].job # JobAsked(h)'
                      /\ Busy' => task'.job # JobAsked(h)'
                      /\ \A g \in Handler : g # h /\ Asks(g)' =>
                            JobAsked(g)' # JobAsked(h)'
    BY DEF NewJobsUntouched, FragmentsOf
  <2>1. AsksNew(h) /\ JobAsked(h)' = JobAsked(h) /\ OfRequest(h)' = OfRequest(h)
    BY NothingNewKnown DEF NothingNew, SameRequest, AsksNew, Asks, JobAsked
  <2> DEFINE j == JobAsked(h)
  <2>2. j \in Job
    BY <2>1, KnownBelongs DEF AsksNew, JobAsked, Task
  <2>3. j \notin J /\ FragmentsOf(j) \cap H = {}
    BY <2>1 DEF TakesOwn
  <2>4. /\ NewJob(j) /\ FragmentsOf(j) \subseteq OfRequest(h)
        /\ \A k \in DOMAIN queue : queue[k].job # j
        /\ Busy => task.job # j
        /\ \A g \in Handler : g # h /\ Asks(g) => JobAsked(g) # j
    BY <2>1 DEF Ownership, NewJobsUntouched
  <2>5. jobStatus'[j] = "queued"
    BY <2>2, <2>3, <2>4 DEF NewStays
  <2>6. \A f \in FragmentsOf(j) : status'[f] = "pending" /\ attempt'[f] = 0
    <3> SUFFICES ASSUME NEW f \in FragmentsOf(j)
                 PROVE  status'[f] = "pending" /\ attempt'[f] = 0
      OBVIOUS
    <3>1. f \in Fragment /\ f \in OfRequest(h)' /\ f \notin H
      BY <2>1, <2>3, <2>4 DEF FragmentsOf
    <3>2. f \in Known'
      BY <3>1, KnownParts
    <3> QED
      BY <1>4, <2>4, <3>1, <3>2 DEF KnownWorkIsPending, HistoryStays, NewJob
  <2>7. NewJob(JobAsked(h))'
    BY <2>1, <2>5, <2>6 DEF NewJob, FragmentsOf
  <2>8. \A g \in Handler : Asks(g)' => Asks(g) /\ JobAsked(g)' = JobAsked(g)
    BY DEF NothingNew, SameRequest, JobAsked
  <2> QED
    BY <2>1, <2>4, <2>7, <2>8 DEF NothingNew
<1> QED
  BY <1>2, <1>3, <1>4, <1>5 DEF Ownership


-----------------------------------------------------------------------------
(* The steps that give a place something.                                  *)

\* The queue takes over what the handler had.
LEMMA OwnershipQueued ==
    ASSUME CallersInv, Ownership, NEW h \in Handler, Asks(h),
           queue' = Append(queue, request[h].task),
           request' = [request EXCEPT ![h] = Idle],
           UNCHANGED <<storeVars, runnerVars>>
    PROVE  Ownership'
<1>0. PICK n : n = Len(queue) + 1
  OBVIOUS
<1>1. /\ queue \in Seq(Task) /\ request[h].task \in Task /\ Len(queue) \in Nat
      /\ request \in [Handler -> Request]
  BY KnownBelongs DEF CallersInv, TypeOK, QueueTypeOK, RequestTypeOK
<1>2. /\ DOMAIN queue' = DOMAIN queue \cup {n} /\ n \notin DOMAIN queue
      /\ \A k \in DOMAIN queue : queue'[k] = queue[k]
      /\ queue'[n] = request[h].task
  BY <1>0, <1>1
<1>3. \A g \in Handler : request'[g] = IF g = h THEN Idle ELSE request[g]
  BY <1>1
<1>4. /\ \A k \in DOMAIN queue : OfQueue(k)' = OfQueue(k)
      /\ OfQueue(n)' = OfRequest(h)
  BY <1>2 DEF OfQueue, OfRequest, Asks, Rest
<1>5. /\ OfRequest(h)' = {}
      /\ \A g \in Handler \ {h} : OfRequest(g)' = OfRequest(g)
  BY <1>3 DEF OfRequest, Rest
<1>6. OfRunner' = OfRunner /\ Busy' = Busy /\ task' = task
  BY DEF OfRunner, Busy, Rest, runnerVars
<1>7. \A t : TaskFits(t)' = TaskFits(t)
  BY DEF TaskFits
<1>8. Known' \subseteq Known
  BY <1>2, <1>4, <1>5, <1>6, KnownParts
<1>9. UNCHANGED <<jobStatus, status, attempt>>
  BY DEF storeVars
<1>10. QueueFits' /\ HandlersFit' /\ RunnerFits'
  <2>1. TaskFits(request[h].task) /\ jobStatus[request[h].task.job] # "absent"
    BY DEF Ownership, HandlersFit, JobAsked
  <2>2. QueueFits'
    BY <1>2, <1>7, <1>9, <2>1 DEF Ownership, QueueFits
  <2>3. HandlersFit'
    BY <1>3, <1>7, <1>9 DEF Ownership, HandlersFit, JobAsked, Asks
  <2>4. RunnerFits'
    BY <1>6, <1>7, <1>9 DEF Ownership, RunnerFits
  <2> QED
    BY <2>2, <2>3, <2>4
<1>11. RetriesFit'
  BY <1>3 DEF Ownership, RetriesFit, AsksRetry, Asks
<1>12. KnownWorkIsPending'
  <2>1. \A f \in Known' : Exists(f)' /\ status'[f] = "pending"
    BY <1>8, <1>9 DEF Exists, Ownership, KnownWorkIsPending
  <2>2. \A k \in DOMAIN queue' :
          /\ OfQueue(k)' \cap OfRunner' = {}
          /\ \A m \in DOMAIN queue' : k # m => OfQueue(k)' \cap OfQueue(m)' = {}
    BY <1>2, <1>4, <1>6 DEF Ownership, KnownWorkIsPending
  <2>3. \A g \in Handler :
          /\ OfRequest(g)' \cap OfRunner' = {}
          /\ \A k \in DOMAIN queue' : OfRequest(g)' \cap OfQueue(k)' = {}
          /\ \A e \in Handler : e # g => OfRequest(g)' \cap OfRequest(e)' = {}
    BY <1>2, <1>4, <1>5, <1>6 DEF Ownership, KnownWorkIsPending
  <2> QED
    BY <2>1, <2>2, <2>3 DEF KnownWorkIsPending
<1>13. NewJobsUntouched'
  <2> SUFFICES ASSUME NEW g \in Handler, AsksNew(g)'
               PROVE  /\ NewJob(JobAsked(g))'
                      /\ FragmentsOf(JobAsked(g)') \subseteq OfRequest(g)'
                      /\ \A k \in DOMAIN queue' : queue'[k].job # JobAsked(g)'
                      /\ Busy' => task'.job # JobAsked(g)'
                      /\ \A e \in Handler : e # g /\ Asks(e)' =>
                            JobAsked(e)' # JobAsked(g)'
    BY DEF NewJobsUntouched, FragmentsOf
  <2>1. g # h /\ AsksNew(g) /\ JobAsked(g)' = JobAsked(g)
    BY <1>3 DEF AsksNew, Asks, JobAsked
  <2>2. \A e \in Handler : Asks(e)' => Asks(e) /\ JobAsked(e)' = JobAsked(e)
    BY <1>3 DEF Asks, JobAsked
  <2>3. NewJob(JobAsked(g))' = NewJob(JobAsked(g))
    BY <1>9, <2>1 DEF NewJob, FragmentsOf
  <2>4. queue'[n].job = JobAsked(h)
    BY <1>2 DEF JobAsked
  <2> QED
    BY <1>2, <1>5, <1>6, <2>1, <2>2, <2>3, <2>4
    DEF Ownership, NewJobsUntouched
<1> QED
  BY <1>10, <1>11, <1>12, <1>13 DEF Ownership

\* The runner takes over the first task of the queue.
LEMMA OwnershipTaken ==
    ASSUME CallersInv, Ownership, TakeTask
    PROVE  Ownership'
<1>1. /\ queue \in Seq(Task) /\ queue # <<>> /\ Len(queue) \in Nat
      /\ queue' = Tail(queue) /\ task' = Head(queue)
      /\ pc = "idle" /\ pc' = "begin"
      /\ UNCHANGED <<storeVars, request>>
  BY DEF TakeTask, CallersInv, TypeOK, QueueTypeOK
<1>2. /\ 1 \in DOMAIN queue /\ task' = queue[1]
      /\ \A k \in DOMAIN queue' :
            /\ k + 1 \in DOMAIN queue /\ k + 1 # 1 /\ queue'[k] = queue[k + 1]
            /\ \A m \in DOMAIN queue' : k # m => k + 1 # m + 1
  BY <1>1
<1>3. \A k \in DOMAIN queue' : OfQueue(k)' = OfQueue(k + 1)
  BY <1>2 DEF OfQueue, Rest
<1>4. OfRunner = {} /\ OfRunner' = OfQueue(1) /\ Busy'
  BY <1>1, <1>2 DEF OfRunner, OfQueue, Rest, Busy
<1>5. \A h \in Handler :
         /\ OfRequest(h)' = OfRequest(h) /\ JobAsked(h)' = JobAsked(h)
         /\ Asks(h)' = Asks(h) /\ AsksNew(h)' = AsksNew(h)
         /\ AsksRetry(h)' = AsksRetry(h)
  BY <1>1 DEF OfRequest, JobAsked, Asks, AsksNew, AsksRetry, Rest
<1>6. Known' \subseteq Known
  BY <1>2, <1>3, <1>4, <1>5, KnownParts
<1>7. \A t : TaskFits(t)' = TaskFits(t)
  BY DEF TaskFits
<1>8. UNCHANGED <<jobStatus, status, attempt>>
  BY <1>1 DEF storeVars
<1>9. QueueFits' /\ HandlersFit' /\ RunnerFits' /\ RetriesFit'
  <2>1. QueueFits'
    BY <1>2, <1>7, <1>8 DEF Ownership, QueueFits
  <2>2. RunnerFits'
    BY <1>2, <1>7, <1>8 DEF Ownership, QueueFits, RunnerFits
  <2>3. request' = request
    BY <1>1
  <2>4. HandlersFit'
    BY <1>5, <1>7, <1>8, <2>3 DEF Ownership, HandlersFit
  <2>5. RetriesFit'
    BY <1>5, <2>3 DEF Ownership, RetriesFit
  <2> QED
    BY <2>1, <2>2, <2>4, <2>5
<1>10. KnownWorkIsPending'
  <2>1. \A f \in Known' : Exists(f)' /\ status'[f] = "pending"
    BY <1>6, <1>8 DEF Exists, Ownership, KnownWorkIsPending
  <2> QED
    BY <1>2, <1>3, <1>4, <1>5, <2>1 DEF Ownership, KnownWorkIsPending
<1>11. NewJobsUntouched'
  <2>1. \A j : NewJob(j)' = NewJob(j)
    BY <1>8 DEF NewJob, FragmentsOf
  <2> QED
    BY <1>2, <1>5, <2>1, <1>1
    DEF Ownership, NewJobsUntouched, FragmentsOf, JobAsked
<1> QED
  BY <1>9, <1>10, <1>11 DEF Ownership

\* A request r with a task of fragments nobody has, whose transaction touches
\* the history of H.
GivesTask(r, H) ==
    /\ r # Idle /\ r.task \in Task
    /\ TaskFits(r.task) /\ jobStatus'[r.task.job] # "absent"
    /\ \A f \in Range(r.task.fragments) : f \notin Known /\ status'[f] = "pending"
    /\ r.kind = "retry" => DOMAIN r.previous = Range(r.task.fragments)
    /\ r.kind = "generate" =>
          /\ NewJob(r.task.job)'
          /\ FragmentsOf(r.task.job) \subseteq Range(r.task.fragments)
          /\ \A k \in DOMAIN queue : queue[k].job # r.task.job
          /\ Busy => task.job # r.task.job
          /\ \A g \in Handler : Asks(g) => JobAsked(g) # r.task.job
    /\ \A g \in Handler : AsksNew(g) =>
          JobAsked(g) # r.task.job /\ FragmentsOf(JobAsked(g)) \cap H = {}

LEMMA OwnershipGiven ==
    ASSUME CallersInv, Ownership, NEW h \in Handler, request[h] = Idle,
           NEW r, request' = [request EXCEPT ![h] = r],
           UNCHANGED <<queue, runnerVars>>,
           NEW H, LeavesAlone({}, {}, {}, H), GivesTask(r, H)
    PROVE  Ownership'
<1> USE DEF LeavesAlone, GivesTask
<1>1. \A g \in Handler : request'[g] = IF g = h THEN r ELSE request[g]
  BY DEF CallersInv, TypeOK, RequestTypeOK
<1>2. /\ \A k : OfQueue(k)' = OfQueue(k)
      /\ OfRunner' = OfRunner /\ Busy' = Busy /\ task' = task
      /\ \A t : TaskFits(t)' = TaskFits(t)
  BY DEF OfQueue, OfRunner, Busy, TaskFits, Rest, runnerVars
<1>3. /\ OfRequest(h) = {} /\ OfRequest(h)' = Range(r.task.fragments)
      /\ \A g \in Handler \ {h} : OfRequest(g)' = OfRequest(g)
  <2>1. Rest(r.task, 1) = Range(r.task.fragments)
    BY RestOfTask
  <2>2. \A g \in Handler : OfRequest(g)' = IF request'[g] = Idle THEN {}
                                           ELSE Rest(request'[g].task, 1)
    BY DEF OfRequest, Rest
  <2> QED
    BY <1>1, <2>1, <2>2 DEF OfRequest
<1>4. \A g \in Handler \ {h} :
         /\ JobAsked(g)' = JobAsked(g) /\ Asks(g)' = Asks(g)
         /\ AsksNew(g)' = AsksNew(g) /\ AsksRetry(g)' = AsksRetry(g)
  BY <1>1 DEF JobAsked, Asks, AsksNew, AsksRetry
<1>5. /\ JobAsked(h)' = r.task.job /\ Asks(h)' /\ ~Asks(h)
      /\ AsksNew(h)' => r.kind = "generate"
      /\ AsksRetry(h)' => r.kind = "retry"
  BY <1>1 DEF JobAsked, Asks, AsksNew, AsksRetry
<1>6. \A j \in Job : jobStatus[j] # "absent" => jobStatus'[j] # "absent"
  BY DEF JobsStay
<1>7. \A f \in Known' : f \in Known \/ f \in Range(r.task.fragments)
  BY <1>2, <1>3, KnownParts
<1>8. QueueFits' /\ HandlersFit' /\ RunnerFits'
  <2>1. QueueFits'
    BY <1>2, <1>6, KnownBelongs DEF Ownership, QueueFits, TaskFits, Task
  <2>2. HandlersFit'
    <3>1. \A g \in Handler : request[g] # Idle => JobAsked(g) \in Job
      BY KnownBelongs DEF Asks, JobAsked, Task
    <3> QED
      BY <1>1, <1>2, <1>6, <3>1 DEF Ownership, HandlersFit, JobAsked, Asks
  <2>3. RunnerFits'
    BY <1>2, <1>6, KnownBelongs DEF Ownership, RunnerFits, TaskFits, Task
  <2> QED
    BY <2>1, <2>2, <2>3
<1>9. RetriesFit'
  BY <1>1 DEF Ownership, RetriesFit, AsksRetry, Asks
<1>10. KnownWorkIsPending'
  <2>1. \A f \in Known' : Exists(f)' /\ status'[f] = "pending"
    <3>1. \A f \in Range(r.task.fragments) : Exists(f)'
      BY DEF TaskFits, FragmentsOf, Exists
    <3>2. \A f \in Known : Exists(f)' /\ status'[f] = "pending"
      BY <1>6, KnownBelongs, JobsAssumption
      DEF Ownership, KnownWorkIsPending, Exists, PendingStays
    <3> QED
      BY <1>7, <3>1, <3>2
  <2>2. /\ \A k \in DOMAIN queue : OfQueue(k) \subseteq Known
        /\ OfRunner \subseteq Known
        /\ \A g \in Handler : OfRequest(g) \subseteq Known
    BY KnownParts
  <2>3. \A g \in Handler :
          /\ OfRequest(g)' \cap OfRunner' = {}
          /\ \A k \in DOMAIN queue' : OfRequest(g)' \cap OfQueue(k)' = {}
          /\ \A e \in Handler : e # g => OfRequest(g)' \cap OfRequest(e)' = {}
    BY <1>2, <1>3, <2>2 DEF Ownership, KnownWorkIsPending
  <2> QED
    BY <1>2, <2>1, <2>3 DEF Ownership, KnownWorkIsPending
<1>11. NewJobsUntouched'
  <2> SUFFICES ASSUME NEW g \in Handler, AsksNew(g)'
               PROVE  /\ NewJob(JobAsked(g))'
                      /\ FragmentsOf(JobAsked(g)') \subseteq OfRequest(g)'
                      /\ \A k \in DOMAIN queue' : queue'[k].job # JobAsked(g)'
                      /\ Busy' => task'.job # JobAsked(g)'
                      /\ \A e \in Handler : e # g /\ Asks(e)' =>
                            JobAsked(e)' # JobAsked(g)'
    BY DEF NewJobsUntouched, FragmentsOf
  <2>1. CASE g = h
    <3>1. r.kind = "generate" /\ JobAsked(g)' = r.task.job
      BY <1>5, <2>1
    <3>2. NewJob(JobAsked(g))'
      BY <3>1 DEF NewJob, FragmentsOf
    <3> QED
      BY <1>2, <1>3, <1>4, <2>1, <3>1, <3>2
  <2>2. CASE g # h
    <3>1. AsksNew(g) /\ JobAsked(g)' = JobAsked(g) /\ OfRequest(g)' = OfRequest(g)
      BY <1>3, <1>4, <2>2
    <3>2. /\ NewJob(JobAsked(g)) /\ FragmentsOf(JobAsked(g)) \subseteq OfRequest(g)
          /\ JobAsked(g) \in Job
      BY <3>1, KnownBelongs
      DEF Ownership, NewJobsUntouched, AsksNew, JobAsked, Task
    <3>3. jobStatus'[JobAsked(g)] = "queued"
      BY <3>2 DEF NewStays
    <3>4. \A f \in FragmentsOf(JobAsked(g)) :
             status'[f] = "pending" /\ attempt'[f] = 0
      BY <3>1, <3>2 DEF NewJob, PendingStays, HistoryStays, FragmentsOf
    <3>5. NewJob(JobAsked(g))'
      BY <3>1, <3>3, <3>4 DEF NewJob, FragmentsOf
    <3> QED
      BY <1>2, <1>4, <1>5, <2>2, <3>1, <3>2, <3>5
      DEF Ownership, NewJobsUntouched
  <2> QED
    BY <2>1, <2>2
<1> QED
  BY <1>8, <1>9, <1>10, <1>11 DEF Ownership

\* The runner takes back its current fragment for another attempt.
LEMMA OwnershipRetried ==
    ASSUME CallersInv, Ownership, AutoRetry
    PROVE  Ownership'
<1> DEFINE f == CurrentFragment
<1>1. /\ pc = "warned" /\ pc' = "claim" /\ UNCHANGED <<task, index>> /\ Stay
      /\ PrepareAutomaticWarningRetry(f)
      /\ StoreTypeOK
  BY DEF AutoRetry, CallersInv
<1>2. f \in Fragment /\ task \in Task /\ index \in 1 .. Len(task.fragments)
  BY <1>1, CurrentFragmentType DEF CallersInv, TypeOK
<1>3. /\ status[f] = "warning" /\ status'[f] = "pending" /\ Exists(f)
      /\ status' = [status EXCEPT ![f] = "pending"]
  BY <1>1, <1>2 DEF PrepareAutomaticWarningRetry, StoreTypeOK
<1>4. LeavesAlone({}, {}, {}, {})
  BY <1>1, <1>2, OutcomeLeaves
<1>5. PICK c : c = CurrentFragment
  OBVIOUS
<1>6. /\ OfRunner' = {c} \cup OfRunner /\ c \notin Known
      /\ c \in FragmentsOf(task.job)
  <2>1. OfRunner' = Rest(task, index) /\ OfRunner = Rest(task, index + 1)
    BY <1>1 DEF OfRunner, Rest
  <2>2. /\ Rest(task, index) = {c} \cup Rest(task, index + 1)
        /\ c \in Range(task.fragments)
    BY <1>2, <1>5, RestOfTask DEF CurrentFragment
  <2>3. TaskFits(task)
    BY <1>1 DEF Ownership, RunnerFits, Busy
  <2> QED
    BY <1>3, <1>5, <2>1, <2>2, <2>3 DEF Ownership, KnownWorkIsPending, TaskFits
<1>7. /\ \A k : OfQueue(k)' = OfQueue(k)
      /\ \A h : OfRequest(h)' = OfRequest(h)
      /\ \A t : TaskFits(t)' = TaskFits(t)
      /\ queue' = queue /\ request' = request /\ task' = task
      /\ Busy /\ Busy'
  BY <1>1 DEF OfQueue, OfRequest, Rest, Stay, TaskFits, Busy
<1>8. \A j \in Job : jobStatus[j] # "absent" => jobStatus'[j] # "absent"
  BY <1>4 DEF LeavesAlone, JobsStay
<1>9. QueueFits' /\ HandlersFit' /\ RunnerFits' /\ RetriesFit'
  <2>1. QueueFits'
    BY <1>7, <1>8, KnownBelongs DEF Ownership, QueueFits, TaskFits, Task
  <2>2. HandlersFit'
    BY <1>7, <1>8, KnownBelongs
    DEF Ownership, HandlersFit, TaskFits, Task, Asks, JobAsked
  <2>3. RunnerFits'
    BY <1>7, <1>8, <1>2 DEF Ownership, RunnerFits, TaskFits, Task
  <2>4. RetriesFit'
    BY <1>7 DEF Ownership, RetriesFit, AsksRetry, Asks
  <2> QED
    BY <2>1, <2>2, <2>3, <2>4
<1>10. KnownWorkIsPending'
  <2>1. ASSUME NEW g \in Known' PROVE Exists(g)' /\ status'[g] = "pending"
    <3>1. g \in Known \cup {c}
      BY <1>6, <1>7, KnownParts
    <3>2. g \in Fragment /\ Exists(g)
      BY <1>2, <1>3, <1>5, <3>1, KnownBelongs DEF Ownership, KnownWorkIsPending
    <3>3. status'[g] = "pending"
      BY <1>3, <1>4, <1>5, <3>1, <3>2
      DEF Ownership, KnownWorkIsPending, LeavesAlone, PendingStays
    <3> QED
      BY <1>8, <3>2, <3>3, JobsAssumption DEF Exists
  <2>2. /\ \A k \in DOMAIN queue : c \notin OfQueue(k)
        /\ \A h \in Handler : c \notin OfRequest(h)
    BY <1>6, KnownParts
  <2> QED
    BY <1>6, <1>7, <2>1, <2>2 DEF Ownership, KnownWorkIsPending
<1>11. NewJobsUntouched'
  <2> SUFFICES ASSUME NEW h \in Handler, AsksNew(h) PROVE NewJob(JobAsked(h))'
    BY <1>7 DEF Ownership, NewJobsUntouched, AsksNew, Asks, JobAsked, FragmentsOf
  <2>1. /\ NewJob(JobAsked(h)) /\ JobAsked(h) \in Job
        /\ JobAsked(h)' = JobAsked(h)
    BY <1>7, KnownBelongs
    DEF Ownership, NewJobsUntouched, AsksNew, JobAsked, Task
  <2>2. jobStatus'[JobAsked(h)] = "queued"
    BY <1>4, <2>1 DEF LeavesAlone, NewStays
  <2>3. \A g \in FragmentsOf(JobAsked(h)) : status'[g] = "pending" /\ attempt'[g] = 0
    BY <1>4, <2>1
    DEF LeavesAlone, PendingStays, HistoryStays, NewJob, FragmentsOf
  <2> QED
    BY <2>1, <2>2, <2>3 DEF NewJob, FragmentsOf
<1> QED
  BY <1>9, <1>10, <1>11 DEF Ownership

-----------------------------------------------------------------------------
(* Every step.                                                             *)

LEMMA TakesNothing == TakesOwn({}, {}, {}, {})
BY DEF TakesOwn

\* A step that leaves the tables alone.
LEMMA OwnershipQuiet ==
    ASSUME CallersInv, Ownership, NothingNew, UNCHANGED storeVars
    PROVE  Ownership'
<1>1. LeavesAlone({}, {}, {}, {})
  BY QuietLeaves DEF storeVars
<1> QED
  BY <1>1, TakesNothing, OwnershipKept

LEMMA GenerateOwns ==
    ASSUME CallersInv, Ownership, NEW h \in Handler, Generate(h)
    PROVE  Ownership'
<1>1. PICK j \in Job :
         /\ CreateJob(j)
         /\ request' = [request EXCEPT ![h] =
               Enqueueing("generate", [job |-> j, fragments |-> Catalog[j]],
                          <<>>)]
  BY DEF Generate
<1> DEFINE t == [job |-> j, fragments |-> Catalog[j]]
           none == <<>>
           r == Enqueueing("generate", t, none)
<1>2. t \in Task /\ t.job = j /\ t.fragments = Catalog[j]
  BY CatalogAssumption DEF Task
<1>3. TaskFits(t) /\ Range(t.fragments) = FragmentsOf(j)
  BY <1>2, CatalogAssumption, BookAssumption DEF TaskFits
<1> HIDE DEF t
<1>4. r # Idle /\ r.kind = "generate" /\ r.task = t
  <2> DEFINE nobody == {}
  <2>1. none \in [nobody -> Retryable] /\ nobody \in SUBSET Fragment
    OBVIOUS
  <2> HIDE DEF none, nobody
  <2> QED
    BY <1>2, <2>1, EnqueueingType
<1> HIDE DEF none
<1>5. request' = [request EXCEPT ![h] = r]
  BY <1>1 DEF t, none
<1> HIDE DEF r
<1>6. /\ request[h] = Idle /\ UNCHANGED <<queue, runnerVars>>
      /\ jobStatus[j] = "absent" /\ StoreTypeOK
  BY <1>1 DEF Generate, CreateJob, CallersInv
<1>7. LeavesAlone({}, {}, {}, FragmentsOf(j)) /\ NewJob(j)'
  BY <1>1, <1>6, CreateLeaves
<1>8. \A f \in FragmentsOf(j) : f \notin Known
  BY <1>6 DEF Ownership, KnownWorkIsPending, Exists, FragmentsOf
<1>9. \A f \in Range(r.task.fragments) : f \notin Known /\ status'[f] = "pending"
  BY <1>3, <1>4, <1>7, <1>8 DEF NewJob, FragmentsOf
<1>10. /\ \A k \in DOMAIN queue : queue[k].job # j
       /\ Busy => task.job # j
       /\ \A g \in Handler : Asks(g) => JobAsked(g) # j
  BY <1>6 DEF Ownership, QueueFits, RunnerFits, HandlersFit
<1>11. \A g \in Handler : AsksNew(g) =>
          JobAsked(g) # j /\ FragmentsOf(JobAsked(g)) \cap FragmentsOf(j) = {}
  BY <1>10 DEF AsksNew, FragmentsOf
<1>12. jobStatus'[j] # "absent"
  BY <1>7 DEF NewJob
<1>13. NewJob(t.job)'
  BY <1>2, <1>7 DEF NewJob, FragmentsOf
<1>14. GivesTask(r, FragmentsOf(j))
  BY <1>2, <1>3, <1>4, <1>9, <1>10, <1>11, <1>12, <1>13 DEF GivesTask
<1> QED
  BY <1>5, <1>6, <1>7, <1>14, OwnershipGiven

LEMMA RetryOwns ==
    ASSUME CallersInv, Ownership, NEW h \in Handler, Retry(h)
    PROVE  Ownership'
<1>1. PICK j \in Job :
         \E chosen \in Selections({f \in FragmentsOf(j) :
                                      attempt[f] < MaxAttempts}) :
            /\ PrepareRetry(j, Range(chosen))
            /\ request' = [request EXCEPT ![h] =
                  Enqueueing("retry", [job |-> j, fragments |-> chosen],
                             [f \in Range(chosen) |-> status[f]])]
  BY DEF Retry
<1>2. PICK chosen \in Selections({f \in FragmentsOf(j) :
                                     attempt[f] < MaxAttempts}) :
         /\ PrepareRetry(j, Range(chosen))
         /\ request' = [request EXCEPT ![h] =
               Enqueueing("retry", [job |-> j, fragments |-> chosen],
                          [f \in Range(chosen) |-> status[f]])]
  BY <1>1
<1> DEFINE t == [job |-> j, fragments |-> chosen]
           previous == [f \in Range(chosen) |-> status[f]]
           r == Enqueueing("retry", t, previous)
<1>3. /\ chosen \in Seq(Fragment) /\ Range(chosen) \in SUBSET FragmentsOf(j)
      /\ IsInjective(chosen)
  <2>1. {f \in FragmentsOf(j) : attempt[f] < MaxAttempts} \in SUBSET Fragment
    BY DEF FragmentsOf
  <2>2. chosen \in Seq(Fragment) /\ Range(chosen) \in SUBSET FragmentsOf(j)
    BY <2>1, SelectionType
  <2>3. IsInjective(chosen)
    BY DEF Selections, Injection, IsInjective
  <2> QED
    BY <2>2, <2>3
<1>4. t \in Task /\ t.job = j /\ t.fragments = chosen /\ TaskFits(t)
  <2>1. chosen # <<>>
    BY <1>2 DEF PrepareRetry, Range
  <2> QED
    BY <1>3, <2>1 DEF Task, TaskFits
<1> HIDE DEF t
<1>5. \A f \in Range(chosen) : status[f] \in Retryable
  BY <1>2 DEF PrepareRetry
<1>6. /\ r # Idle /\ r.kind = "retry" /\ r.task = t /\ r.previous = previous
      /\ DOMAIN previous = Range(chosen)
  <2>1. previous \in [Range(chosen) -> Retryable] /\ DOMAIN previous = Range(chosen)
    BY <1>5
  <2>2. Range(chosen) \in SUBSET Fragment
    BY <1>3 DEF FragmentsOf
  <2> HIDE DEF previous
  <2> QED
    BY <1>4, <2>1, <2>2, EnqueueingType
<1> HIDE DEF previous
<1>7. request' = [request EXCEPT ![h] = r]
  BY <1>2 DEF t, previous
<1> HIDE DEF r
<1>8. /\ request[h] = Idle /\ UNCHANGED <<queue, runnerVars>> /\ StoreTypeOK
      /\ jobStatus[j] # "absent" /\ ~Active(j)
      /\ status' = [f \in Fragment |->
                      IF f \in Range(chosen) THEN "pending" ELSE status[f]]
  BY <1>2 DEF Retry, PrepareRetry, CallersInv
<1>9. LeavesAlone({}, {}, {}, {})
  BY <1>2, <1>3, <1>8, RetryLeaves
<1>10. \A f \in Range(r.task.fragments) : f \notin Known /\ status'[f] = "pending"
  BY <1>3, <1>4, <1>5, <1>6, <1>8
  DEF Ownership, KnownWorkIsPending, Retryable, FragmentsOf
<1>11. \A g \in Handler : AsksNew(g) => JobAsked(g) # j
  BY <1>8 DEF Ownership, NewJobsUntouched, NewJob, Active
<1>12. jobStatus'[j] # "absent"
  BY <1>8, <1>9 DEF LeavesAlone, JobsStay
<1>13. GivesTask(r, {})
  BY <1>4, <1>6, <1>10, <1>11, <1>12 DEF GivesTask
<1> QED
  BY <1>7, <1>8, <1>9, <1>13, OwnershipGiven

LEMMA EnqueueOwns ==
    ASSUME CallersInv, Ownership, NEW h \in Handler, Enqueue(h)
    PROVE  Ownership'
<1>1. Asks(h) /\ request[h].pc = "enqueue" /\ UNCHANGED <<storeVars, runnerVars>>
  BY RequestFields DEF CallersInv, TypeOK, Asks, Enqueue
<1>2. CASE ~closed /\ Len(queue) < QueueSize
  BY <1>1, <1>2, OwnershipQueued DEF Enqueue
<1>3. CASE ~(~closed /\ Len(queue) < QueueSize)
  <2>1. queue' = queue /\ request' = [request EXCEPT ![h] = Refused(request[h])]
    BY <1>3 DEF Enqueue
  <2>2. \A g \in Handler : Asks(g)' => Asks(g) /\ SameRequest(g)
    <3>1. /\ Refused(request[h]).kind = request[h].kind
          /\ Refused(request[h]).task = request[h].task
          /\ Refused(request[h]).previous = request[h].previous
      BY <1>1, RequestFields DEF CallersInv, TypeOK
    <3> QED
      BY <1>1, <2>1, <3>1
      DEF Asks, SameRequest, CallersInv, TypeOK, RequestTypeOK
  <2>3. OfRunner' = OfRunner /\ Busy' = Busy /\ task' = task
    BY <1>1 DEF OfRunner, Busy, Rest, runnerVars
  <2>4. NothingNew
    BY <2>1, <2>2, <2>3 DEF NothingNew
  <2> QED
    BY <1>1, <2>4, OwnershipQuiet
<1> QED
  BY <1>2, <1>3

LEMMA CompensateOwns ==
    ASSUME CallersInv, Ownership, NEW h \in Handler,
           Compensate(h) \/ CompensateFails(h)
    PROVE  Ownership'
<1>1. /\ request' = [request EXCEPT ![h] = Idle]
      /\ UNCHANGED <<queue, runnerVars>>
      /\ request[h].pc = "compensate" /\ StoreTypeOK
  BY DEF Compensate, CompensateFails, CallersInv
<1>2. /\ Asks(h) /\ request[h].task \in Task
      /\ request[h].kind \in {"generate", "retry"}
      /\ JobAsked(h) \in Job
  BY <1>1, RequestFields DEF CallersInv, TypeOK, Asks, JobAsked, Task
<1>3. \A g \in Handler : request'[g] = IF g = h THEN Idle ELSE request[g]
  BY <1>1 DEF CallersInv, TypeOK, RequestTypeOK
<1>4. OfRunner' = OfRunner /\ Busy' = Busy /\ task' = task
  BY <1>1 DEF OfRunner, Busy, Rest, runnerVars
<1>5. NothingNew
  BY <1>1, <1>3, <1>4 DEF NothingNew, SameRequest, Asks
<1>6. PICK j : j = JobAsked(h)
  OBVIOUS
<1>7. \A g \in Handler : Asks(g)' =>
         Asks(g) /\ g # h /\ JobAsked(g)' = JobAsked(g) /\ AsksNew(g)' = AsksNew(g)
  BY <1>3 DEF Asks, AsksNew, JobAsked
<1>8. CASE CompensateFails(h)
  BY <1>5, <1>8, OwnershipQuiet DEF CompensateFails
<1>9. CASE Compensate(h) /\ request[h].kind = "generate"
  <2>1. DeleteJob(j)
    BY <1>6, <1>9 DEF Compensate, JobAsked
  <2>2. LeavesAlone({}, {j}, {j}, FragmentsOf(j))
    BY <1>1, <1>2, <1>6, <2>1, DeleteLeaves
  <2>3. /\ \A k \in DOMAIN queue : queue[k].job # j
        /\ Busy => task.job # j
        /\ \A g \in Handler : g # h /\ Asks(g) => JobAsked(g) # j
    BY <1>2, <1>6, <1>9 DEF Ownership, NewJobsUntouched, AsksNew
  <2>4. TakesOwn({}, {j}, {j}, FragmentsOf(j))
    BY <1>1, <1>4, <1>7, <2>3 DEF TakesOwn, AsksNew, FragmentsOf
  <2> QED
    BY <1>5, <2>2, <2>4, OwnershipKept
<1>10. CASE Compensate(h) /\ request[h].kind = "retry"
  <2>1. PICK previous : previous = request[h].previous
    OBVIOUS
  <2>2. CancelRetry(j, previous)
    BY <1>6, <1>10, <2>1 DEF Compensate, JobAsked
  <2>3. LeavesAlone(DOMAIN previous, {}, {j}, {})
    BY <1>1, <1>2, <1>6, <2>2, CancelLeaves
  <2>4. DOMAIN previous = OfRequest(h)
    BY <1>2, <1>10, <2>1, KnownBelongs DEF Ownership, RetriesFit, AsksRetry
  <2>5. DOMAIN previous \cap Known' = {}
    <3>1. /\ OfRequest(h)' = {} /\ \A k : OfQueue(k)' = OfQueue(k)
          /\ \A g \in Handler \ {h} : OfRequest(g)' = OfRequest(g)
      BY <1>1, <1>3 DEF OfRequest, OfQueue, Rest
    <3> QED
      BY <1>1, <1>4, <2>4, <3>1, KnownParts DEF Ownership, KnownWorkIsPending
  <2>6. \A g \in Handler : AsksNew(g)' => JobAsked(g)' # j
    BY <1>2, <1>6, <1>7 DEF Ownership, NewJobsUntouched, AsksNew
  <2>7. TakesOwn(DOMAIN previous, {}, {j}, {})
    BY <2>5, <2>6 DEF TakesOwn
  <2> QED
    BY <1>5, <2>3, <2>7, OwnershipKept
<1> QED
  BY <1>2, <1>8, <1>9, <1>10

LEMMA OneTransactionOwns ==
    ASSUME CallersInv, Ownership, Client \/ Rewriter
    PROVE  Ownership'
<1>1. UNCHANGED <<queue, request, runnerVars>>
  BY DEF Client, Rewriter
<1>2. OfRunner' = OfRunner /\ Busy' = Busy /\ task' = task
  BY <1>1 DEF OfRunner, Busy, Rest, runnerVars
<1>3. NothingNew
  BY <1>1, <1>2 DEF NothingNew, SameRequest, Asks
<1>4. LeavesAlone({}, {}, {}, {})
  BY ClientLeaves DEF CallersInv
<1> QED
  BY <1>3, <1>4, TakesNothing, OwnershipKept

\* A handler that is told of an error has no task, though its job or retry
\* was committed.
LEMMA ScheduleFailsOwns ==
    ASSUME CallersInv, Ownership, NEW h \in Handler, ScheduleFails(h)
    PROVE  Ownership'
<1>1. UNCHANGED <<queue, request, runnerVars>>
  BY ScheduledUnheard
<1>2. OfRunner' = OfRunner /\ Busy' = Busy /\ task' = task
  BY <1>1 DEF OfRunner, Busy, Rest, runnerVars
<1>3. NothingNew
  BY <1>1, <1>2 DEF NothingNew, SameRequest, Asks
<1>4. PICK j \in Job : \/ CreateJob(j)
                      \/ \E S \in SUBSET FragmentsOf(j) : PrepareRetry(j, S)
  BY ScheduledUnheard
<1>5. CASE CreateJob(j)
  <2>1. LeavesAlone({}, {}, {}, FragmentsOf(j)) /\ jobStatus[j] = "absent"
    BY <1>5, CreateLeaves DEF CallersInv, CreateJob
  <2>2. \A g \in Handler : AsksNew(g)' =>
           JobAsked(g)' = JobAsked(g) /\ JobAsked(g) # j
    BY <1>1, <2>1 DEF Ownership, NewJobsUntouched, NewJob, AsksNew, Asks, JobAsked
  <2>3. TakesOwn({}, {}, {}, FragmentsOf(j))
    BY <2>2 DEF TakesOwn, FragmentsOf
  <2> QED
    BY <1>3, <2>1, <2>3, OwnershipKept
<1>6. ASSUME NEW S \in SUBSET FragmentsOf(j), PrepareRetry(j, S)
      PROVE  Ownership'
  BY <1>3, <1>6, RetryLeaves, TakesNothing, OwnershipKept DEF CallersInv
<1> QED
  BY <1>4, <1>5, <1>6

\* A step of the runner within its task, or to its end.
LEMMA RunnerStepsOn ==
    ASSUME CallersInv, Stay,
           \/ ToIdle
           \/ pc' = "exited"
           \/ pc = "begin" /\ ToFragment(task, 1) /\ UNCHANGED task
           \/ /\ pc \in {"claim", "work", "warned"}
              /\ \/ NextFragment
                 \/ /\ UNCHANGED <<task, index>>
                    /\ \/ pc = "claim" /\ pc' = "work"
                       \/ pc = "work" /\ pc' = "warned"
    PROVE  NothingNew
<1>1. \A h \in Handler : Asks(h)' => Asks(h) /\ SameRequest(h)
  BY DEF Stay, Asks, SameRequest
<1>2. /\ Busy' => Busy /\ task' = task
      /\ OfRunner' \subseteq OfRunner
  <2>1. CASE ToIdle \/ pc' = "exited"
    BY <2>1 DEF ToIdle, Busy, OfRunner
  <2>2. CASE pc = "begin" /\ ToFragment(task, 1) /\ UNCHANGED task
    BY <2>2 DEF ToFragment, Busy, OfRunner, Rest
  <2>3. CASE pc \in {"claim", "work", "warned"}
    <3>1. task \in Task /\ index \in 1 .. Len(task.fragments)
      BY <2>3, CurrentFragmentType DEF CallersInv, TypeOK
    <3>2. Rest(task, index + 1) \subseteq Rest(task, index)
      BY <3>1, RestOfTask
    <3>3. CASE NextFragment
      <4>1. OfRunner' = IF pc' = "claim" THEN Rest(task, index + 1) ELSE {}
        BY <3>3 DEF NextFragment, ToFragment, OfRunner, Rest
      <4> QED
        BY <2>3, <3>2, <3>3, <4>1
        DEF NextFragment, ToFragment, Busy, OfRunner
    <3>4. CASE /\ UNCHANGED <<task, index>>
               /\ \/ pc = "claim" /\ pc' = "work"
                  \/ pc = "work" /\ pc' = "warned"
      <4>1. OfRunner' = Rest(task, index + 1)
        BY <3>4 DEF OfRunner, Rest
      <4> QED
        BY <3>2, <3>4, <4>1 DEF Busy, OfRunner
    <3> QED
      BY <2>1, <2>3, <3>3, <3>4
  <2> QED
    BY <2>1, <2>2, <2>3
<1> QED
  BY <1>1, <1>2 DEF NothingNew, Stay

\* Starting its current fragment, or finding it started, the runner goes past
\* it.
LEMMA ClaimOwns ==
    ASSUME CallersInv, Ownership, pc = "claim", NothingNew, Stay,
           OfRunner' \subseteq Rest(task, index + 1),
           StartFragment(CurrentFragment)
    PROVE  Ownership'
<1>1. PICK c : c = CurrentFragment
  OBVIOUS
<1>2. /\ c \in Fragment /\ task \in Task /\ index \in 1 .. Len(task.fragments)
      /\ StoreTypeOK
  BY <1>1, CurrentFragmentType DEF CallersInv, TypeOK
<1>3. LeavesAlone({c}, {}, {}, {c})
  BY <1>1, <1>2, StartLeaves
<1>4. /\ c \in Rest(task, index) /\ c \notin Rest(task, index + 1)
      /\ c \in FragmentsOf(task.job) /\ Busy
  BY <1>1, <1>2, RestOfTask
  DEF CurrentFragment, Ownership, RunnerFits, TaskFits, Busy
<1>5. OfRunner = Rest(task, index)
  BY DEF OfRunner
<1>6. c \notin Known'
  <2>1. /\ \A k : OfQueue(k)' = OfQueue(k)
        /\ \A h : OfRequest(h)' = OfRequest(h)
        /\ queue' = queue
    BY DEF OfQueue, OfRequest, Rest, Stay
  <2> QED
    BY <1>4, <1>5, <2>1, KnownParts DEF Ownership, KnownWorkIsPending
<1>7. \A h \in Handler : AsksNew(h)' => JobAsked(h)' # task.job
  BY <1>4 DEF Stay, AsksNew, Asks, JobAsked, Ownership, NewJobsUntouched
<1>8. TakesOwn({c}, {}, {}, {c})
  BY <1>4, <1>6, <1>7 DEF TakesOwn, FragmentsOf
<1> QED
  BY <1>3, <1>8, OwnershipKept

LEMMA RunnerOwns ==
    ASSUME CallersInv, Ownership, Runner
    PROVE  Ownership'
<1>1. CASE \/ LoopExit \/ Abandon \/ EndTaskFails
           \/ (DropTask \/ AutoRetryRejected) /\ UNCHANGED storeVars
  <2>1. NothingNew
    BY <1>1, RunnerStepsOn
    DEF LoopExit, DropTask, Abandon, AutoRetryRejected, EndTaskFails
  <2>2. UNCHANGED storeVars
    BY <1>1 DEF LoopExit, Abandon, EndTaskFails
  <2> QED
    BY <2>1, <2>2, OwnershipQuiet
<1>2. CASE BeginTask \/ EndTask \/ (DropTask /\ StartTask(task.job))
  <2>1. NothingNew
    BY <1>2, RunnerStepsOn DEF BeginTask, EndTask, DropTask
  <2>2. PICK j : j = task.job
    OBVIOUS
  <2>3. j \in Job /\ Busy /\ Stay
    BY <1>2, <2>2, KnownBelongs DEF BeginTask, EndTask, DropTask, Busy, Task
  <2>4. LeavesAlone({}, {}, {j}, {})
    BY <1>2, <2>2, <2>3, TaskLeaves DEF BeginTask, EndTask, CallersInv
  <2>5. TakesOwn({}, {}, {j}, {})
    BY <2>2, <2>3
    DEF TakesOwn, Stay, AsksNew, Asks, JobAsked, Ownership, NewJobsUntouched
  <2> QED
    BY <2>1, <2>4, <2>5, OwnershipKept
<1>3. CASE ClaimFragment \/ (SkipFragment /\ StartFragment(CurrentFragment))
  <2>1. /\ pc = "claim" /\ Stay /\ StartFragment(CurrentFragment)
        /\ NextFragment \/ (pc' = "work" /\ UNCHANGED <<task, index>>)
    BY <1>3 DEF ClaimFragment, SkipFragment
  <2>2. NothingNew
    BY <2>1, RunnerStepsOn
  <2>3. OfRunner' \subseteq Rest(task, index + 1)
    BY <2>1 DEF NextFragment, ToFragment, OfRunner, Rest
  <2> QED
    BY <2>1, <2>2, <2>3, ClaimOwns
<1>4. CASE \/ SkipFragment /\ ~StartFragment(CurrentFragment)
           \/ \E c \in {""} \cup ValidationCode : Complete(c)
           \/ Fail \/ LoseResult
           \/ AutoRetryRejected /\ ~UNCHANGED storeVars
  <2>1. /\ pc \in {"claim", "work", "warned"} /\ Stay
        /\ NextFragment \/ (pc = "work" /\ pc' = "warned" /\ UNCHANGED <<task, index>>)
    BY <1>4 DEF SkipFragment, Complete, Fail, LoseResult, AutoRetryRejected
  <2>2. NothingNew
    BY <2>1, RunnerStepsOn
  <2>3. /\ CurrentFragment \in Fragment /\ StoreTypeOK
        /\ pc = "work" => item \in Text
    BY <2>1, CurrentFragmentType DEF CallersInv, TypeOK, RunnerTypeOK
  <2>4. \/ UNCHANGED storeVars
        \/ \E c \in {""} \cup ValidationCode :
              CompleteFragment(CurrentFragment, item, c) /\ pc = "work"
        \/ FailFragment(CurrentFragment)
        \/ PrepareAutomaticWarningRetry(CurrentFragment)
    BY <1>4 DEF SkipFragment, Complete, Fail, LoseResult, AutoRetryRejected
  <2>5. LeavesAlone({}, {}, {}, {})
    <3>1. CASE UNCHANGED storeVars
      BY <3>1, QuietLeaves DEF storeVars
    <3>2. CASE ~UNCHANGED storeVars
      BY <2>3, <2>4, <3>2, OutcomeLeaves
    <3> QED
      BY <3>1, <3>2
  <2> QED
    BY <2>2, <2>5, TakesNothing, OwnershipKept
<1> QED
  BY <1>1, <1>2, <1>3, <1>4, OwnershipTaken, OwnershipRetried, DroppedTask
  DEF Runner

LEMMA ProcessOwns ==
    ASSUME CallersInv, Ownership, Close \/ Restart
    PROVE  Ownership'
<1>1. UNCHANGED storeVars
  BY DEF Close, Restart
<1>2. CASE Close
  <2>1. OfRunner' = OfRunner /\ Busy' = Busy /\ task' = task
    BY <1>2 DEF Close, OfRunner, Busy, Rest, runnerVars
  <2>2. NothingNew
    BY <1>2, <2>1 DEF Close, NothingNew, SameRequest, Asks
  <2> QED
    BY <1>1, <2>2, OwnershipQuiet
<1>3. CASE Restart
  <2>1. NothingNew
    BY <1>3 DEF Restart, ToIdle, NothingNew, OfRunner, Busy, Asks
  <2> QED
    BY <1>1, <2>1, OwnershipQuiet
<1> QED
  BY <1>2, <1>3

LEMMA OwnershipInit == Init => Ownership
<1> SUFFICES ASSUME Init PROVE Ownership
  OBVIOUS
<1>1. /\ queue = <<>> /\ \A h \in Handler : request[h] = Idle
      /\ pc = "idle"
  BY DEF Init
<1>2. DOMAIN queue = {}
  BY <1>1
<1>3. \A f : f \notin Known
  BY <1>1, <1>2, KnownParts DEF OfRunner, OfRequest
<1> QED
  BY <1>1, <1>2, <1>3
  DEF Ownership, QueueFits, HandlersFit, RunnerFits, RetriesFit,
      NewJobsUntouched, KnownWorkIsPending, Asks, AsksNew, AsksRetry, Busy,
      OfRequest

LEMMA OwnershipStep == CallersInv /\ Ownership /\ [Next]_vars => Ownership'
<1> SUFFICES ASSUME CallersInv, Ownership, [Next]_vars
             PROVE  Ownership'
  OBVIOUS
<1>1. CASE Next
  BY <1>1, GenerateOwns, RetryOwns, EnqueueOwns, CompensateOwns,
     ScheduleFailsOwns, OneTransactionOwns, RunnerOwns, ProcessOwns DEF Next
<1>2. CASE UNCHANGED vars
  <2>1. OfRunner' = OfRunner /\ Busy' = Busy /\ task' = task
    BY <1>2 DEF vars, OfRunner, Busy, Rest, runnerVars
  <2>2. NothingNew
    BY <1>2, <2>1 DEF vars, NothingNew, SameRequest, Asks
  <2> QED
    BY <1>2, <2>2, OwnershipQuiet DEF vars
<1> QED
  BY <1>1, <1>2

\* A fragment some task has still to generate is pending in a job that is
\* there, and no two tasks have it: whatever is refused, cancelled, lost or
\* restarted, no task generates what another one does or has done.
THEOREM KnownWorkAlwaysPending == Spec => []KnownWorkIsPending
<1>1. Ownership => KnownWorkIsPending
  BY DEF Ownership
<1> QED
  BY <1>1, OwnershipInit, OwnershipStep, CallersInit, CallersStep, PTL DEF Spec

\* When a refused generate call deletes its job, nothing of the job has been
\* generated and no task of it is queued or being processed.
THEOREM UndoneJobAlwaysUntouched == Spec => []UndoneJobIsUntouched
<1>1. CallersInv /\ Ownership => UndoneJobIsUntouched
  <2> SUFFICES ASSUME CallersInv, Ownership, NEW h \in Handler,
                      request[h].pc = "compensate",
                      request[h].kind = "generate"
               PROVE  LET j == request[h].task.job
                      IN  /\ \A f \in FragmentsOf(j) : attempt[f] = 0
                          /\ \A k \in DOMAIN queue : queue[k].job # j
                          /\ task # NoTask => task.job # j
    BY DEF UndoneJobIsUntouched
  <2>1. AsksNew(h)
    BY RequestFields DEF AsksNew, Asks, CallersInv, TypeOK
  <2>2. task # NoTask => Busy
    BY DEF CallersInv, TypeOK, RunnerTypeOK, Busy
  <2> QED
    BY <2>1, <2>2 DEF Ownership, NewJobsUntouched, NewJob, JobAsked
<1> QED
  BY <1>1, OwnershipInit, OwnershipStep, CallersInit, CallersStep, PTL DEF Spec
-----------------------------------------------------------------------------
(***************************************************************************)
(* What becomes of the work: accepted audio is kept, a ready fragment is   *)
(* ready on the merits of its latest attempt, an automatic retry follows   *)
(* a warning, and a job that shows it is active has something to do.       *)
(* These hold under every fault.  Without faults no work is forgotten, and *)
(* generation and rewriting keep out of each other's way.                  *)
(*                                                                         *)
(* The proofs look at the program through the transactions its steps make  *)
(* (NextTransactions), which rest on the ownership of tasks.               *)
(***************************************************************************)
(* The transactions of a step.                                             *)

\* A transaction that neither inserts, deletes, starts nor cancels anything.
OtherTransaction ==
    \/ \E j \in Job :
          \/ FinishTask(j)
          \/ \E S \in SUBSET FragmentsOf(j) :
                \/ PrepareRetry(j, S)
                \/ CreateRewriteTask(j, S)
          \/ DeleteRewriteTask(j)
    \/ \E f \in Fragment : FragmentStep(f) /\ ~StartFragment(f)

LEMMA StartCounts ==
    ASSUME StoreTypeOK, NEW f \in Fragment, StartFragment(f)
    PROVE  attempt' # attempt
<1>1. attempt'[f] = attempt[f] + 1 /\ attempt[f] \in Nat
  BY DEF StartFragment, StoreTypeOK
<1> QED
  BY <1>1

\* Only an absent job is inserted, only a new one that the runner does not
\* have is deleted, only a handler's own retry is cancelled, and only the
\* runner starts tasks and fragments.
LEMMA NextTransactions ==
    ASSUME CallersInv, Ownership, Next
    PROVE  \/ UNCHANGED storeVars
           \/ \E j \in Job : CreateJob(j)
           \/ \E j \in Job : /\ DeleteJob(j) /\ NewJob(j)
                             /\ Busy => task.job # j
           \/ pc = "begin" /\ StartTask(task.job) /\ Runner
           \/ /\ pc = "claim" /\ StartFragment(CurrentFragment) /\ Runner
              /\ pc' # "claim" \/ index' # index
           \/ \E h \in Handler : /\ AsksRetry(h) /\ Compensate(h)
                                  /\ CancelRetry(JobAsked(h), request[h].previous)
           \/ OtherTransaction
<1>1. ASSUME NEW h \in Handler, Generate(h)
      PROVE  \E j \in Job : CreateJob(j)
  BY <1>1 DEF Generate
<1>2. ASSUME NEW h \in Handler, Retry(h) PROVE OtherTransaction
  <2>1. PICK j \in Job :
           \E chosen \in Selections({f \in FragmentsOf(j) :
                                        attempt[f] < MaxAttempts}) :
              PrepareRetry(j, Range(chosen))
    BY <1>2 DEF Retry
  <2>2. PICK S : PrepareRetry(j, S)
    BY <2>1
  <2>3. S \in SUBSET FragmentsOf(j)
    BY <2>2 DEF PrepareRetry
  <2> QED
    BY <2>2, <2>3 DEF OtherTransaction
<1>3. ASSUME NEW h \in Handler, Compensate(h)
      PROVE  \/ \E j \in Job : /\ DeleteJob(j) /\ NewJob(j)
                               /\ Busy => task.job # j
             \/ /\ AsksRetry(h)
                /\ CancelRetry(JobAsked(h), request[h].previous)
  <2>1. /\ Asks(h) /\ request[h].kind \in {"generate", "retry"}
        /\ JobAsked(h) \in Job
    BY <1>3, RequestFields
    DEF CallersInv, TypeOK, Asks, Compensate, JobAsked, Task
  <2>2. CASE request[h].kind = "generate"
    <3>1. DeleteJob(JobAsked(h))
      BY <1>3, <2>2 DEF Compensate, JobAsked
    <3>2. NewJob(JobAsked(h)) /\ (Busy => task.job # JobAsked(h))
      BY <2>1, <2>2 DEF Ownership, NewJobsUntouched, AsksNew
    <3> QED
      BY <2>1, <3>1, <3>2
  <2>3. CASE request[h].kind = "retry"
    BY <1>3, <2>1, <2>3 DEF Compensate, JobAsked, AsksRetry
  <2> QED
    BY <2>1, <2>2, <2>3
<1>4. CASE Client
  <2>1. PICK f \in Fragment :
           \/ \E t \in Text : EditFragment(f, t)
           \/ \E n \in DOMAIN revisions[f] : RestoreFragmentRevision(f, n)
           \/ ApproveFragment(f)
    BY <1>4 DEF Client
  <2>2. FragmentStep(f)
    BY <2>1 DEF FragmentStep
  <2>3. UNCHANGED attempt
    BY <2>1 DEF EditFragment, RestoreFragmentRevision, ApproveFragment
  <2> QED
    BY <2>2, <2>3, StartCounts DEF OtherTransaction, CallersInv
<1>5. CASE Rewriter
  <2>1. UNCHANGED attempt
    BY <1>5
    DEF Rewriter, CreateRewriteTask, DeleteRewriteTask,
        CompleteRewriteFragment, FailRewriteFragment
  <2>2. \/ \E j \in Job : \E S \in SUBSET FragmentsOf(j) : CreateRewriteTask(j, S)
        \/ \E j \in Job : DeleteRewriteTask(j)
        \/ \E f \in Fragment : FragmentStep(f)
    BY <1>5 DEF Rewriter, FragmentStep
  <2> QED
    BY <2>1, <2>2, StartCounts DEF OtherTransaction, CallersInv
<1>6. CASE Runner
  <2>1. RunnerTypeOK
    BY DEF CallersInv, TypeOK
  <2>2. CASE TakeTask \/ LoopExit \/ Abandon \/ EndTaskFails
    BY <2>2 DEF TakeTask, LoopExit, Abandon, EndTaskFails
  <2>3. CASE BeginTask \/ DropTask
    BY <1>6, <2>3, DroppedTask DEF BeginTask, DropTask
  <2>4. CASE EndTask
    BY <2>1, <2>4 DEF EndTask, RunnerTypeOK, Task, OtherTransaction
  <2>5. CASE ClaimFragment \/ SkipFragment
    <3>1. pc = "claim" => index \in Nat
      BY <2>1, CurrentFragmentType DEF Task
    <3> QED
      BY <1>6, <2>5, <3>1
      DEF ClaimFragment, SkipFragment, NextFragment, ToFragment
  <2>6. CASE \/ \E c \in {""} \cup ValidationCode : Complete(c)
             \/ Fail \/ LoseResult \/ AutoRetry \/ AutoRetryRejected
    <3>1. pc \in {"work", "warned"} /\ CurrentFragment \in Fragment
          /\ (pc = "work" => item \in Text)
      BY <2>1, <2>6, CurrentFragmentType
      DEF Complete, Fail, LoseResult, AutoRetry, AutoRetryRejected, RunnerTypeOK
    <3>2. \/ UNCHANGED storeVars
          \/ /\ pc = "work"
             /\ \E c \in {""} \cup ValidationCode :
                   CompleteFragment(CurrentFragment, item, c)
          \/ FailFragment(CurrentFragment)
          \/ PrepareAutomaticWarningRetry(CurrentFragment)
      BY <2>6 DEF Complete, Fail, LoseResult, AutoRetry, AutoRetryRejected
    <3>3. UNCHANGED storeVars \/ FragmentStep(CurrentFragment)
      BY <3>1, <3>2 DEF FragmentStep
    <3>4. ~UNCHANGED storeVars => ~StartFragment(CurrentFragment)
      BY <3>2
      DEF StartFragment, CompleteFragment, FailFragment,
          PrepareAutomaticWarningRetry
    <3> QED
      BY <3>1, <3>3, <3>4 DEF OtherTransaction
  <2> QED
    BY <1>6, <2>2, <2>3, <2>4, <2>5, <2>6 DEF Runner
<1>7. ASSUME \/ \E h \in Handler : Enqueue(h) \/ CompensateFails(h)
             \/ Close \/ Restart
      PROVE  UNCHANGED storeVars
  BY <1>7 DEF Enqueue, CompensateFails, Close, Restart
<1>8. ASSUME NEW h \in Handler, ScheduleFails(h)
      PROVE  (\E j \in Job : CreateJob(j)) \/ OtherTransaction
  BY <1>8, ScheduledUnheard DEF OtherTransaction
<1> QED
  BY <1>1, <1>2, <1>3, <1>4, <1>5, <1>6, <1>7, <1>8 DEF Next

-----------------------------------------------------------------------------
(* Jobs that are not there.                                                *)

\* The rows of a job that is not there are those of a new one, which no
\* rewrite task has touched.
AbsentIsFresh ==
    \A j \in Job : jobStatus[j] = "absent" =>
        rewriting[j] = {} /\ \A f \in FragmentsOf(j) : status[f] = "pending"

LEMMA AbsentInit == StoreInit => AbsentIsFresh
<1>1. StoreInit => /\ \A j \in Job : rewriting[j] = {}
                   /\ \A f \in Fragment : status[f] = "pending"
  BY DEF StoreInit
<1> QED
  BY <1>1 DEF AbsentIsFresh, FragmentsOf

\* A transaction on a job that is there.
LEMMA AbsentKept ==
    ASSUME StoreTypeOK, AbsentIsFresh, NEW j \in Job, jobStatus[j] # "absent",
           NEW final \in JobStatus,
           jobStatus' = [jobStatus EXCEPT ![j] = final] \/ jobStatus' = jobStatus,
           \A k \in Job \ {j} : rewriting'[k] = rewriting[k],
           \A f \in Fragment \ FragmentsOf(j) : status'[f] = status[f]
    PROVE  AbsentIsFresh'
<1>1. \A k \in Job : jobStatus'[k] = "absent" => jobStatus[k] = "absent" /\ k # j
  BY DEF StoreTypeOK, JobStatus
<1> QED
  BY <1>1 DEF AbsentIsFresh, FragmentsOf

LEMMA AbsentJobStep ==
    ASSUME StoreTypeOK, AbsentIsFresh, NEW j \in Job, JobStep(j)
    PROVE  AbsentIsFresh'
<1>1. CASE CreateJob(j) \/ DeleteJob(j)
  <2>1. /\ rewriting'[j] = {}
        /\ \A k \in Job \ {j} : rewriting'[k] = rewriting[k]
                                /\ jobStatus'[k] = jobStatus[k]
    BY <1>1 DEF CreateJob, DeleteJob, FreshRows, StoreTypeOK
  <2>2. /\ \A f \in FragmentsOf(j) : status'[f] = "pending"
        /\ \A f \in Fragment \ FragmentsOf(j) : status'[f] = status[f]
    BY <1>1, FreshLeaves DEF CreateJob, DeleteJob
  <2> QED
    BY <2>1, <2>2 DEF AbsentIsFresh, FragmentsOf
<1>2. CASE StartTask(j)
  BY <1>2, AbsentKept DEF StartTask, JobStatus
<1>3. CASE FinishTask(j)
  BY <1>3, AbsentKept, StatusForType DEF FinishTask, Recompute, RecomputeTo
<1>4. ASSUME NEW S \in SUBSET FragmentsOf(j), PrepareRetry(j, S)
      PROVE  AbsentIsFresh'
  BY <1>4, AbsentKept DEF PrepareRetry, RecomputeTo, FragmentsOf, JobStatus
<1>5. ASSUME NEW S \in SUBSET FragmentsOf(j), CreateRewriteTask(j, S)
      PROVE  AbsentIsFresh'
  <2>1. /\ jobStatus[j] # "absent" /\ jobStatus' = jobStatus /\ status' = status
        /\ \A k \in Job \ {j} : rewriting'[k] = rewriting[k]
    BY <1>5 DEF CreateRewriteTask, StoreTypeOK
  <2> QED
    BY <2>1 DEF AbsentIsFresh
<1>6. ASSUME NEW previous, CancelRetry(j, previous)
      PROVE  AbsentIsFresh'
  <2>1. CASE jobStatus[j] = "absent"
    BY <1>6, <2>1 DEF CancelRetry, storeVars, AbsentIsFresh
  <2>2. CASE jobStatus[j] # "absent"
    <3>1. /\ jobStatus' = [jobStatus EXCEPT ![j] = StatusFor(j, status')]
          /\ rewriting' = rewriting
          /\ \A f \in Fragment \ FragmentsOf(j) : status'[f] = status[f]
      BY <1>6, <2>2 DEF CancelRetry, Recompute, RecomputeTo, FragmentsOf
    <3> QED
      BY <2>2, <3>1, AbsentKept, StatusForType
  <2> QED
    BY <2>1, <2>2
<1>7. CASE DeleteRewriteTask(j)
  BY <1>7 DEF DeleteRewriteTask, AbsentIsFresh, StoreTypeOK
<1> QED
  BY <1>1, <1>2, <1>3, <1>4, <1>5, <1>6, <1>7 DEF JobStep

LEMMA AbsentFragmentStep ==
    ASSUME StoreTypeOK, AbsentIsFresh, NEW f \in Fragment, FragmentStep(f)
    PROVE  AbsentIsFresh'
<1>1. JobOf[f] \in Job
  BY JobsAssumption
<1>2. jobStatus[JobOf[f]] # "absent"
  BY <1>1
  DEF FragmentStep, StartFragment, CompleteFragment, FailFragment,
      PrepareAutomaticWarningRetry, EditFragment, RestoreFragmentRevision,
      ApproveFragment, CompleteRewriteFragment, FailRewriteFragment, Exists,
      AbsentIsFresh
<1>3. \/ Recompute(JobOf[f], status') \/ Recompute(JobOf[f], status)
      \/ \E final \in {"queued", "running"} : RecomputeTo(JobOf[f], status', final)
      \/ jobStatus' = jobStatus
  <2>1. ASSUME NEW n \in DOMAIN revisions[f], RestoreFragmentRevision(f, n)
        PROVE  \/ Recompute(JobOf[f], status')
               \/ RecomputeTo(JobOf[f], status', "queued")
    BY <2>1 DEF RestoreFragmentRevision, Recompute
  <2> QED
    BY <2>1
    DEF FragmentStep, StartFragment, CompleteFragment, FailFragment,
        PrepareAutomaticWarningRetry, EditFragment, ApproveFragment,
        CompleteRewriteFragment, FailRewriteFragment
<1>4. \E final \in JobStatus :
         \/ jobStatus' = [jobStatus EXCEPT ![JobOf[f]] = final]
         \/ jobStatus' = jobStatus
  BY <1>3, StatusForType DEF Recompute, RecomputeTo, JobStatus
<1>5. \E new : status' = [status EXCEPT ![f] = new]
  <2>1. status = [status EXCEPT ![f] = status[f]]
    BY DEF StoreTypeOK
  <2> QED
    BY <2>1
    DEF FragmentStep, StartFragment, CompleteFragment, FailFragment,
        PrepareAutomaticWarningRetry, EditFragment, RestoreFragmentRevision,
        ApproveFragment, CompleteRewriteFragment, FailRewriteFragment
<1>6. \A g \in Fragment \ FragmentsOf(JobOf[f]) : status'[g] = status[g]
  BY <1>5 DEF FragmentsOf, StoreTypeOK
<1>7. \A k \in Job \ {JobOf[f]} : rewriting'[k] = rewriting[k]
  BY DEF StoreTypeOK,
      FragmentStep, StartFragment, CompleteFragment, FailFragment,
      PrepareAutomaticWarningRetry, EditFragment, RestoreFragmentRevision,
      ApproveFragment, CompleteRewriteFragment, FailRewriteFragment
<1> QED
  BY <1>1, <1>2, <1>4, <1>6, <1>7, AbsentKept

LEMMA AbsentStep ==
    StoreTypeOK /\ AbsentIsFresh /\ [StoreNext]_storeVars => AbsentIsFresh'
<1> SUFFICES ASSUME StoreTypeOK, AbsentIsFresh, [StoreNext]_storeVars
             PROVE  AbsentIsFresh'
  OBVIOUS
<1>1. CASE StoreNext
  BY <1>1, AbsentJobStep, AbsentFragmentStep DEF StoreNext
<1>2. CASE UNCHANGED storeVars
  BY <1>2 DEF storeVars, AbsentIsFresh
<1> QED
  BY <1>1, <1>2

-----------------------------------------------------------------------------
(* What was accepted is kept.                                              *)

ReadyStays ==
    \A f \in Fragment : status[f] = "ready" =>
        \/ status'[f] = "ready" /\ audio'[f] = audio[f]
        \/ \E n \in DOMAIN revisions[f] : RestoreFragmentRevision(f, n)

\* Rows that are not ready, or stay as they are, are no concern of it.
LEMMA ReadyUntouched ==
    ASSUME StoreTypeOK, NEW f \in Fragment, status[f] # "ready",
           NEW new, status' = [status EXCEPT ![f] = new],
           NEW sound, audio' = [audio EXCEPT ![f] = sound]
    PROVE  ReadyStays
BY DEF ReadyStays, StoreTypeOK

LEMMA FragmentStepReady ==
    ASSUME StoreTypeOK, NEW f \in Fragment, FragmentStep(f)
    PROVE  ReadyStays
<1>1. audio = [audio EXCEPT ![f] = audio[f]]
      /\ status = [status EXCEPT ![f] = status[f]]
  BY DEF StoreTypeOK
<1>2. CASE StartFragment(f) \/ FailFragment(f)
           \/ PrepareAutomaticWarningRetry(f) \/ ApproveFragment(f)
  <2>1. /\ status[f] # "ready" /\ audio' = audio
        /\ \E new : status' = [status EXCEPT ![f] = new]
    BY <1>2 DEF StartFragment, FailFragment, PrepareAutomaticWarningRetry,
                ApproveFragment
  <2> QED
    BY <1>1, <2>1, ReadyUntouched
<1>3. ASSUME NEW spoken, NEW c, CompleteFragment(f, spoken, c)
      PROVE  ReadyStays
  <2>1. /\ status[f] # "ready"
        /\ \E new : status' = [status EXCEPT ![f] = new]
        /\ audio' = [audio EXCEPT ![f] = spoken]
    BY <1>3 DEF CompleteFragment
  <2> QED
    BY <2>1, ReadyUntouched
<1>4. ASSUME NEW t \in Text, EditFragment(f, t)
      PROVE  ReadyStays
  <2>1. /\ status[f] # "ready"
        /\ status' = [status EXCEPT ![f] = "warning"]
        /\ audio' = [audio EXCEPT ![f] = NoAudio]
    BY <1>4 DEF EditFragment, SetText, Retryable
  <2> QED
    BY <2>1, ReadyUntouched
<1>5. ASSUME NEW n \in DOMAIN revisions[f], RestoreFragmentRevision(f, n)
      PROVE  ReadyStays
  <2>1. /\ status' = [status EXCEPT ![f] = RestoredStatus(status[f])]
        /\ audio' = [audio EXCEPT ![f] = NoAudio]
    BY <1>5 DEF RestoreFragmentRevision, SetText
  <2>2. \A g \in Fragment \ {f} : status'[g] = status[g] /\ audio'[g] = audio[g]
    BY <2>1 DEF StoreTypeOK
  <2> QED
    BY <1>5, <2>2 DEF ReadyStays
<1>6. ASSUME NEW t \in Text, CompleteRewriteFragment(f, text[f], t)
      PROVE  ReadyStays
  <2>1. status[f] # "ready" /\ status' = status
    BY <1>6 DEF CompleteRewriteFragment
  <2>2. \E sound : audio' = [audio EXCEPT ![f] = sound]
    BY <1>1, <1>6 DEF CompleteRewriteFragment, SetText
  <2> QED
    BY <1>1, <2>1, <2>2, ReadyUntouched
<1>7. CASE FailRewriteFragment(f)
  BY <1>7 DEF FailRewriteFragment, ReadyStays
<1> QED
  BY <1>2, <1>3, <1>4, <1>5, <1>6, <1>7 DEF FragmentStep

LEMMA OtherReady ==
    ASSUME StoreTypeOK, OtherTransaction
    PROVE  ReadyStays
<1>1. ASSUME NEW j \in Job, FinishTask(j) \/ DeleteRewriteTask(j)
      PROVE  ReadyStays
  BY <1>1 DEF FinishTask, DeleteRewriteTask, ReadyStays
<1>2. ASSUME NEW j \in Job, NEW S \in SUBSET FragmentsOf(j),
             PrepareRetry(j, S) \/ CreateRewriteTask(j, S)
      PROVE  ReadyStays
  BY <1>2 DEF PrepareRetry, CreateRewriteTask, ReadyStays, Retryable
<1> QED
  BY <1>1, <1>2, FragmentStepReady DEF OtherTransaction

LEMMA AcceptedStep ==
    ASSUME CallersInv, Ownership, AbsentIsFresh, [Next]_vars
    PROVE  ReadyStays
<1>1. StoreTypeOK /\ RunnerTypeOK
  BY DEF CallersInv, TypeOK
<1>2. ASSUME NEW j \in Job, FreshRows(j),
             \A f \in FragmentsOf(j) : status[f] = "pending"
      PROVE  ReadyStays
  BY <1>2 DEF FreshRows, Inserted, FragmentsOf, ReadyStays
<1>3. CASE Next
  <2>1. CASE UNCHANGED storeVars
    BY <2>1 DEF storeVars, ReadyStays
  <2>2. ASSUME NEW j \in Job, CreateJob(j) \/ (DeleteJob(j) /\ NewJob(j))
        PROVE  ReadyStays
    BY <1>2, <2>2 DEF CreateJob, DeleteJob, AbsentIsFresh, NewJob
  <2>3. CASE StartTask(task.job)
    BY <2>3 DEF StartTask, ReadyStays
  <2>4. CASE pc = "claim" /\ StartFragment(CurrentFragment)
    BY <1>1, <2>4, CurrentFragmentType, FragmentStepReady DEF FragmentStep
  <2>5. CASE OtherTransaction
    BY <1>1, <2>5, OtherReady
  <2>6. ASSUME NEW j, NEW previous, CancelRetry(j, previous)
        PROVE  ReadyStays
    BY <2>6 DEF CancelRetry, storeVars, ReadyStays
  <2> QED
    BY <1>3, <2>1, <2>2, <2>3, <2>4, <2>5, <2>6, NextTransactions
<1>4. CASE UNCHANGED vars
  BY <1>4 DEF vars, storeVars, ReadyStays
<1> QED
  BY <1>3, <1>4

\* A ready fragment stays ready with the same audio whatever tasks, handlers
\* and faults do, until a person restores an older text for it: the commits
\* that a refused handler undoes, and the retries that are cancelled, hit
\* nothing that was accepted.
THEOREM AcceptedAlwaysStays == Spec => AcceptedStays
<1>1. Init => AbsentIsFresh
  BY AbsentInit DEF Init
<1>2. CallersInv /\ AbsentIsFresh /\ [Next]_vars => AbsentIsFresh'
  BY CallersStep, AbsentStep DEF CallersInv
<1>3. CallersInv /\ Ownership /\ AbsentIsFresh /\ [Next]_vars => [ReadyStays]_vars
  BY AcceptedStep
<1>4. Spec => [][ReadyStays]_vars
  BY <1>1, <1>2, <1>3, OwnershipInit, OwnershipStep, CallersInit, CallersStep,
     PTL DEF Spec
<1> QED
  BY <1>4 DEF AcceptedStays, ReadyStays

-----------------------------------------------------------------------------
(* Merits.                                                                 *)

\* The validation of attempt a of fragment f gave a warning.
Warned(f, a) ==
    \E r \in log[f] : r.attempt = a /\ r.outcome \in ValidationCode

Justified(f) ==
    \E r \in log[f] :
        /\ r.attempt = attempt[f]
        /\ \/ r.outcome = "ready"
           \/ r.outcome \in ValidationCode /\ attempt[f] \in approved[f]

\* What may be approved has its warning from the latest attempt, and what is
\* ready its merit.
RowFits(f) ==
    /\ status[f] = "warning" /\ audio[f] # NoAudio => Warned(f, attempt[f])
    /\ status[f] = "ready" => Justified(f)
RowsFit == \A f \in Fragment : RowFits(f)

\* The same of what an undone retry would make a warning again.
WarnedBefore(previous, f) ==
    previous[f] = "warning" /\ audio[f] # NoAudio => Warned(f, attempt[f])
PreviousFits ==
    \A h \in Handler : AsksRetry(h) =>
        \A f \in DOMAIN request[h].previous : WarnedBefore(request[h].previous, f)

\* A row keeps its merit with its history.
HistoryKept(f) ==
    /\ attempt'[f] = attempt[f]
    /\ log[f] \subseteq log'[f] /\ approved[f] \subseteq approved'[f]

LEMMA MeritKept ==
    ASSUME NEW f, HistoryKept(f)
    PROVE  /\ \A a : Warned(f, a) => Warned(f, a)'
           /\ Warned(f, attempt[f]) => Warned(f, attempt[f])'
           /\ Justified(f) => Justified(f)'
BY DEF HistoryKept, Warned, Justified

\* A row whose status and audio do not gain by a step fits after it.
LEMMA RowKept ==
    ASSUME NEW f, RowFits(f), HistoryKept(f),
           status'[f] \in {"warning", "ready"} => status'[f] = status[f],
           audio'[f] # NoAudio => audio[f] # NoAudio
    PROVE  RowFits(f)'
BY MeritKept DEF RowFits

LEMMA FreshRowsFit ==
    ASSUME StoreTypeOK, RowsFit, NEW j, FreshRows(j)
    PROVE  RowsFit'
<1> SUFFICES ASSUME NEW f \in Fragment PROVE RowFits(f)'
  BY DEF RowsFit
<1>1. CASE JobOf[f] = j
  BY <1>1 DEF FreshRows, Inserted, RowFits
<1>2. CASE JobOf[f] # j
  <2>1. /\ HistoryKept(f) /\ status'[f] = status[f] /\ audio'[f] = audio[f]
    BY <1>2 DEF FreshRows, Inserted, HistoryKept, StoreTypeOK
  <2> QED
    BY <2>1, RowKept DEF RowsFit
<1> QED
  BY <1>1, <1>2

\* A cancelled retry gives fragments back what they had.
LEMMA CancelRowsFit ==
    ASSUME StoreTypeOK, RowsFit, NEW j \in Job, NEW previous,
           CancelRetry(j, previous),
           \A f \in DOMAIN previous :
              previous[f] \in Retryable /\ WarnedBefore(previous, f)
    PROVE  RowsFit'
<1> SUFFICES ASSUME NEW f \in Fragment PROVE RowFits(f)'
  BY DEF RowsFit
<1>1. HistoryKept(f) /\ audio'[f] = audio[f]
  BY DEF CancelRetry, storeVars, HistoryKept
<1>2. status'[f] = status[f] \/ (f \in DOMAIN previous /\ status'[f] = previous[f])
  BY DEF CancelRetry, storeVars
<1>3. CASE status'[f] = status[f]
  BY <1>1, <1>3, RowKept DEF RowsFit
<1>4. CASE f \in DOMAIN previous /\ status'[f] = previous[f]
  BY <1>1, <1>4, MeritKept DEF RowFits, WarnedBefore, Retryable
<1> QED
  BY <1>2, <1>3, <1>4

\* A transaction on one fragment that keeps its history.
LEMMA OneRowFits ==
    ASSUME StoreTypeOK, RowsFit, NEW f \in Fragment,
           NEW new, status' = [status EXCEPT ![f] = new],
           NEW sound, audio' = [audio EXCEPT ![f] = sound],
           \A g \in Fragment \ {f} : HistoryKept(g),
           RowFits(f)'
    PROVE  RowsFit'
<1> SUFFICES ASSUME NEW g \in Fragment \ {f} PROVE RowFits(g)'
  BY DEF RowsFit
<1>1. HistoryKept(g) /\ status'[g] = status[g] /\ audio'[g] = audio[g]
  BY DEF StoreTypeOK
<1> QED
  BY <1>1, RowKept DEF RowsFit

LEMMA FragmentRowsFit ==
    ASSUME StoreTypeOK, RowsFit, NEW f \in Fragment, FragmentStep(f)
    PROVE  RowsFit'
<1>1. audio = [audio EXCEPT ![f] = audio[f]]
      /\ status = [status EXCEPT ![f] = status[f]]
      /\ RowFits(f)
  BY DEF StoreTypeOK, RowsFit
<1>2. CASE StartFragment(f)
  <2>1. /\ status' = [status EXCEPT ![f] = "generating"] /\ audio' = audio
        /\ \A g \in Fragment \ {f} : HistoryKept(g)
    BY <1>2 DEF StartFragment, HistoryKept, StoreTypeOK
  <2>2. RowFits(f)'
    BY <2>1 DEF RowFits, StoreTypeOK
  <2> QED
    BY <1>1, <2>1, <2>2, OneRowFits
<1>3. ASSUME NEW spoken, NEW c \in {""} \cup ValidationCode,
             CompleteFragment(f, spoken, c)
      PROVE  RowsFit'
  <2> DEFINE outcome == IF c = "" THEN "ready" ELSE c
             new == IF c = "" THEN "ready" ELSE "warning"
             row == [attempt |-> attempt[f], outcome |-> outcome]
  <2>1. /\ status' = [status EXCEPT ![f] = new]
        /\ audio' = [audio EXCEPT ![f] = spoken]
        /\ InsertAttempt(f, outcome)
        /\ UNCHANGED <<attempt, approved>>
    BY <1>3 DEF CompleteFragment
  <2>2. /\ \A g \in Fragment : HistoryKept(g)
        /\ row \in log'[f]
    BY <2>1, LogGrows DEF HistoryKept
  <2>3. status'[f] = new /\ attempt'[f] = attempt[f]
    BY <2>1 DEF StoreTypeOK
  <2>4. RowFits(f)'
    <3>1. CASE c = ""
      BY <2>2, <2>3, <3>1 DEF RowFits, Justified
    <3>2. CASE c # ""
      BY <2>2, <2>3, <3>2 DEF RowFits, Warned
    <3> QED
      BY <3>1, <3>2
  <2> QED
    BY <2>1, <2>2, <2>4, OneRowFits
<1>4. CASE FailFragment(f)
  <2>1. /\ status' = [status EXCEPT ![f] = "failed"] /\ audio' = audio
        /\ \A g \in Fragment : HistoryKept(g)
    BY <1>4, LogGrows DEF FailFragment, HistoryKept
  <2>2. RowFits(f)'
    BY <2>1 DEF RowFits, StoreTypeOK
  <2> QED
    BY <1>1, <2>1, <2>2, OneRowFits
<1>5. CASE PrepareAutomaticWarningRetry(f)
  <2>1. /\ status' = [status EXCEPT ![f] = "pending"] /\ audio' = audio
        /\ \A g \in Fragment : HistoryKept(g)
    BY <1>5 DEF PrepareAutomaticWarningRetry, HistoryKept
  <2>2. RowFits(f)'
    BY <2>1 DEF RowFits, StoreTypeOK
  <2> QED
    BY <1>1, <2>1, <2>2, OneRowFits
<1>6. CASE ApproveFragment(f)
  <2>1. /\ status[f] = "warning" /\ audio[f] # NoAudio
        /\ status' = [status EXCEPT ![f] = "ready"] /\ audio' = audio
        /\ approved' = [approved EXCEPT ![f] = approved[f] \cup {attempt[f]}]
        /\ UNCHANGED <<attempt, log>>
    BY <1>6 DEF ApproveFragment
  <2>2. \A g \in Fragment : HistoryKept(g)
    BY <2>1 DEF HistoryKept, StoreTypeOK
  <2>3. status'[f] = "ready" /\ attempt[f] \in approved'[f]
    BY <2>1 DEF StoreTypeOK
  <2>4. RowFits(f)'
    BY <1>1, <2>1, <2>3 DEF RowFits, Warned, Justified
  <2> QED
    BY <1>1, <2>1, <2>2, <2>4, OneRowFits
<1>7. ASSUME NEW t, SetText(f, t), status'[f] # "ready",
             UNCHANGED <<attempt, log, approved>>,
             NEW new, status' = [status EXCEPT ![f] = new]
      PROVE  RowsFit'
  <2>1. /\ audio' = [audio EXCEPT ![f] = NoAudio]
        /\ \A g \in Fragment : HistoryKept(g)
    BY <1>7 DEF SetText, HistoryKept
  <2>2. RowFits(f)'
    BY <1>7, <2>1 DEF RowFits, StoreTypeOK
  <2> QED
    BY <1>7, <2>1, <2>2, OneRowFits
<1>8. ASSUME NEW t \in Text, EditFragment(f, t) PROVE RowsFit'
  <2>1. /\ SetText(f, t) /\ status' = [status EXCEPT ![f] = "warning"]
        /\ UNCHANGED <<attempt, log, approved>>
    BY <1>8 DEF EditFragment
  <2>2. status'[f] # "ready"
    BY <2>1 DEF StoreTypeOK
  <2> QED
    BY <1>7, <2>1, <2>2
<1>9. ASSUME NEW n \in DOMAIN revisions[f], RestoreFragmentRevision(f, n)
      PROVE  RowsFit'
  <2>1. /\ SetText(f, revisions[f][n])
        /\ status' = [status EXCEPT ![f] = RestoredStatus(status[f])]
        /\ UNCHANGED <<attempt, log, approved>>
    BY <1>9 DEF RestoreFragmentRevision
  <2>2. status'[f] # "ready"
    BY <2>1 DEF StoreTypeOK, RestoredStatus
  <2> QED
    BY <1>7, <2>1, <2>2
<1>10. ASSUME NEW t \in Text, CompleteRewriteFragment(f, text[f], t)
       PROVE  RowsFit'
  <2>1. /\ status[f] = "warning" /\ status' = status
        /\ UNCHANGED <<attempt, log, approved>>
    BY <1>10 DEF CompleteRewriteFragment
  <2>2. CASE t = text[f]
    <3>1. audio' = audio
      BY <1>10, <2>2 DEF CompleteRewriteFragment
    <3> QED
      BY <2>1, <3>1, RowKept DEF RowsFit, HistoryKept
  <2>3. CASE t # text[f]
    <3>1. SetText(f, t)
      BY <1>10, <2>3 DEF CompleteRewriteFragment
    <3> QED
      BY <1>1, <1>7, <2>1, <3>1
  <2> QED
    BY <2>2, <2>3
<1>11. CASE FailRewriteFragment(f)
  <2>1. UNCHANGED <<status, audio, attempt, log, approved>>
    BY <1>11 DEF FailRewriteFragment
  <2> QED
    BY <2>1, RowKept DEF RowsFit, HistoryKept
<1> QED
  BY <1>2, <1>3, <1>4, <1>5, <1>6, <1>8, <1>9, <1>10, <1>11 DEF FragmentStep

LEMMA OtherRowsFit ==
    ASSUME StoreTypeOK, RowsFit, OtherTransaction
    PROVE  RowsFit'
<1>1. ASSUME UNCHANGED <<status, audio, attempt, log, approved>>
      PROVE  RowsFit'
  BY <1>1, RowKept DEF RowsFit, HistoryKept
<1>2. ASSUME NEW j \in Job, FinishTask(j) \/ DeleteRewriteTask(j)
      PROVE  RowsFit'
  BY <1>1, <1>2 DEF FinishTask, DeleteRewriteTask
<1>3. ASSUME NEW j \in Job, NEW S \in SUBSET FragmentsOf(j),
             CreateRewriteTask(j, S)
      PROVE  RowsFit'
  BY <1>1, <1>3 DEF CreateRewriteTask
<1>4. ASSUME NEW j \in Job, NEW S \in SUBSET FragmentsOf(j), PrepareRetry(j, S)
      PROVE  RowsFit'
  <2>1. /\ \A f \in Fragment : status'[f] \in {"pending", status[f]}
        /\ UNCHANGED <<audio, attempt, log, approved>>
    BY <1>4 DEF PrepareRetry
  <2> QED
    BY <2>1, RowKept DEF RowsFit, HistoryKept
<1> QED
  BY <1>2, <1>3, <1>4, FragmentRowsFit DEF OtherTransaction

\* The requests of handlers come from the two scheduling calls.
LEMMA RequestsKept ==
    ASSUME CallersInv, [Next]_vars, NEW h \in Handler, Asks(h)'
    PROVE  Generate(h) \/ Retry(h) \/ (Asks(h) /\ SameRequest(h))
<1>1. RequestTypeOK
  BY DEF CallersInv, TypeOK
<1>2. ASSUME NEW g \in Handler, Generate(g) \/ Retry(g)
      PROVE  g = h \/ (Asks(h) /\ SameRequest(h))
  <2>1. \E r : request' = [request EXCEPT ![g] = r]
    BY <1>2 DEF Generate, Retry
  <2> QED
    BY <1>1, <2>1 DEF RequestTypeOK, Asks, SameRequest
<1>3. ASSUME NEW g \in Handler, Enqueue(g)
      PROVE  Asks(h) /\ SameRequest(h)
  <2>1. /\ Asks(g)
        /\ \/ request' = [request EXCEPT ![g] = Idle]
           \/ request' = [request EXCEPT ![g] = Refused(request[g])]
    BY <1>1, <1>3, RequestFields DEF Enqueue, Asks
  <2>2. /\ Refused(request[g]).kind = request[g].kind
        /\ Refused(request[g]).task = request[g].task
        /\ Refused(request[g]).previous = request[g].previous
    BY <1>1, <1>3, RequestFields DEF Enqueue
  <2> QED
    BY <1>1, <2>1, <2>2 DEF RequestTypeOK, Asks, SameRequest
<1>4. ASSUME NEW g \in Handler, Compensate(g) \/ CompensateFails(g)
      PROVE  Asks(h) /\ SameRequest(h)
  BY <1>1, <1>4
  DEF Compensate, CompensateFails, RequestTypeOK, Asks, SameRequest
<1>5. CASE Client \/ Rewriter \/ Close \/ UNCHANGED vars
  BY <1>5 DEF Client, Rewriter, Close, vars, Asks, SameRequest
<1>6. CASE Runner
  BY <1>6
  DEF Runner, TakeTask, LoopExit, BeginTask, DropTask, ClaimFragment,
      SkipFragment, Abandon, Complete, Fail, LoseResult, AutoRetry,
      AutoRetryRejected, EndTask, EndTaskFails, Stay, Asks, SameRequest
<1>7. ~Restart
  BY DEF Restart, Asks
<1>8. ASSUME NEW g \in Handler, ScheduleFails(g)
      PROVE  Asks(h) /\ SameRequest(h)
  BY <1>8, ScheduledUnheard DEF Asks, SameRequest
<1> QED
  BY <1>2, <1>3, <1>4, <1>5, <1>6, <1>7, <1>8 DEF Next

\* A fragment that stays pending keeps its history, or loses its audio.
LEMMA PendingKept ==
    ASSUME StoreTypeOK, [StoreNext]_storeVars, NEW f \in Fragment,
           status[f] = "pending", status'[f] = "pending"
    PROVE  \/ audio'[f] = NoAudio
           \/ /\ audio'[f] = audio[f] /\ attempt'[f] = attempt[f]
              /\ log[f] \subseteq log'[f]
<1>1. CASE UNCHANGED storeVars
  BY <1>1 DEF storeVars
<1>2. ASSUME NEW j \in Job, FreshRows(j)
      PROVE  audio'[f] = NoAudio \/ UNCHANGED <<audio[f], attempt[f], log[f]>>
  BY <1>2 DEF FreshRows, Inserted
<1>3. ASSUME NEW j \in Job, JobStep(j), ~FreshRows(j)
      PROVE  UNCHANGED <<audio, attempt, log>>
  BY <1>3
  DEF JobStep, CreateJob, DeleteJob, StartTask, FinishTask, PrepareRetry,
      CreateRewriteTask, CancelRetry, DeleteRewriteTask, storeVars
<1>4. ASSUME NEW g \in Fragment, FragmentStep(g)
      PROVE  \/ audio'[f] = NoAudio
             \/ /\ audio'[f] = audio[f] /\ attempt'[f] = attempt[f]
                /\ log[f] \subseteq log'[f]
  <2>1. CASE StartFragment(g)
    <3>1. g # f
      BY <2>1 DEF StartFragment, StoreTypeOK
    <3> QED
      BY <2>1, <3>1 DEF StartFragment, StoreTypeOK
  <2>2. ASSUME NEW spoken, NEW c, CompleteFragment(g, spoken, c)
        PROVE  UNCHANGED <<audio[f], attempt[f]>> /\ log[f] \subseteq log'[f]
    <3>1. g # f
      BY <2>2 DEF CompleteFragment
    <3>2. \A e \in Fragment : log[e] \subseteq log'[e]
      BY <2>2, LogGrows DEF CompleteFragment
    <3> QED
      BY <2>2, <3>1, <3>2 DEF CompleteFragment, StoreTypeOK
  <2>3. CASE FailFragment(g)
    BY <2>3, LogGrows DEF FailFragment
  <2>4. CASE PrepareAutomaticWarningRetry(g) \/ ApproveFragment(g)
             \/ FailRewriteFragment(g)
    BY <2>4
    DEF PrepareAutomaticWarningRetry, ApproveFragment, FailRewriteFragment
  <2>5. ASSUME NEW t, SetText(g, t), UNCHANGED <<attempt, log>>
        PROVE  audio'[f] = NoAudio \/ UNCHANGED <<audio[f], attempt[f], log[f]>>
    BY <2>5 DEF SetText, StoreTypeOK
  <2>6. ASSUME NEW t \in Text, EditFragment(g, t)
        PROVE  SetText(g, t) /\ UNCHANGED <<attempt, log>>
    BY <2>6 DEF EditFragment
  <2>7. ASSUME NEW n \in DOMAIN revisions[g], RestoreFragmentRevision(g, n)
        PROVE  SetText(g, revisions[g][n]) /\ UNCHANGED <<attempt, log>>
    BY <2>7 DEF RestoreFragmentRevision
  <2>8. ASSUME NEW t \in Text, CompleteRewriteFragment(g, text[g], t)
        PROVE  (audio' = audio \/ SetText(g, t)) /\ UNCHANGED <<attempt, log>>
    BY <2>8 DEF CompleteRewriteFragment
  <2> QED
    BY <1>4, <2>1, <2>2, <2>3, <2>4, <2>5, <2>6, <2>7, <2>8 DEF FragmentStep
<1> QED
  BY <1>1, <1>2, <1>3, <1>4 DEF StoreNext

LEMMA MeritStep ==
    ASSUME CallersInv, Ownership, Ownership', RowsFit, PreviousFits, [Next]_vars
    PROVE  RowsFit' /\ PreviousFits'
<1>1. StoreTypeOK /\ RunnerTypeOK /\ RequestTypeOK
  BY DEF CallersInv, TypeOK
<1>2. RowsFit'
  <2>1. CASE UNCHANGED storeVars
    BY <2>1, RowKept DEF storeVars, RowsFit, HistoryKept
  <2>2. ASSUME NEW j \in Job, CreateJob(j) \/ DeleteJob(j)
        PROVE  RowsFit'
    BY <1>1, <2>2, FreshRowsFit DEF CreateJob, DeleteJob
  <2>3. CASE StartTask(task.job)
    BY <2>3, RowKept DEF StartTask, RowsFit, HistoryKept
  <2>4. CASE pc = "claim" /\ StartFragment(CurrentFragment)
    BY <1>1, <2>4, CurrentFragmentType, FragmentRowsFit DEF FragmentStep
  <2>5. ASSUME NEW h \in Handler, AsksRetry(h),
               CancelRetry(JobAsked(h), request[h].previous)
        PROVE  RowsFit'
    <3>1. PICK j, previous : j = JobAsked(h) /\ previous = request[h].previous
      OBVIOUS
    <3>2. j \in Job
      BY <2>5, <3>1, KnownBelongs DEF AsksRetry, JobAsked, Task
    <3>3. \A f \in DOMAIN previous :
             previous[f] \in Retryable /\ WarnedBefore(previous, f)
      <4>1. \E S \in SUBSET FragmentsOf(j) : previous \in [S -> Retryable]
        BY <2>5, <3>1 DEF CallersInv, RequestsFit, AsksRetry, Asks, JobAsked
      <4> QED
        BY <2>5, <3>1, <4>1 DEF PreviousFits
    <3> QED
      BY <1>1, <2>5, <3>1, <3>2, <3>3, CancelRowsFit
  <2>6. CASE OtherTransaction
    BY <1>1, <2>6, OtherRowsFit
  <2>7. CASE UNCHANGED vars
    BY <2>1, <2>7 DEF vars
  <2> QED
    BY <2>1, <2>2, <2>3, <2>4, <2>5, <2>6, <2>7, NextTransactions
<1>3. PreviousFits'
  <2> SUFFICES ASSUME NEW h \in Handler, AsksRetry(h)',
                      NEW f \in DOMAIN request'[h].previous
               PROVE  WarnedBefore(request[h].previous, f)'
    BY DEF PreviousFits, WarnedBefore, Warned
  <2>1. CASE Generate(h)
    <3>1. \E t : request' = [request EXCEPT ![h] = Enqueueing("generate", t, <<>>)]
      BY <2>1 DEF Generate
    <3>2. request'[h].kind = "generate"
      BY <1>1, <3>1 DEF RequestTypeOK, Enqueueing
    <3> QED
      BY <3>2 DEF AsksRetry
  <2>2. CASE Retry(h)
    <3>1. PICK j \in Job :
             \E chosen \in Selections({e \in FragmentsOf(j) :
                                          attempt[e] < MaxAttempts}) :
                /\ PrepareRetry(j, Range(chosen))
                /\ request' = [request EXCEPT ![h] =
                      Enqueueing("retry", [job |-> j, fragments |-> chosen],
                                 [e \in Range(chosen) |-> status[e]])]
      BY <2>2 DEF Retry
    <3>2. PICK chosen :
             /\ PrepareRetry(j, Range(chosen))
             /\ request' = [request EXCEPT ![h] =
                   Enqueueing("retry", [job |-> j, fragments |-> chosen],
                              [e \in Range(chosen) |-> status[e]])]
      BY <3>1
    <3>3. request'[h].previous = [e \in Range(chosen) |-> status[e]]
      BY <1>1, <3>2 DEF RequestTypeOK, Enqueueing
    <3>4. Range(chosen) \subseteq Fragment /\ UNCHANGED <<audio, attempt, log>>
      BY <3>2 DEF PrepareRetry, FragmentsOf
    <3>5. f \in Fragment /\ request'[h].previous[f] = status[f]
      BY <3>3, <3>4
    <3> QED
      BY <3>4, <3>5 DEF RowsFit, RowFits, WarnedBefore, Warned
  <2>3. CASE Asks(h) /\ SameRequest(h)
    <3>1. /\ AsksRetry(h) /\ request'[h].previous = request[h].previous
          /\ OfRequest(h)' = OfRequest(h)
      BY <2>3 DEF AsksRetry, Asks, SameRequest, OfRequest, Rest
    <3>2. f \in OfRequest(h) /\ f \in Fragment
      BY <3>1, KnownBelongs DEF AsksRetry, Ownership, RetriesFit, FragmentsOf
    <3>3. f \in Known /\ f \in Known'
      BY <3>1, <3>2, KnownParts
    <3>4. status[f] = "pending" /\ status'[f] = "pending"
      BY <3>3 DEF Ownership, KnownWorkIsPending
    <3>5. \/ audio'[f] = NoAudio
          \/ /\ audio'[f] = audio[f] /\ attempt'[f] = attempt[f]
             /\ log[f] \subseteq log'[f]
      BY <1>1, <3>2, <3>4, CallersStep, PendingKept
    <3>6. WarnedBefore(request[h].previous, f)
      BY <3>1 DEF PreviousFits
    <3> QED
      BY <3>1, <3>5, <3>6 DEF WarnedBefore, Warned
  <2> QED
    BY <2>1, <2>2, <2>3, RequestsKept DEF AsksRetry
<1> QED
  BY <1>2, <1>3

\* A fragment is ready only because its latest attempt passed validation or a
\* person approved that very attempt, whatever is retried, cancelled, lost or
\* restarted.
THEOREM ReadyAlwaysJustified == Spec => []ReadyIsJustified
<1>1. Init => RowsFit /\ PreviousFits
  BY DEF Init, StoreInit, RowsFit, RowFits, PreviousFits, AsksRetry, Asks
<1>2. CallersInv /\ Ownership /\ Ownership' /\ RowsFit /\ PreviousFits
         /\ [Next]_vars => RowsFit' /\ PreviousFits'
  BY MeritStep
<1>3. RowsFit => ReadyIsJustified
  BY DEF RowsFit, RowFits, Justified, ReadyIsJustified
<1> QED
  BY <1>1, <1>2, <1>3, OwnershipInit, OwnershipStep, CallersInit, CallersStep,
     PTL DEF Spec

-----------------------------------------------------------------------------
(* Automatic retries.                                                      *)

\* The automatic retries the runner has spent on its current fragment, each
\* after a warning of the attempt before.
Series(from, to) ==
    \A k \in from .. to : Warned(CurrentFragment, attempt[CurrentFragment] - k)
RetriesSpent ==
    /\ pc = "claim" => Series(0, MaxAutoRetries - retries - 1)
    /\ pc = "work" => Series(1, MaxAutoRetries - retries)
    /\ pc = "warned" => Series(0, MaxAutoRetries - retries)

\* Nobody else touches the history of the runner's current fragment.
LEMMA SeriesKept ==
    ASSUME NEW from, NEW to, CurrentFragment' = CurrentFragment,
           attempt'[CurrentFragment] = attempt[CurrentFragment],
           log[CurrentFragment] \subseteq log'[CurrentFragment]
    PROVE  Series(from, to) => Series(from, to)'
BY DEF Series, Warned

LEMMA OtherHistory ==
    ASSUME StoreTypeOK, OtherTransaction, NEW f \in Fragment
    PROVE  attempt'[f] = attempt[f] /\ log[f] \subseteq log'[f]
<1>1. ASSUME NEW g \in Fragment, FragmentStep(g), ~StartFragment(g)
      PROVE  UNCHANGED attempt /\ log[f] \subseteq log'[f]
  BY <1>1, LogGrows
  DEF FragmentStep, CompleteFragment, FailFragment,
      PrepareAutomaticWarningRetry, EditFragment, RestoreFragmentRevision,
      ApproveFragment, CompleteRewriteFragment, FailRewriteFragment
<1> QED
  BY <1>1
  DEF OtherTransaction, FinishTask, PrepareRetry, CreateRewriteTask,
      DeleteRewriteTask

LEMMA CurrentHistory ==
    ASSUME CallersInv, Ownership, [Next]_vars, pc \in {"claim", "work", "warned"},
           ~Runner
    PROVE  /\ attempt'[CurrentFragment] = attempt[CurrentFragment]
           /\ log[CurrentFragment] \subseteq log'[CurrentFragment]
<1>1. PICK c : c = CurrentFragment
  OBVIOUS
<1>2. /\ StoreTypeOK /\ c \in Fragment /\ Busy
      /\ JobOf[c] = task.job /\ jobStatus[task.job] # "absent"
  <2>1. c \in Fragment /\ task \in Task /\ index \in 1 .. Len(task.fragments)
    BY <1>1, CurrentFragmentType DEF CallersInv, TypeOK
  <2>2. c \in Range(task.fragments)
    BY <1>1, <2>1, RestOfTask DEF CurrentFragment
  <2> QED
    BY <2>1, <2>2 DEF CallersInv, Busy, Ownership, RunnerFits, TaskFits, FragmentsOf
<1>3. ASSUME UNCHANGED <<attempt, log>>
      PROVE  attempt'[c] = attempt[c] /\ log[c] \subseteq log'[c]
  BY <1>3
<1>4. ASSUME NEW j \in Job, FreshRows(j), task.job # j
      PROVE  attempt'[c] = attempt[c] /\ log[c] \subseteq log'[c]
  BY <1>2, <1>4 DEF FreshRows, Inserted
<1>5. ASSUME NEW j \in Job, CreateJob(j)
      PROVE  attempt'[c] = attempt[c] /\ log[c] \subseteq log'[c]
  BY <1>2, <1>4, <1>5 DEF CreateJob
<1>6. ASSUME NEW j \in Job, DeleteJob(j), Busy => task.job # j
      PROVE  attempt'[c] = attempt[c] /\ log[c] \subseteq log'[c]
  BY <1>2, <1>4, <1>6 DEF DeleteJob
<1>7. ASSUME \/ UNCHANGED storeVars \/ UNCHANGED vars
             \/ \E j, previous : CancelRetry(j, previous)
      PROVE  attempt'[c] = attempt[c] /\ log[c] \subseteq log'[c]
  BY <1>3, <1>7 DEF vars, storeVars, CancelRetry
<1>8. CASE OtherTransaction
  BY <1>1, <1>2, <1>8, OtherHistory
<1> QED
  BY <1>1, <1>5, <1>6, <1>7, <1>8, NextTransactions

\* A fragment the runner turns to has its retries ahead.
LEMMA FreshBudget ==
    ASSUME \/ pc' \notin {"claim", "work", "warned"}
           \/ pc' = "claim" /\ retries' = MaxAutoRetries
    PROVE  RetriesSpent'
<1>1. 0 .. MaxAutoRetries - MaxAutoRetries - 1 = {}
  BY BoundsAssumption
<1> QED
  BY <1>1 DEF RetriesSpent, Series

LEMMA OthersLeaveRunner ==
    ASSUME [Next]_vars, ~Runner
    PROVE  UNCHANGED runnerVars \/ pc' = "idle"
BY DEF Next, Generate, Retry, Enqueue, Compensate, CompensateFails,
       ScheduleFails, Client, Rewriter, Close, Restart, ToIdle, vars

LEMMA RetriesStep ==
    ASSUME CallersInv, Ownership, RetriesSpent, [Next]_vars
    PROVE  RetriesSpent'
<1>1. StoreTypeOK /\ RunnerTypeOK
  BY DEF CallersInv, TypeOK
<1>0. MaxAutoRetries \in Nat /\ retries \in Nat
  BY <1>1, BoundsAssumption DEF RunnerTypeOK
<1>4. /\ \A k \in 0 .. MaxAutoRetries - retries :
            k = 0 \/ k \in 1 .. MaxAutoRetries - retries
      /\ \A n \in Nat : n - 0 = n
  BY <1>0
<1>2. CASE ~Runner
  <2>1. CASE pc \in {"claim", "work", "warned"} /\ UNCHANGED runnerVars
    <3>1. CurrentFragment' = CurrentFragment /\ UNCHANGED <<pc, retries>>
      BY <2>1 DEF CurrentFragment, runnerVars
    <3> QED
      BY <1>2, <2>1, <3>1, CurrentHistory, SeriesKept DEF RetriesSpent
  <2>2. CASE pc' \notin {"claim", "work", "warned"}
    BY <2>2, FreshBudget
  <2> QED
    BY <1>2, <2>1, <2>2, OthersLeaveRunner DEF runnerVars
<1>3. CASE Runner
  <2>1. CASE \/ TakeTask \/ LoopExit \/ BeginTask \/ DropTask \/ SkipFragment
             \/ Abandon \/ Fail \/ LoseResult \/ AutoRetryRejected
             \/ EndTask \/ EndTaskFails
    BY <2>1, FreshBudget
    DEF TakeTask, LoopExit, BeginTask, DropTask, SkipFragment, Abandon, Fail,
        LoseResult, AutoRetryRejected, EndTask, EndTaskFails, NextFragment,
        ToFragment, ToIdle
  <2>2. PICK c : c = CurrentFragment
    OBVIOUS
  <2>3. CASE ClaimFragment
    <3>1. /\ pc = "claim" /\ pc' = "work" /\ retries' = retries
          /\ CurrentFragment' = c /\ c \in Fragment
          /\ StartFragment(c)
      BY <1>1, <2>2, <2>3, CurrentFragmentType DEF ClaimFragment, CurrentFragment
    <3>2. attempt'[c] = attempt[c] + 1 /\ attempt[c] \in Nat /\ log' = log
      BY <1>1, <3>1 DEF StartFragment, StoreTypeOK
    <3>3. \A k \in 0 .. MaxAutoRetries - retries - 1 : Warned(c, attempt[c] - k)
      BY <2>2, <3>1 DEF RetriesSpent, Series
    <3>4. \A k \in 1 .. MaxAutoRetries - retries : Warned(c, attempt'[c] - k)
      <4> SUFFICES ASSUME NEW k \in 1 .. MaxAutoRetries - retries
                   PROVE  Warned(c, attempt'[c] - k)
        OBVIOUS
      <4>1. k - 1 \in 0 .. MaxAutoRetries - retries - 1
            /\ attempt'[c] - k = attempt[c] - (k - 1)
        BY <1>0, <3>2
      <4> QED
        BY <3>3, <4>1
    <3>5. \A k \in 1 .. MaxAutoRetries - retries' :
             Warned(CurrentFragment, attempt[CurrentFragment] - k)'
      BY <3>1, <3>2, <3>4 DEF Warned
    <3> QED
      BY <3>1, <3>5 DEF RetriesSpent, Series
  <2>4. ASSUME NEW code1 \in {""} \cup ValidationCode, Complete(code1)
        PROVE  RetriesSpent'
    <3>1. CASE ~(code1 \in ValidationCode /\ retries > 0)
      BY <2>4, <3>1, FreshBudget DEF Complete, NextFragment, ToFragment
    <3>2. CASE code1 \in ValidationCode /\ retries > 0
      <4>1. /\ pc = "work" /\ pc' = "warned" /\ retries' = retries
            /\ CurrentFragment' = c /\ c \in Fragment
            /\ attempt' = attempt /\ InsertAttempt(c, code1)
        BY <1>1, <2>2, <2>4, <3>2, CurrentFragmentType
        DEF Complete, CurrentFragment, CompleteFragment, ValidationCode
      <4>2. /\ log[c] \subseteq log'[c]
            /\ [attempt |-> attempt[c], outcome |-> code1] \in log'[c]
        BY <1>1, <4>1, LogGrows
      <4>3. \A k \in 1 .. MaxAutoRetries - retries : Warned(c, attempt[c] - k)
        BY <2>2, <4>1 DEF RetriesSpent, Series
      <4>4. attempt[c] \in Nat
        BY <1>1, <4>1 DEF StoreTypeOK
      <4>5. \A k \in 0 .. MaxAutoRetries - retries :
               \E r \in log'[c] : r.attempt = attempt[c] - k
                                  /\ r.outcome \in ValidationCode
        <5> SUFFICES ASSUME NEW k \in 0 .. MaxAutoRetries - retries
                     PROVE  \E r \in log'[c] :
                               /\ r.attempt = attempt[c] - k
                               /\ r.outcome \in ValidationCode
          OBVIOUS
        <5>1. CASE k = 0
          BY <1>4, <3>2, <4>2, <4>4, <5>1
        <5>2. CASE k # 0
          BY <1>4, <4>2, <4>3, <5>2 DEF Warned
        <5> QED
          BY <5>1, <5>2
      <4> QED
        BY <4>1, <4>5 DEF RetriesSpent, Series, Warned
    <3> QED
      BY <3>1, <3>2
  <2>5. CASE AutoRetry
    <3>1. /\ pc = "warned" /\ pc' = "claim" /\ retries' = retries - 1
          /\ CurrentFragment' = CurrentFragment /\ UNCHANGED <<attempt, log>>
      BY <2>5 DEF AutoRetry, CurrentFragment, PrepareAutomaticWarningRetry
    <3>2. Series(0, MaxAutoRetries - retries)
      BY <3>1 DEF RetriesSpent
    <3>3. MaxAutoRetries - (retries - 1) - 1 = MaxAutoRetries - retries
      BY <1>1, BoundsAssumption DEF RunnerTypeOK
    <3> QED
      BY <3>1, <3>2, <3>3 DEF RetriesSpent, Series, Warned
  <2> QED
    BY <1>3, <2>1, <2>3, <2>4, <2>5 DEF Runner
<1> QED
  BY <1>2, <1>3

\* Every automatic retry the runner has spent on the fragment it works on
\* answered a warning of validation: a technical failure, a lost result or a
\* change by somebody else ends the series.
THEOREM RetriesAlwaysFollowWarnings == Spec => []RetriesFollowWarnings
<1>1. Init => RetriesSpent
  BY DEF Init, RetriesSpent
<1>2. RetriesSpent => RetriesFollowWarnings
  BY DEF RetriesSpent, Series, Warned, RetriesFollowWarnings
<1>3. CallersInv /\ Ownership /\ RetriesSpent /\ [Next]_vars => RetriesSpent'
  BY RetriesStep
<1> QED
  BY <1>1, <1>2, <1>3, OwnershipInit, OwnershipStep, CallersInit, CallersStep,
     PTL DEF Spec

-----------------------------------------------------------------------------
(* Active jobs.                                                            *)

HasWork(j) == \E f \in FragmentsOf(j) : status[f] \in Unsettled
ActiveHasWork == \A j \in Job : Active(j) => HasWork(j)

\* Where a transaction recomputes the job of what it changed.
LEMMA RecomputedActive ==
    ASSUME StoreTypeOK, ActiveHasWork, NEW j \in Job, NEW final,
           RecomputeTo(j, status', final),
           final \in {"queued", "running"} => HasWork(j)',
           \A f \in Fragment \ FragmentsOf(j) : status'[f] = status[f]
    PROVE  ActiveHasWork'
<1> SUFFICES ASSUME NEW k \in Job, Active(k)' PROVE HasWork(k)'
  BY DEF ActiveHasWork
<1>1. CASE k = j
  BY <1>1 DEF RecomputeTo, StoreTypeOK, Active
<1>2. CASE k # j
  BY <1>2
  DEF RecomputeTo, StoreTypeOK, Active, ActiveHasWork, HasWork, FragmentsOf
<1> QED
  BY <1>1, <1>2

LEMMA StatusForActive ==
    ASSUME NEW j, StatusFor(j, status') \in {"queued", "running"}
    PROVE  HasWork(j)'
<1>1. CASE \E f \in FragmentsOf(j) : status'[f] \in Unsettled
  BY <1>1 DEF HasWork, FragmentsOf
<1>2. CASE ~\E f \in FragmentsOf(j) : status'[f] \in Unsettled
  <2>1. StatusFor(j, status') \in {"failed", "completed_with_warnings", "completed"}
    BY <1>2 DEF StatusFor
  <2> QED
    BY <2>1
<1> QED
  BY <1>1, <1>2

LEMMA SameActive ==
    ASSUME ActiveHasWork, jobStatus' = jobStatus,
           \A f \in Fragment : status[f] \in Unsettled => status'[f] \in Unsettled
    PROVE  ActiveHasWork'
BY DEF ActiveHasWork, Active, HasWork, FragmentsOf

LEMMA FragmentStepActive ==
    ASSUME StoreTypeOK, ActiveHasWork, NEW f \in Fragment, FragmentStep(f)
    PROVE  ActiveHasWork'
<1> DEFINE j == JobOf[f]
<1>1. j \in Job /\ f \in FragmentsOf(j)
  BY JobsAssumption DEF FragmentsOf
<1>2. ASSUME \/ Recompute(j, status')
             \/ \E final : RecomputeTo(j, status', final) /\ status'[f] = "pending",
             NEW new, status' = [status EXCEPT ![f] = new]
      PROVE  ActiveHasWork'
  <2>1. \A g \in Fragment \ FragmentsOf(j) : status'[g] = status[g]
    BY <1>1, <1>2 DEF StoreTypeOK
  <2>2. status'[f] = "pending" => HasWork(j)'
    BY <1>1 DEF HasWork, FragmentsOf, Unsettled
  <2> HIDE DEF j
  <2>3. CASE Recompute(j, status')
    <3>1. PICK final : final = StatusFor(j, status')
      OBVIOUS
    <3>2. RecomputeTo(j, status', final)
      BY <2>3, <3>1 DEF Recompute
    <3>3. final \in {"queued", "running"} => HasWork(j)'
      BY <3>1, StatusForActive
    <3> QED
      BY <1>1, <2>1, <3>2, <3>3, RecomputedActive
  <2>4. CASE \E final : RecomputeTo(j, status', final) /\ status'[f] = "pending"
    <3>1. PICK final : RecomputeTo(j, status', final) /\ status'[f] = "pending"
      BY <2>4
    <3> QED
      BY <1>1, <2>1, <2>2, <3>1, RecomputedActive
  <2> QED
    BY <1>2, <2>3, <2>4
<1>3. CASE StartFragment(f)
  BY <1>3, SameActive DEF StartFragment, StoreTypeOK, Unsettled
<1>4. ASSUME NEW spoken, NEW c, CompleteFragment(f, spoken, c)
      PROVE  ActiveHasWork'
  BY <1>2, <1>4 DEF CompleteFragment
<1>5. CASE FailFragment(f) \/ ApproveFragment(f)
  BY <1>2, <1>5 DEF FailFragment, ApproveFragment
<1>6. CASE PrepareAutomaticWarningRetry(f)
  BY <1>2, <1>6 DEF PrepareAutomaticWarningRetry, StoreTypeOK
<1>7. ASSUME NEW t, EditFragment(f, t) PROVE ActiveHasWork'
  BY <1>2, <1>7 DEF EditFragment
<1>8. ASSUME NEW n, RestoreFragmentRevision(f, n) PROVE ActiveHasWork'
  <2> DEFINE keepsQueued == jobStatus[j] = "queued" /\ status[f] = "pending"
  <2>1. /\ status' = [status EXCEPT ![f] = RestoredStatus(status[f])]
        /\ RecomputeTo(j, status', IF keepsQueued THEN "queued"
                                   ELSE StatusFor(j, status'))
    BY <1>8 DEF RestoreFragmentRevision
  <2>2. keepsQueued => status'[f] = "pending"
    BY <2>1 DEF RestoredStatus, StoreTypeOK
  <2> QED
    BY <1>2, <2>1, <2>2 DEF Recompute
<1>9. ASSUME NEW t, CompleteRewriteFragment(f, text[f], t)
      PROVE  ActiveHasWork'
  <2>1. status' = status /\ (jobStatus' = jobStatus \/ Recompute(j, status'))
    BY <1>9 DEF CompleteRewriteFragment
  <2>2. status' = [status EXCEPT ![f] = status[f]]
    BY <2>1 DEF StoreTypeOK
  <2> QED
    BY <1>2, <2>1, <2>2, SameActive
<1>10. CASE FailRewriteFragment(f)
  BY <1>10, SameActive DEF FailRewriteFragment
<1> QED
  BY <1>3, <1>4, <1>5, <1>6, <1>7, <1>8, <1>9, <1>10 DEF FragmentStep

LEMMA ActiveStep ==
    ASSUME CallersInv, Ownership, ActiveHasWork, [Next]_vars
    PROVE  ActiveHasWork'
<1>1. StoreTypeOK /\ RunnerTypeOK
  BY DEF CallersInv, TypeOK
<1>2. CASE UNCHANGED storeVars
  BY <1>2, SameActive DEF storeVars
<1>3. ASSUME NEW j \in Job, FreshRows(j), NEW new \in {"queued", "absent"},
             jobStatus' = [jobStatus EXCEPT ![j] = new]
      PROVE  ActiveHasWork'
  <2>1. /\ \A f \in FragmentsOf(j) : status'[f] = "pending"
        /\ \A f \in Fragment \ FragmentsOf(j) : status'[f] = status[f]
    BY <1>1, <1>3, FreshLeaves
  <2>2. FragmentsOf(j) # {}
    <3>1. Catalog[j] \in Seq(Fragment) /\ Catalog[j] # <<>>
          /\ Range(Catalog[j]) = FragmentsOf(j)
      BY CatalogAssumption, BookAssumption
    <3>2. Catalog[j][1] \in Range(Catalog[j])
      BY <3>1 DEF Range
    <3> QED
      BY <3>1, <3>2
  <2>3. HasWork(j)'
    BY <2>1, <2>2 DEF HasWork, FragmentsOf, Unsettled
  <2>4. ASSUME NEW k \in Job, Active(k)', k # j PROVE HasWork(k)'
    <3>1. jobStatus'[k] = jobStatus[k]
      BY <1>1, <1>3, <2>4 DEF StoreTypeOK
    <3>2. HasWork(k)
      BY <2>4, <3>1 DEF ActiveHasWork, Active
    <3>3. \A f \in FragmentsOf(k) : status'[f] = status[f]
      BY <2>1, <2>4 DEF FragmentsOf
    <3> QED
      BY <3>2, <3>3 DEF HasWork, FragmentsOf
  <2> QED
    BY <2>3, <2>4 DEF ActiveHasWork
<1>4. CASE pc = "begin" /\ StartTask(task.job)
  <2>1. /\ jobStatus' = [jobStatus EXCEPT ![task.job] = "running"]
        /\ status' = status
    BY <1>4 DEF StartTask
  <2>2. Busy /\ task \in Task /\ TaskFits(task)
    BY <1>1, <1>4 DEF Busy, RunnerTypeOK, Ownership, RunnerFits
  <2>3. PICK f : f = task.fragments[1]
    OBVIOUS
  <2>4. f \in Range(task.fragments)
    BY <2>2, <2>3 DEF Task, TaskFits, Range
  <2>5. f \in OfRunner /\ f \in FragmentsOf(task.job)
    BY <1>4, <2>2, <2>4, RestOfTask DEF OfRunner, TaskFits
  <2>6. status[f] = "pending"
    BY <2>5, KnownParts DEF Ownership, KnownWorkIsPending
  <2>7. HasWork(task.job)
    BY <2>5, <2>6 DEF HasWork, Unsettled
  <2> QED
    BY <1>1, <2>1, <2>7
    DEF ActiveHasWork, Active, HasWork, FragmentsOf, StoreTypeOK
<1>5. CASE pc = "claim" /\ StartFragment(CurrentFragment)
  BY <1>1, <1>5, CurrentFragmentType, FragmentStepActive DEF FragmentStep
<1>6. ASSUME NEW j \in Job, NEW previous, CancelRetry(j, previous)
      PROVE  ActiveHasWork'
  <2>1. CASE jobStatus[j] = "absent"
    BY <1>2, <1>6, <2>1 DEF CancelRetry
  <2>2. CASE jobStatus[j] # "absent"
    <3>1. /\ RecomputeTo(j, status', StatusFor(j, status'))
          /\ \A f \in Fragment \ FragmentsOf(j) : status'[f] = status[f]
      BY <1>6, <2>2 DEF CancelRetry, Recompute, FragmentsOf
    <3> QED
      BY <1>1, <3>1, RecomputedActive, StatusForActive
  <2> QED
    BY <2>1, <2>2
<1>7. CASE OtherTransaction
  <2>1. ASSUME NEW j \in Job, FinishTask(j) PROVE ActiveHasWork'
    <3>1. RecomputeTo(j, status', StatusFor(j, status')) /\ status' = status
      BY <2>1 DEF FinishTask, Recompute
    <3> QED
      BY <1>1, <3>1, RecomputedActive, StatusForActive
  <2>2. ASSUME NEW j \in Job, NEW S \in SUBSET FragmentsOf(j), PrepareRetry(j, S)
        PROVE  ActiveHasWork'
    <3>1. /\ RecomputeTo(j, status', "queued")
          /\ S # {} /\ S \subseteq Fragment
          /\ status' = [f \in Fragment |-> IF f \in S THEN "pending" ELSE status[f]]
      BY <2>2 DEF PrepareRetry, FragmentsOf
    <3>2. HasWork(j)'
      BY <3>1 DEF HasWork, FragmentsOf, Unsettled
    <3> QED
      BY <1>1, <3>1, <3>2, RecomputedActive DEF FragmentsOf
  <2>3. ASSUME NEW j \in Job, NEW S, CreateRewriteTask(j, S) \/ DeleteRewriteTask(j)
        PROVE  ActiveHasWork'
    BY <2>3, SameActive DEF CreateRewriteTask, DeleteRewriteTask
  <2> QED
    BY <1>1, <1>7, <2>1, <2>2, <2>3, FragmentStepActive DEF OtherTransaction
<1>8. ASSUME NEW h \in Handler, AsksRetry(h) PROVE JobAsked(h) \in Job
  BY <1>8, KnownBelongs DEF AsksRetry, JobAsked, Task
<1>9. CASE Next
  <2>1. ASSUME NEW j \in Job, CreateJob(j) \/ DeleteJob(j)
        PROVE  ActiveHasWork'
    BY <1>3, <2>1 DEF CreateJob, DeleteJob
  <2> QED
    BY <1>2, <1>4, <1>5, <1>6, <1>7, <1>8, <1>9, <2>1, NextTransactions
<1>10. CASE UNCHANGED vars
  BY <1>2, <1>10 DEF vars
<1> QED
  BY <1>9, <1>10

\* A job that shows it is queued or running has a fragment that is pending or
\* generating; with FinalStatusIsHonest, a job shows a final status exactly
\* when its fragments have one.
THEOREM ActiveJobsHaveWork == Spec => []ActiveHasWork
<1>1. Init => ActiveHasWork
  BY DEF Init, StoreInit, ActiveHasWork, Active
<1>2. CallersInv /\ Ownership /\ ActiveHasWork /\ [Next]_vars => ActiveHasWork'
  BY ActiveStep
<1> QED
  BY <1>1, <1>2, OwnershipInit, OwnershipStep, CallersInit, CallersStep,
     PTL DEF Spec

-----------------------------------------------------------------------------
(* Rewriting keeps away from jobs with a task that has not begun.          *)

WaitingJobs == {queue[k].job : k \in DOMAIN queue}
               \cup {JobAsked(h) : h \in {g \in Handler : Asks(g)}}
               \cup (IF pc = "begin" THEN {task.job} ELSE {})
RewritingStaysOut == \A j \in WaitingJobs : rewriting[j] = {}

\* A waiting job is active: what its task lists is pending.
LEMMA WaitingActive ==
    ASSUME CallersInv, Ownership, RowsMatch, NEW j \in WaitingJobs
    PROVE  j \in Job /\ Active(j)
<1>1. ASSUME NEW t \in Task, TaskFits(t), t.job = j, jobStatus[j] # "absent",
             Range(t.fragments) \subseteq Known
      PROVE  j \in Job /\ Active(j)
  <2>1. j \in Job /\ t.fragments \in Seq(Fragment) /\ t.fragments # <<>>
    BY <1>1 DEF Task, TaskFits
  <2>2. PICK f : f = t.fragments[1]
    OBVIOUS
  <2>6. f \in Range(t.fragments)
    BY <2>1, <2>2 DEF Range
  <2>3. status[f] = "pending" /\ f \in FragmentsOf(j)
    BY <1>1, <2>6 DEF Ownership, KnownWorkIsPending, TaskFits
  <2>4. StatusFor(j, status) = "running"
    BY <2>3 DEF StatusFor, Unsettled
  <2>5. jobStatus[j] \in {"queued", "running"}
    BY <1>1, <2>1, <2>4 DEF RowsMatch, FinalStatusIsHonest
  <2> QED
    BY <2>1, <2>5 DEF Active
<1>2. ASSUME NEW k \in DOMAIN queue, queue[k].job = j
      PROVE  j \in Job /\ Active(j)
  <2>1. queue[k] \in Task /\ TaskFits(queue[k]) /\ jobStatus[j] # "absent"
    BY <1>2, KnownBelongs DEF Ownership, QueueFits
  <2>2. Range(queue[k].fragments) \subseteq Known
    BY <2>1, RestOfTask, KnownParts DEF OfQueue
  <2> QED
    BY <1>1, <1>2, <2>1, <2>2
<1>3. ASSUME NEW h \in Handler, Asks(h), JobAsked(h) = j
      PROVE  j \in Job /\ Active(j)
  <2>1. /\ request[h].task \in Task /\ TaskFits(request[h].task)
        /\ jobStatus[j] # "absent" /\ request[h].task.job = j
        /\ OfRequest(h) = Range(request[h].task.fragments)
    BY <1>3, KnownBelongs DEF Ownership, HandlersFit, JobAsked
  <2>2. Range(request[h].task.fragments) \subseteq Known
    BY <2>1, KnownParts
  <2> QED
    BY <1>1, <2>1, <2>2
<1>4. ASSUME pc = "begin", task.job = j
      PROVE  j \in Job /\ Active(j)
  <2>1. Busy /\ task \in Task /\ TaskFits(task) /\ jobStatus[j] # "absent"
    BY <1>4, KnownBelongs DEF Busy, Ownership, RunnerFits
  <2>2. Range(task.fragments) \subseteq Known
    BY <1>4, <2>1, RestOfTask, KnownParts DEF OfRunner
  <2> QED
    BY <1>1, <1>4, <2>1, <2>2
<1> QED
  BY <1>2, <1>3, <1>4 DEF WaitingJobs

\* A rewrite task never gains a fragment while its job is active.
LEMMA RewritingShrinks ==
    ASSUME StoreTypeOK, [StoreNext]_storeVars, NEW j \in Job, Active(j)
    PROVE  rewriting'[j] \subseteq rewriting[j]
<1>1. ASSUME NEW k \in Job, JobStep(k)
      PROVE  rewriting'[j] \subseteq rewriting[j]
  <2>1. ASSUME NEW S, CreateRewriteTask(k, S)
        PROVE  rewriting'[j] = rewriting[j]
    BY <2>1 DEF CreateRewriteTask, StoreTypeOK
  <2>2. CASE FreshRows(k) \/ DeleteRewriteTask(k)
    BY <2>2 DEF FreshRows, DeleteRewriteTask, StoreTypeOK
  <2>3. CASE /\ ~FreshRows(k) /\ ~DeleteRewriteTask(k)
             /\ \A S \in SUBSET FragmentsOf(k) : ~CreateRewriteTask(k, S)
    BY <1>1, <2>3
    DEF JobStep, CreateJob, DeleteJob, StartTask, FinishTask, PrepareRetry,
        CancelRetry, storeVars
  <2> QED
    BY <2>1, <2>2, <2>3
<1>2. ASSUME NEW f \in Fragment, FragmentStep(f)
      PROVE  rewriting'[j] \subseteq rewriting[j]
  <2>1. \/ rewriting' = rewriting
        \/ rewriting' = [rewriting EXCEPT ![JobOf[f]] = @ \ {f}]
    BY <1>2
    DEF FragmentStep, StartFragment, CompleteFragment, FailFragment,
        PrepareAutomaticWarningRetry, EditFragment, RestoreFragmentRevision,
        ApproveFragment, CompleteRewriteFragment, FailRewriteFragment
  <2>2. DOMAIN rewriting = Job
    BY DEF StoreTypeOK
  <2> QED
    BY <2>1, <2>2
<1>3. CASE UNCHANGED storeVars
  BY <1>3 DEF storeVars
<1> QED
  BY <1>1, <1>2, <1>3 DEF StoreNext

\* A job waits because it did before, or because a handler has just committed
\* a task of it.
LEMMA QueueFrom ==
    ASSUME CallersInv, [Next]_vars, NEW k \in DOMAIN queue'
    PROVE  \/ \E m \in DOMAIN queue : queue'[k] = queue[m]
           \/ \E h \in Handler : Asks(h) /\ queue'[k] = request[h].task
<1>1. queue \in Seq(Task)
  BY DEF CallersInv, TypeOK, QueueTypeOK
<1>2. ASSUME NEW h \in Handler, Enqueue(h)
      PROVE  \/ \E m \in DOMAIN queue : queue'[k] = queue[m]
             \/ Asks(h) /\ queue'[k] = request[h].task
  <2>1. Asks(h) /\ request[h].task \in Task
    BY <1>2, RequestFields DEF Enqueue, Asks, CallersInv, TypeOK
  <2>2. queue' = queue \/ queue' = Append(queue, request[h].task)
    BY <1>2 DEF Enqueue
  <2> QED
    BY <1>1, <2>1, <2>2
<1>3. CASE TakeTask
  <2>1. queue # <<>> /\ queue' = Tail(queue)
    BY <1>3 DEF TakeTask
  <2>2. k + 1 \in DOMAIN queue /\ queue'[k] = queue[k + 1]
    BY <1>1, <2>1
  <2> QED
    BY <2>2
<1>4. CASE Restart
  BY <1>4 DEF Restart
<1>5. CASE queue' = queue
  BY <1>5
<1> QED
  BY <1>2, <1>3, <1>4, <1>5
  DEF Next, Generate, Retry, Compensate, CompensateFails, ScheduleFails, Client,
      Rewriter, Close, vars, Runner, LoopExit, BeginTask, DropTask, ClaimFragment,
      SkipFragment, Abandon, Complete, Fail, LoseResult, AutoRetry,
      AutoRetryRejected, EndTask, EndTaskFails, Stay

LEMMA BeginFrom ==
    ASSUME [Next]_vars, pc' = "begin"
    PROVE  \/ pc = "begin" /\ task' = task
           \/ queue # <<>> /\ task' = Head(queue)
<1>1. CASE Runner
  BY <1>1
  DEF Runner, TakeTask, LoopExit, BeginTask, DropTask, ClaimFragment,
      SkipFragment, Abandon, Complete, Fail, LoseResult, AutoRetry,
      AutoRetryRejected, EndTask, EndTaskFails, NextFragment, ToFragment, ToIdle
<1>2. CASE ~Runner
  BY <1>2, OthersLeaveRunner DEF runnerVars
<1> QED
  BY <1>1, <1>2

LEMMA WaitingFrom ==
    ASSUME CallersInv, [Next]_vars, NEW j \in WaitingJobs'
    PROVE  \/ j \in WaitingJobs
           \/ \E h \in Handler : /\ Generate(h) \/ Retry(h)
                                 /\ j = request'[h].task.job
<1>1. ASSUME NEW k \in DOMAIN queue', j = queue'[k].job
      PROVE  j \in WaitingJobs
  BY <1>1, QueueFrom DEF WaitingJobs, JobAsked
<1>2. ASSUME NEW h \in Handler, Asks(h)', j = request'[h].task.job
      PROVE  j \in WaitingJobs \/ Generate(h) \/ Retry(h)
  BY <1>2, RequestsKept DEF WaitingJobs, JobAsked, SameRequest
<1>3. CASE pc' = "begin" /\ j = task'.job
  <2>1. queue # <<>> => 1 \in DOMAIN queue /\ Head(queue) = queue[1]
    BY DEF CallersInv, TypeOK, QueueTypeOK
  <2> QED
    BY <1>3, <2>1, BeginFrom DEF WaitingJobs
<1>4. \/ \E k \in DOMAIN queue' : j = queue'[k].job
      \/ \E h \in Handler : Asks(h)' /\ j = request'[h].task.job
      \/ pc' = "begin" /\ j = task'.job
  BY DEF WaitingJobs, JobAsked, Asks
<1> QED
  BY <1>1, <1>2, <1>3, <1>4

\* Both scheduling calls find the job without a rewrite task.
LEMMA ScheduledAlone ==
    ASSUME CallersInv, NEW h \in Handler, Generate(h) \/ Retry(h)
    PROVE  rewriting'[request'[h].task.job] = {}
<1>1. StoreTypeOK /\ RequestTypeOK
  BY DEF CallersInv, TypeOK
<1>2. CASE Generate(h)
  <2>1. PICK j \in Job :
           /\ CreateJob(j)
           /\ request' = [request EXCEPT ![h] =
                 Enqueueing("generate", [job |-> j, fragments |-> Catalog[j]],
                            <<>>)]
    BY <1>2 DEF Generate
  <2>2. request'[h].task.job = j
    BY <1>1, <2>1 DEF RequestTypeOK, Enqueueing
  <2> QED
    BY <1>1, <2>1, <2>2, FreshLeaves DEF CreateJob
<1>3. CASE Retry(h)
  <2>0. PICK j \in Job : \E chosen, previous :
           /\ PrepareRetry(j, Range(chosen))
           /\ request' = [request EXCEPT ![h] =
                 Enqueueing("retry", [job |-> j, fragments |-> chosen],
                            previous)]
    BY <1>3 DEF Retry
  <2>1. PICK chosen, previous :
           /\ PrepareRetry(j, Range(chosen))
           /\ request' = [request EXCEPT ![h] =
                 Enqueueing("retry", [job |-> j, fragments |-> chosen],
                            previous)]
    BY <2>0
  <2>2. request'[h].task.job = j
    BY <1>1, <2>1 DEF RequestTypeOK, Enqueueing
  <2> QED
    BY <2>1, <2>2 DEF PrepareRetry
<1> QED
  BY <1>2, <1>3

LEMMA StaysOutStep ==
    ASSUME CallersInv, Ownership, RowsMatch, RewritingStaysOut,
           [Next]_vars, [StoreNext]_storeVars
    PROVE  RewritingStaysOut'
<1> SUFFICES ASSUME NEW j \in WaitingJobs'
             PROVE  rewriting'[j] = {}
  BY DEF RewritingStaysOut
<1>1. CASE j \in WaitingJobs
  <2>1. j \in Job /\ Active(j) /\ rewriting[j] = {}
    BY <1>1, WaitingActive DEF RewritingStaysOut
  <2> QED
    BY <2>1, RewritingShrinks DEF CallersInv
<1>2. CASE j \notin WaitingJobs
  BY <1>2, WaitingFrom, ScheduledAlone
<1> QED
  BY <1>1, <1>2

\* While a task of a job waits to be begun, in the queue, in a handler or in
\* the runner's hands, the job has no rewrite task: no model changes the
\* text of what the task lists.
THEOREM RewritingAlwaysStaysOut == Spec => []RewritingStaysOut
<1>1. Init => RewritingStaysOut
  <2> SUFFICES ASSUME Init, NEW j \in WaitingJobs PROVE FALSE
    BY DEF RewritingStaysOut
  <2>1. /\ DOMAIN queue = {} /\ pc # "begin"
        /\ \A h \in Handler : ~Asks(h)
    BY DEF Init, Asks
  <2> QED
    BY <2>1 DEF WaitingJobs
<1>2. CallersInv /\ Ownership /\ RowsMatch /\ RewritingStaysOut
      /\ [Next]_vars /\ [StoreNext]_storeVars => RewritingStaysOut'
  BY StaysOutStep
<1>3. Spec => []RowsMatch
  BY ProgramKeepsTables, PTL
<1> QED
  BY <1>1, <1>2, <1>3, OwnershipInit, OwnershipStep, CallersInit, CallersStep,
     PTL DEF Spec

-----------------------------------------------------------------------------
(* Without faults.                                                         *)

Quiet == ~closed /\ pc # "exited"

LEMMA QuietStep ==
    ASSUME Faults = {}, Quiet, [Next]_vars
    PROVE  Quiet'
<1>1. ~Close /\ ~Restart /\ ~LoopExit
  BY DEF Quiet, Close, Restart, LoopExit
<1>2. CASE ~Runner
  BY <1>1, <1>2
  DEF Next, Generate, Retry, Enqueue, Compensate, CompensateFails,
      ScheduleFails, Client, Rewriter, Quiet, runnerVars, vars
<1>3. CASE Runner
  <2>1. closed' = closed
    BY <1>3
    DEF Runner, TakeTask, LoopExit, BeginTask, DropTask, ClaimFragment,
        SkipFragment, Abandon, Complete, Fail, LoseResult, AutoRetry,
        AutoRetryRejected, EndTask, EndTaskFails, Stay
  <2>2. NextFragment => pc' # "exited"
    BY DEF NextFragment, ToFragment
  <2>3. \A c : Complete(c) => pc' # "exited"
    BY <2>2 DEF Complete
  <2>4. pc' # "exited"
    BY <1>1, <1>3, <2>2, <2>3
    DEF Runner, TakeTask, BeginTask, DropTask, ClaimFragment, SkipFragment,
        Abandon, Fail, LoseResult, AutoRetry, AutoRetryRejected, EndTask,
        EndTaskFails, ToFragment, ToIdle
  <2> QED
    BY <2>1, <2>4 DEF Quiet
<1> QED
  BY <1>2, <1>3

\* The fragment the workers have.
Running == IF pc = "work" THEN {CurrentFragment} ELSE {}

\* A step makes only fragments of P pending, and leaves generating exactly
\* what the workers have after it.
NewWork(P) ==
    \A f \in Fragment : Exists(f)' =>
        /\ status'[f] = "pending" =>
              f \in P \/ (Exists(f) /\ status[f] = "pending")
        /\ status'[f] = "generating" <=> f \in Running'

LEMMA ForgottenKept ==
    ASSUME NothingForgotten, NEW P, NewWork(P),
           \A f \in P : f \in Known',
           \A f \in Known : f \in Known' \/ ~Exists(f)' \/ status'[f] # "pending"
    PROVE  NothingForgotten'
<1> SUFFICES ASSUME NEW f \in Fragment, Exists(f)'
             PROVE  /\ status'[f] = "pending" => f \in Known'
                    /\ status'[f] = "generating" <=>
                          pc' = "work" /\ f = CurrentFragment'
  BY DEF NothingForgotten, Exists
<1>1. status'[f] = "pending" => f \in Known'
  <2> SUFFICES ASSUME status'[f] = "pending" PROVE f \in Known'
    OBVIOUS
  <2>1. f \in P \/ (Exists(f) /\ status[f] = "pending")
    BY DEF NewWork
  <2>2. Exists(f) /\ status[f] = "pending" => f \in Known
    BY DEF NothingForgotten
  <2> QED
    BY <2>1, <2>2
<1>2. status'[f] = "generating" <=> pc' = "work" /\ f = CurrentFragment'
  BY DEF NewWork, Running
<1> QED
  BY <1>1, <1>2

\* A transaction that is not the runner's leaves what is generating alone.
StatusKept(P) ==
    \A f \in Fragment : Exists(f)' =>
        /\ status'[f] = "pending" =>
              f \in P \/ (Exists(f) /\ status[f] = "pending")
        /\ status'[f] = "generating" <=> Exists(f) /\ status[f] = "generating"

LEMMA OthersNewWork ==
    ASSUME CallersInv, Ownership, NothingForgotten, NEW P, StatusKept(P),
           UNCHANGED runnerVars
    PROVE  NewWork(P)
<1>1. Running' = Running
  BY DEF Running, CurrentFragment, runnerVars
<1>2. \A f \in Fragment : f \in Running => Exists(f)
  <2> SUFFICES ASSUME pc = "work" PROVE Exists(CurrentFragment)
    BY DEF Running
  <2>1. /\ task \in Task /\ index \in 1 .. Len(task.fragments)
        /\ jobStatus[task.job] # "absent" /\ TaskFits(task)
    BY CurrentFragmentType
    DEF CallersInv, TypeOK, Ownership, RunnerFits, Busy
  <2>2. CurrentFragment \in FragmentsOf(task.job)
    BY <2>1, RestOfTask DEF CurrentFragment, TaskFits
  <2> QED
    BY <2>1, <2>2 DEF Exists, FragmentsOf
<1>3. \A f \in Fragment : Exists(f) =>
         (status[f] = "generating" <=> f \in Running)
  BY DEF NothingForgotten, Running
<1> QED
  BY <1>1, <1>2, <1>3 DEF NewWork, StatusKept

LEMMA SameStatusKept ==
    ASSUME StoreTypeOK, status' = status,
           \A j \in Job : jobStatus[j] = "absent" => jobStatus'[j] = "absent"
    PROVE  StatusKept({})
BY JobsAssumption DEF StatusKept, Exists

LEMMA OneStatusKept ==
    ASSUME StoreTypeOK, NEW f \in Fragment, Exists(f),
           NEW new, status' = [status EXCEPT ![f] = new],
           new # "generating", status[f] # "generating",
           new = "pending" => status[f] = "pending",
           NEW final, jobStatus' = [jobStatus EXCEPT ![JobOf[f]] = final]
    PROVE  StatusKept({})
BY JobsAssumption DEF StatusKept, Exists, StoreTypeOK

LEMMA ClientStatusKept ==
    ASSUME StoreTypeOK, AbsentIsFresh, Client \/ Rewriter
    PROVE  StatusKept({})
<1>1. ASSUME NEW f \in Fragment, NEW t, EditFragment(f, t)
      PROVE  StatusKept({})
  BY <1>1, OneStatusKept DEF EditFragment, Retryable, Recompute, RecomputeTo
<1>2. ASSUME NEW f \in Fragment, ApproveFragment(f)
      PROVE  StatusKept({})
  BY <1>2, OneStatusKept DEF ApproveFragment, Recompute, RecomputeTo
<1>3. ASSUME NEW f \in Fragment, NEW n, RestoreFragmentRevision(f, n)
      PROVE  StatusKept({})
  <2>1. /\ Exists(f) /\ status[f] # "generating"
        /\ status' = [status EXCEPT ![f] = RestoredStatus(status[f])]
        /\ \E final : jobStatus' = [jobStatus EXCEPT ![JobOf[f]] = final]
    BY <1>3 DEF RestoreFragmentRevision, RecomputeTo
  <2>2. /\ RestoredStatus(status[f]) # "generating"
        /\ RestoredStatus(status[f]) = "pending" => status[f] = "pending"
    BY DEF RestoredStatus
  <2> QED
    BY <2>1, <2>2, OneStatusKept
<1>4. ASSUME NEW f \in Fragment, NEW t, CompleteRewriteFragment(f, text[f], t)
      PROVE  StatusKept({})
  <2>1. /\ status' = status /\ f \in rewriting[JobOf[f]] /\ status[f] = "warning"
        /\ \/ jobStatus' = jobStatus
           \/ \E final : jobStatus' = [jobStatus EXCEPT ![JobOf[f]] = final]
    BY <1>4 DEF CompleteRewriteFragment, Recompute, RecomputeTo
  <2>2. Exists(f)
    BY <2>1, JobsAssumption DEF AbsentIsFresh, Exists
  <2>3. status' = [status EXCEPT ![f] = status[f]]
    BY <2>1 DEF StoreTypeOK
  <2> QED
    BY <2>1, <2>2, <2>3, SameStatusKept, OneStatusKept
<1>5. ASSUME NEW j, NEW S, CreateRewriteTask(j, S) \/ DeleteRewriteTask(j)
      PROVE  StatusKept({})
  BY <1>5, SameStatusKept DEF CreateRewriteTask, DeleteRewriteTask
<1>6. ASSUME NEW f, FailRewriteFragment(f)
      PROVE  StatusKept({})
  BY <1>6, SameStatusKept DEF FailRewriteFragment
<1> QED
  BY <1>1, <1>2, <1>3, <1>4, <1>5, <1>6 DEF Client, Rewriter

\* No task changes its place but by what a step says.
LEMMA KnownStays ==
    ASSUME queue' = queue, \A h \in Handler : OfRequest(h) \subseteq OfRequest(h)',
           OfRunner \subseteq OfRunner'
    PROVE  \A f \in Known : f \in Known'
<1>1. \A k : OfQueue(k)' = OfQueue(k)
  BY DEF OfQueue, Rest
<1> QED
  BY <1>1, KnownParts

LEMMA RunnerPlace ==
    ASSUME UNCHANGED runnerVars
    PROVE  OfRunner' = OfRunner
BY DEF OfRunner, Rest, runnerVars

LEMMA GivenForgets ==
    ASSUME CallersInv, Ownership, NothingForgotten, NEW h \in Handler,
           request[h] = Idle, NEW r, r # Idle, r.task \in Task,
           request' = [request EXCEPT ![h] = r],
           UNCHANGED <<queue, runnerVars>>,
           StatusKept(Range(r.task.fragments))
    PROVE  NothingForgotten'
<1>1. /\ request'[h] = r
      /\ \A g \in Handler \ {h} : request'[g] = request[g]
  BY DEF CallersInv, TypeOK, RequestTypeOK
<1>2. OfRequest(h)' = Range(r.task.fragments)
  BY <1>1, RestOfTask DEF OfRequest
<1>3. \A g \in Handler : OfRequest(g) \subseteq OfRequest(g)'
  BY <1>1 DEF OfRequest, Rest
<1>4. \A f \in Known : f \in Known'
  BY <1>3, RunnerPlace, KnownStays
<1>5. \A f \in Range(r.task.fragments) : f \in Known'
  BY <1>2, KnownParts
<1>6. NewWork(Range(r.task.fragments))
  BY OthersNewWork
<1> QED
  BY <1>4, <1>5, <1>6, ForgottenKept

LEMMA GenerateForgets ==
    ASSUME CallersInv, Ownership, NothingForgotten,
           NEW h \in Handler, Generate(h)
    PROVE  NothingForgotten'
<1>1. PICK j \in Job :
         /\ CreateJob(j)
         /\ request' = [request EXCEPT ![h] =
               Enqueueing("generate", [job |-> j, fragments |-> Catalog[j]],
                          <<>>)]
  BY DEF Generate
<1>2. PICK r : r = Enqueueing("generate", [job |-> j, fragments |-> Catalog[j]],
                              <<>>)
  OBVIOUS
<1>3. /\ r # Idle /\ r.task \in Task
      /\ Range(r.task.fragments) = FragmentsOf(j)
  <2>1. [job |-> j, fragments |-> Catalog[j]] \in Task
    BY CatalogAssumption DEF Task
  <2>2. r.pc = "enqueue" /\ r.task = [job |-> j, fragments |-> Catalog[j]]
    BY <1>2 DEF Enqueueing
  <2>3. r # Idle
    BY <2>2 DEF Idle
  <2> QED
    BY <2>1, <2>2, <2>3, CatalogAssumption
<1>4. StatusKept(FragmentsOf(j))
  <2>1. FreshRows(j) /\ jobStatus' = [jobStatus EXCEPT ![j] = "queued"]
    BY <1>1 DEF CreateJob
  <2>2. /\ \A f \in FragmentsOf(j) : status'[f] = "pending"
        /\ \A f \in Fragment \ FragmentsOf(j) : status'[f] = status[f]
    BY <2>1, FreshLeaves DEF CallersInv
  <2>3. \A f \in Fragment \ FragmentsOf(j) : Exists(f)' => Exists(f)
    BY <2>1, JobsAssumption DEF CallersInv, StoreTypeOK, Exists, FragmentsOf
  <2>4. \A f \in FragmentsOf(j) : ~Exists(f)
    BY <1>1 DEF CreateJob, Exists, FragmentsOf
  <2> QED
    BY <2>2, <2>3, <2>4 DEF StatusKept
<1> QED
  BY <1>1, <1>2, <1>3, <1>4, GivenForgets DEF Generate

LEMMA RetryForgets ==
    ASSUME CallersInv, Ownership, NothingForgotten, NEW h \in Handler, Retry(h)
    PROVE  NothingForgotten'
<1>1. PICK j \in Job :
         \E chosen \in Selections({f \in FragmentsOf(j) :
                                      attempt[f] < MaxAttempts}) :
            /\ PrepareRetry(j, Range(chosen))
            /\ request' = [request EXCEPT ![h] =
                  Enqueueing("retry", [job |-> j, fragments |-> chosen],
                             [f \in Range(chosen) |-> status[f]])]
  BY DEF Retry
<1>2. PICK chosen \in Selections({f \in FragmentsOf(j) :
                                     attempt[f] < MaxAttempts}) :
         /\ PrepareRetry(j, Range(chosen))
         /\ request' = [request EXCEPT ![h] =
               Enqueueing("retry", [job |-> j, fragments |-> chosen],
                          [f \in Range(chosen) |-> status[f]])]
  BY <1>1
<1>3. PICK r : r = Enqueueing("retry", [job |-> j, fragments |-> chosen],
                              [f \in Range(chosen) |-> status[f]])
  OBVIOUS
<1>4. r # Idle /\ r.task \in Task /\ r.task.fragments = chosen
  <2>1. {f \in FragmentsOf(j) : attempt[f] < MaxAttempts} \in SUBSET Fragment
    BY DEF FragmentsOf
  <2>2. [job |-> j, fragments |-> chosen] \in Task
    BY <2>1, SelectionType DEF Task
  <2>3. r.pc = "enqueue" /\ r.task = [job |-> j, fragments |-> chosen]
    BY <1>3 DEF Enqueueing
  <2>4. r # Idle
    BY <2>3 DEF Idle
  <2> QED
    BY <2>2, <2>3, <2>4
<1>5. StatusKept(Range(chosen))
  <2>1. /\ status' = [f \in Fragment |->
                        IF f \in Range(chosen) THEN "pending" ELSE status[f]]
        /\ jobStatus' = [jobStatus EXCEPT ![j] = "queued"]
        /\ jobStatus[j] # "absent"
        /\ \A f \in Range(chosen) : status[f] # "generating"
    BY <1>2 DEF PrepareRetry, RecomputeTo, Retryable
  <2> QED
    BY <2>1, JobsAssumption DEF StatusKept, CallersInv, StoreTypeOK, Exists
<1> QED
  BY <1>2, <1>3, <1>4, <1>5, GivenForgets DEF Retry

LEMMA EnqueueForgets ==
    ASSUME CallersInv, Ownership, NothingForgotten,
           NEW h \in Handler, Enqueue(h)
    PROVE  NothingForgotten'
<1>1. /\ queue \in Seq(Task) /\ Asks(h) /\ request[h].task \in Task
      /\ Refused(request[h]).task = request[h].task
      /\ UNCHANGED <<storeVars, runnerVars>>
  BY RequestFields DEF Enqueue, Asks, CallersInv, TypeOK, QueueTypeOK
<1>2. StatusKept({})
  BY <1>1, SameStatusKept DEF CallersInv, storeVars
<1>3. NewWork({})
  BY <1>1, <1>2, OthersNewWork
<1>4. OfRunner' = OfRunner
  BY <1>1, RunnerPlace
<1>5. CASE /\ queue' = Append(queue, request[h].task)
           /\ request' = [request EXCEPT ![h] = Idle]
  <2>0. PICK n : n = Len(queue) + 1
    OBVIOUS
  <2>1. /\ DOMAIN queue' = DOMAIN queue \cup {n}
        /\ \A k \in DOMAIN queue : queue'[k] = queue[k]
        /\ queue'[n] = request[h].task
    BY <1>1, <1>5, <2>0
  <2>2. \A g \in Handler : request'[g] = IF g = h THEN Idle ELSE request[g]
    BY <1>5 DEF CallersInv, TypeOK, RequestTypeOK
  <2>3. /\ \A k \in DOMAIN queue : OfQueue(k)' = OfQueue(k)
        /\ OfQueue(n)' = OfRequest(h)
        /\ \A g \in Handler \ {h} : OfRequest(g)' = OfRequest(g)
    <3>1. \A k \in DOMAIN queue : OfQueue(k)' = OfQueue(k)
      BY <2>1 DEF OfQueue, Rest
    <3>2. OfQueue(n)' = OfRequest(h)
      BY <1>1, <2>1 DEF OfQueue, OfRequest, Asks, Rest
    <3>3. \A g \in Handler \ {h} : OfRequest(g)' = OfRequest(g)
      BY <2>2 DEF OfRequest, Rest
    <3> QED
      BY <3>1, <3>2, <3>3
  <2>4. \A f \in Known : f \in Known'
    BY <1>4, <2>1, <2>3, KnownParts
  <2> QED
    BY <1>3, <2>4, ForgottenKept
<1>6. CASE queue' = queue /\ request' = [request EXCEPT ![h] = Refused(@)]
  <2>1. \A g \in Handler : request'[g] = IF g = h THEN Refused(request[h])
                                                   ELSE request[g]
    BY <1>6 DEF CallersInv, TypeOK, RequestTypeOK
  <2>2. Refused(request[h]) # Idle
    BY <1>1 DEF Refused, Idle, Asks, CallersInv, TypeOK, RequestTypeOK, Request
  <2>3. \A g \in Handler : OfRequest(g) \subseteq OfRequest(g)'
    BY <1>1, <2>1, <2>2 DEF OfRequest, Rest, Asks
  <2>4. \A f \in Known : f \in Known'
    BY <1>4, <1>6, <2>3, KnownStays
  <2> QED
    BY <1>3, <2>4, ForgottenKept
<1> QED
  BY <1>5, <1>6 DEF Enqueue

\* Undoing takes what it forgets out of the pending fragments.
LEMMA CompensateForgets ==
    ASSUME CallersInv, Ownership, NothingForgotten,
           NEW h \in Handler, Compensate(h)
    PROVE  NothingForgotten'
<1>1. /\ AsksNew(h) \/ AsksRetry(h)
      /\ UNCHANGED <<queue, runnerVars>>
      /\ request' = [request EXCEPT ![h] = Idle]
      /\ request[h].kind = "generate" => DeleteJob(JobAsked(h))
      /\ request[h].kind # "generate" =>
            CancelRetry(JobAsked(h), request[h].previous)
  BY RequestFields
  DEF Compensate, AsksNew, AsksRetry, Asks, JobAsked, CallersInv, TypeOK
<1>2. PICK j : j = JobAsked(h)
  OBVIOUS
<1>3. /\ j \in Job /\ jobStatus[j] # "absent" /\ StoreTypeOK
      /\ OfRequest(h) \subseteq FragmentsOf(j)
      /\ OfRequest(h) = Range(request[h].task.fragments)
  BY <1>1, <1>2, KnownBelongs
  DEF AsksNew, AsksRetry, Ownership, HandlersFit, JobAsked, Task, CallersInv
<1>4. \A f \in Known : f \in Known' \/ f \in OfRequest(h)
  <2>1. \A g \in Handler \ {h} : request'[g] = request[g]
    BY <1>1 DEF CallersInv, TypeOK, RequestTypeOK
  <2>2. \A g \in Handler \ {h} : OfRequest(g)' = OfRequest(g)
    BY <2>1 DEF OfRequest, Rest
  <2>3. \A k : OfQueue(k)' = OfQueue(k)
    BY <1>1 DEF OfQueue, Rest
  <2> QED
    BY <1>1, <2>2, <2>3, RunnerPlace, KnownParts
<1>5. CASE AsksNew(h)
  <2>1. FreshRows(j) /\ jobStatus' = [jobStatus EXCEPT ![j] = "absent"]
    BY <1>1, <1>2, <1>5 DEF AsksNew, DeleteJob
  <2>2. \A f \in Fragment \ FragmentsOf(j) : status'[f] = status[f]
    BY <1>3, <2>1, FreshLeaves
  <2>5. \A f \in Fragment \ FragmentsOf(j) : Exists(f)' => Exists(f)
    BY <1>3, <2>1, JobsAssumption DEF StoreTypeOK, Exists, FragmentsOf
  <2>3. \A f \in FragmentsOf(j) : ~Exists(f)'
    BY <1>3, <2>1 DEF Exists, FragmentsOf, StoreTypeOK
  <2>4. StatusKept({})
    BY <2>2, <2>3, <2>5 DEF StatusKept
  <2> QED
    BY <1>1, <1>3, <1>4, <2>3, <2>4, OthersNewWork, ForgottenKept
<1>6. CASE AsksRetry(h)
  <2> DEFINE previous == request[h].previous
  <2>1. /\ status' = [f \in Fragment |->
                        IF /\ f \in DOMAIN previous /\ JobOf[f] = j
                           /\ status[f] = "pending"
                        THEN previous[f] ELSE status[f]]
        /\ \E final : jobStatus' = [jobStatus EXCEPT ![j] = final]
    BY <1>1, <1>2, <1>3, <1>6 DEF AsksRetry, CancelRetry, Recompute, RecomputeTo
  <2>2. /\ \A f \in DOMAIN previous : previous[f] \in Retryable
        /\ DOMAIN previous = OfRequest(h)
    <3>1. DOMAIN previous = OfRequest(h)
      BY <1>3, <1>6 DEF Ownership, RetriesFit
    <3>2. \E S : previous \in [S -> Retryable]
      BY <1>6 DEF AsksRetry, Asks, CallersInv, RequestsFit
    <3> QED
      BY <3>1, <3>2
  <2> HIDE DEF previous
  <2>3. StatusKept({})
    BY <1>3, <2>1, <2>2, JobsAssumption
    DEF StatusKept, StoreTypeOK, Exists, Retryable
  <2>4. \A f \in OfRequest(h) : status'[f] # "pending"
    BY <1>3, <2>1, <2>2 DEF Retryable, FragmentsOf
  <2> QED
    BY <1>1, <1>4, <2>3, <2>4, OthersNewWork, ForgottenKept
<1> QED
  BY <1>1, <1>5, <1>6

\* Past its current fragment the runner has the rest of its task.
LEMMA NextKnown ==
    ASSUME RunnerTypeOK, pc \in {"claim", "work", "warned"}, NextFragment
    PROVE  OfRunner' = Rest(task, index + 1) /\ Running' = {}
<1>1. task \in Task /\ index \in 1 .. Len(task.fragments)
  BY CurrentFragmentType
<1>2. index + 1 > Len(task.fragments) => Rest(task, index + 1) = {}
  BY <1>1 DEF Rest, Task
<1> QED
  BY <1>1, <1>2 DEF NextFragment, ToFragment, OfRunner, Running, Rest, Task

\* The runner's fragment is there, and pending when it is to be claimed.
LEMMA CurrentExists ==
    ASSUME CallersInv, Ownership, pc \in {"claim", "work", "warned"}
    PROVE  /\ Exists(CurrentFragment)
           /\ pc = "claim" => status[CurrentFragment] = "pending"
<1>1. /\ task \in Task /\ index \in 1 .. Len(task.fragments)
      /\ jobStatus[task.job] # "absent" /\ TaskFits(task)
  BY CurrentFragmentType DEF CallersInv, TypeOK, Ownership, RunnerFits, Busy
<1>2. CurrentFragment \in FragmentsOf(task.job)
  BY <1>1, RestOfTask DEF CurrentFragment, TaskFits
<1>3. pc = "claim" => CurrentFragment \in OfRunner
  BY <1>1, RestOfTask DEF CurrentFragment, OfRunner
<1> QED
  BY <1>1, <1>2, <1>3, KnownParts
  DEF Exists, FragmentsOf, Ownership, KnownWorkIsPending

\* Steps of the runner that keep the statuses.
LEMMA QuietForgets ==
    ASSUME CallersInv, NothingForgotten, status' = status,
           \A j \in Job : jobStatus[j] = "absent" => jobStatus'[j] = "absent",
           pc # "work", pc' # "work",
           \A f \in Known : f \in Known'
    PROVE  NothingForgotten'
<1>1. Running = {} /\ Running' = {}
  BY DEF Running
<1>2. \A f \in Fragment : Exists(f)' => Exists(f)
  BY JobsAssumption DEF Exists
<1>3. NewWork({})
  BY <1>1, <1>2 DEF NewWork, NothingForgotten, Running
<1> QED
  BY <1>3, ForgottenKept

\* Steps of the runner on its current fragment.
LEMMA CurrentForgets ==
    ASSUME CallersInv, Ownership, NothingForgotten, Stay,
           pc \in {"claim", "work", "warned"},
           NEW new, status' = [status EXCEPT ![CurrentFragment] = new],
           \/ jobStatus' = jobStatus
           \/ \E final : jobStatus' = [jobStatus EXCEPT ![JobOf[CurrentFragment]] = final],
           \/ new = "generating" /\ pc' = "work" /\ CurrentFragment' = CurrentFragment
           \/ new # "generating" /\ pc' # "work",
           new = "pending" => CurrentFragment \in Known',
           \A f \in OfRunner : f = CurrentFragment \/ f \in OfRunner'
    PROVE  NothingForgotten'
<1>1. PICK c : c = CurrentFragment
  OBVIOUS
<1>2. /\ c \in Fragment /\ Exists(c) /\ StoreTypeOK
  BY <1>1, CurrentFragmentType, CurrentExists DEF CallersInv, TypeOK
<1>3. Running' = IF new = "generating" THEN {c} ELSE {}
  BY <1>1 DEF Running
<1>4. /\ \A f \in Fragment : status'[f] = IF f = c THEN new ELSE status[f]
      /\ \A f \in Fragment : Exists(f)' => Exists(f)
  BY <1>1, <1>2, JobsAssumption DEF StoreTypeOK, Exists
<1>5. \A f \in Fragment : Exists(f) /\ status[f] = "generating" => f = c
  BY <1>1 DEF NothingForgotten
<1>6. NewWork(IF new = "pending" THEN {c} ELSE {})
  BY <1>3, <1>4, <1>5 DEF NewWork
<1>7. \A f \in Known : f \in Known' \/ f = c
  <2>1. /\ \A k : OfQueue(k)' = OfQueue(k)
        /\ \A h : OfRequest(h)' = OfRequest(h)
        /\ queue' = queue
    BY DEF OfQueue, OfRequest, Rest, Stay
  <2> QED
    BY <1>1, <2>1, KnownParts
<1> QED
  BY <1>1, <1>2, <1>4, <1>6, <1>7, ForgottenKept

LEMMA TakeForgets ==
    ASSUME CallersInv, NothingForgotten, TakeTask
    PROVE  NothingForgotten'
<1>1. /\ queue \in Seq(Task) /\ queue # <<>>
      /\ task' = Head(queue) /\ queue' = Tail(queue)
      /\ pc = "idle" /\ pc' = "begin" /\ request' = request
      /\ UNCHANGED storeVars
  BY DEF TakeTask, CallersInv, TypeOK, QueueTypeOK
<1>2. \A k \in DOMAIN queue :
         \/ k = 1 /\ queue[k] = task'
         \/ k - 1 \in DOMAIN queue' /\ queue'[k - 1] = queue[k]
  BY <1>1
<1>3. \A f \in Known : f \in Known'
  <2>1. OfRunner = {} /\ OfRunner' = Rest(task', 1)
    BY <1>1 DEF OfRunner, Rest
  <2>2. \A h : OfRequest(h)' = OfRequest(h)
    BY <1>1 DEF OfRequest, Rest
  <2>3. \A k : OfQueue(k) = Rest(queue[k], 1)
    BY DEF OfQueue
  <2>4. \A k : OfQueue(k)' = Rest(queue'[k], 1)
    BY DEF OfQueue, Rest
  <2> QED
    BY <1>2, <2>1, <2>2, <2>3, <2>4, KnownParts
<1> QED
  BY <1>1, <1>3, QuietForgets DEF storeVars

LEMMA RunnerForgets ==
    ASSUME Faults = {}, Quiet, CallersInv, Ownership, NothingForgotten, Runner
    PROVE  NothingForgotten'
<1>1. /\ RunnerTypeOK /\ StoreTypeOK /\ ~CallFails /\ "db" \notin Faults
      /\ ~closed
  BY DEF CallersInv, TypeOK, CallFails, Quiet
<1>2. ~LoopExit /\ ~Abandon
  BY <1>1 DEF LoopExit, Abandon
<1>3. ~DropTask
  <2>1. pc = "begin" => jobStatus[task.job] # "absent"
    BY DEF Ownership, RunnerFits, Busy
  <2> QED
    BY <1>1, <2>1 DEF DropTask
<1>4. ~SkipFragment
  BY <1>1, CurrentExists DEF SkipFragment
<1>5. ~LoseResult
  <2>1. pc = "work" => status[CurrentFragment] = "generating"
    BY <1>1, CurrentFragmentType, CurrentExists DEF NothingForgotten
  <2> QED
    BY <1>1, <2>1 DEF LoseResult
<1>6. ASSUME NEW j \in Job, NEW final, jobStatus[j] # "absent",
             jobStatus' = [jobStatus EXCEPT ![j] = final]
      PROVE  \A k \in Job : jobStatus[k] = "absent" => jobStatus'[k] = "absent"
  BY <1>1, <1>6 DEF StoreTypeOK
<1>7. CASE BeginTask
  <2>1. /\ status' = status /\ Stay /\ pc = "begin" /\ pc' # "work"
        /\ ToFragment(task, 1) /\ task' = task
        /\ StartTask(task.job) /\ task \in Task
    BY <1>1, <1>7 DEF BeginTask, StartTask, ToFragment, RunnerTypeOK
  <2>2. \A j \in Job : jobStatus[j] = "absent" => jobStatus'[j] = "absent"
    BY <1>6, <2>1 DEF StartTask, Task
  <2>3. OfRunner \subseteq OfRunner'
    <3>1. 1 > Len(task.fragments) => Rest(task, 1) = {}
      BY <2>1 DEF Rest, Task
    <3>2. OfRunner = Rest(task, 1)
      BY <2>1 DEF OfRunner
    <3>3. pc' = "claim" => OfRunner' = Rest(task, 1)
      BY <2>1 DEF OfRunner, ToFragment, Rest
    <3> QED
      BY <2>1, <3>1, <3>2, <3>3 DEF ToFragment, Task
  <2>4. \A h \in Handler : OfRequest(h)' = OfRequest(h)
    BY <2>1 DEF OfRequest, Rest, Stay
  <2> QED
    BY <2>1, <2>2, <2>3, <2>4, KnownStays, QuietForgets DEF Stay
<1>8. CASE EndTask \/ EndTaskFails
  <2>1. /\ status' = status /\ Stay /\ pc = "finish" /\ pc' = "idle"
        /\ FinishTask(task.job) \/ jobStatus' = jobStatus
        /\ task \in Task
    BY <1>1, <1>8
    DEF EndTask, EndTaskFails, FinishTask, ToIdle, RunnerTypeOK, storeVars
  <2>2. \A j \in Job : jobStatus[j] = "absent" => jobStatus'[j] = "absent"
    BY <1>6, <2>1 DEF FinishTask, Recompute, RecomputeTo, Task
  <2>3. OfRunner = {}
    BY <2>1 DEF OfRunner
  <2>4. \A h \in Handler : OfRequest(h)' = OfRequest(h)
    BY <2>1 DEF OfRequest, Rest, Stay
  <2> QED
    BY <2>1, <2>2, <2>3, <2>4, KnownStays, QuietForgets DEF Stay
<1>9. CASE AutoRetryRejected
  <2>1. /\ status' = status /\ jobStatus' = jobStatus /\ Stay
        /\ pc = "warned" /\ NextFragment
    BY <1>9 DEF AutoRetryRejected, storeVars
  <2>2. OfRunner = Rest(task, index + 1)
    BY <2>1 DEF OfRunner
  <2>3. OfRunner' = OfRunner /\ pc' # "work"
    BY <1>1, <2>1, <2>2, NextKnown, NextFragmentLeaves
  <2>4. \A h \in Handler : OfRequest(h)' = OfRequest(h)
    BY <2>1 DEF OfRequest, Rest, Stay
  <2> QED
    BY <2>1, <2>3, <2>4, KnownStays, QuietForgets DEF Stay
<1>10. CASE ClaimFragment
  <2>1. /\ status' = [status EXCEPT ![CurrentFragment] = "generating"]
        /\ jobStatus' = jobStatus /\ Stay
        /\ pc = "claim" /\ pc' = "work" /\ UNCHANGED <<task, index>>
    BY <1>10 DEF ClaimFragment, StartFragment
  <2>2. CurrentFragment' = CurrentFragment
    BY <2>1 DEF CurrentFragment
  <2>3. \A f \in OfRunner : f = CurrentFragment \/ f \in OfRunner'
    <3>1. /\ OfRunner = Rest(task, index) /\ OfRunner' = Rest(task, index + 1)
          /\ task \in Task /\ index \in 1 .. Len(task.fragments)
      BY <1>1, <2>1, CurrentFragmentType DEF OfRunner, Rest
    <3> QED
      BY <3>1, RestOfTask DEF CurrentFragment
  <2> QED
    BY <2>1, <2>2, <2>3, CurrentForgets
<1>11. ASSUME NEW new, new \notin Unsettled, pc = "work", Stay,
              status' = [status EXCEPT ![CurrentFragment] = new],
              Recompute(JobOf[CurrentFragment], status'),
              NextFragment \/ (pc' = "warned" /\ UNCHANGED <<task, index>>)
       PROVE  NothingForgotten'
  <2>1. OfRunner = Rest(task, index + 1)
    BY <1>11 DEF OfRunner
  <2>2. OfRunner' = Rest(task, index + 1) /\ pc' # "work"
    <3>1. CASE NextFragment
      BY <1>1, <1>11, <3>1, NextKnown, NextFragmentLeaves
    <3>2. CASE pc' = "warned" /\ UNCHANGED <<task, index>>
      BY <3>2 DEF OfRunner, Rest
    <3> QED
      BY <1>11, <3>1, <3>2
  <2>3. \E final : jobStatus' = [jobStatus EXCEPT ![JobOf[CurrentFragment]] = final]
    BY <1>11 DEF Recompute, RecomputeTo
  <2> QED
    BY <1>11, <2>1, <2>2, <2>3, CurrentForgets DEF Unsettled
<1>12. ASSUME NEW c \in {""} \cup ValidationCode, Complete(c)
       PROVE  NothingForgotten'
  BY <1>11, <1>12 DEF Complete, CompleteFragment, Unsettled
<1>13. CASE Fail
  BY <1>11, <1>13 DEF Fail, FailFragment, Unsettled
<1>14. CASE AutoRetry
  <2>1. /\ status' = [status EXCEPT ![CurrentFragment] = "pending"]
        /\ \E final : jobStatus' = [jobStatus EXCEPT ![JobOf[CurrentFragment]] = final]
        /\ Stay /\ pc = "warned" /\ pc' = "claim" /\ UNCHANGED <<task, index>>
    BY <1>14 DEF AutoRetry, PrepareAutomaticWarningRetry, RecomputeTo
  <2>2. /\ OfRunner = Rest(task, index + 1) /\ OfRunner' = Rest(task, index)
        /\ task \in Task /\ index \in 1 .. Len(task.fragments)
    BY <1>1, <2>1, CurrentFragmentType DEF OfRunner, Rest
  <2>3. CurrentFragment \in OfRunner' /\ OfRunner \subseteq OfRunner'
    BY <2>2, RestOfTask DEF CurrentFragment
  <2>4. CurrentFragment \in Known'
    BY <2>3, KnownParts
  <2> QED
    BY <2>1, <2>3, <2>4, CurrentForgets
<1> QED
  BY <1>2, <1>3, <1>4, <1>5, <1>7, <1>8, <1>9, <1>10, <1>12, <1>13, <1>14,
     TakeForgets DEF Runner

LEMMA ForgottenStep ==
    ASSUME Faults = {}, Quiet, CallersInv, Ownership, AbsentIsFresh,
           NothingForgotten, [Next]_vars
    PROVE  NothingForgotten'
<1>1. ASSUME NEW h \in Handler PROVE ~CompensateFails(h) /\ ~ScheduleFails(h)
  BY DEF CompensateFails, ScheduleFails, RequestFails
<1>2. ~Close /\ ~Restart
  BY DEF Close, Restart, Quiet
<1>3. CASE Client \/ Rewriter \/ UNCHANGED vars
  <2>1. UNCHANGED <<queue, request, runnerVars>>
    BY <1>3 DEF Client, Rewriter, vars
  <2>2. StatusKept({})
    BY <1>3, ClientStatusKept, SameStatusKept DEF CallersInv, vars, storeVars
  <2>3. \A h \in Handler : OfRequest(h)' = OfRequest(h)
    BY <2>1 DEF OfRequest, Rest
  <2> QED
    BY <2>1, <2>2, <2>3, RunnerPlace, KnownStays, OthersNewWork, ForgottenKept
<1> QED
  BY <1>1, <1>2, <1>3, GenerateForgets, RetryForgets, EnqueueForgets,
     CompensateForgets, RunnerForgets DEF Next

\* Without faults no work is forgotten: a pending fragment of a job that is
\* there is in a task the program knows of, and a fragment is generating
\* exactly while the runner works on it.
THEOREM NothingEverForgotten ==
    ASSUME Faults = {}
    PROVE  Spec => []NothingForgotten
<1>1. Init => Quiet /\ NothingForgotten /\ AbsentIsFresh
  <2> SUFFICES ASSUME Init PROVE Quiet /\ NothingForgotten /\ AbsentIsFresh
    OBVIOUS
  <2>1. Quiet /\ AbsentIsFresh
    BY AbsentInit DEF Init, Quiet
  <2>2. \A f \in Fragment : ~Exists(f)
    BY JobsAssumption DEF Init, StoreInit, Exists
  <2> QED
    BY <2>1, <2>2 DEF NothingForgotten
<1>2. Quiet /\ [Next]_vars => Quiet'
  BY QuietStep
<1>3. CallersInv /\ AbsentIsFresh /\ [StoreNext]_storeVars => AbsentIsFresh'
  BY AbsentStep DEF CallersInv
<1>4. Quiet /\ CallersInv /\ Ownership /\ AbsentIsFresh /\ NothingForgotten
      /\ [Next]_vars => NothingForgotten'
  BY ForgottenStep
<1> QED
  BY <1>1, <1>2, <1>3, <1>4, OwnershipInit, OwnershipStep, CallersInit,
     CallersStep, PTL DEF Spec

\* An active job without the runner has a task that waits, and a job with a
\* task that waits has no rewrite task.
LEMMA MeetsOnlyRunner ==
    ASSUME CallersInv, Ownership, ActiveHasWork, NothingForgotten,
           RewritingStaysOut
    PROVE  RewriteMeetsGeneration
<1> SUFFICES ASSUME NEW j \in Job, rewriting[j] # {}, Active(j)
             PROVE  Busy /\ task.job = j
  BY DEF RewriteMeetsGeneration, Busy
<1>1. PICK f \in FragmentsOf(j) : status[f] \in Unsettled
  BY DEF ActiveHasWork, HasWork
<1>2. f \in Fragment /\ JobOf[f] = j /\ Exists(f)
  BY <1>1 DEF FragmentsOf, Exists, Active
<1>3. CASE status[f] = "generating"
  <2>1. pc = "work" /\ f = CurrentFragment
    BY <1>2, <1>3 DEF NothingForgotten
  <2>2. Busy /\ task \in Task /\ index \in 1 .. Len(task.fragments)
        /\ TaskFits(task)
    BY <2>1, CurrentFragmentType
    DEF CallersInv, TypeOK, Ownership, RunnerFits, Busy
  <2>3. f \in FragmentsOf(task.job)
    BY <2>1, <2>2, RestOfTask DEF CurrentFragment, TaskFits
  <2> QED
    BY <1>2, <2>2, <2>3 DEF FragmentsOf
<1>4. CASE status[f] = "pending"
  <2>1. f \in Known
    BY <1>2, <1>4 DEF NothingForgotten
  <2>2. CASE f \in OfRunner
    BY <1>2, <2>2, KnownBelongs DEF FragmentsOf
  <2>3. ASSUME NEW k \in DOMAIN queue, f \in OfQueue(k) PROVE FALSE
    <3>1. queue[k].job = j
      BY <1>2, <2>3, KnownBelongs DEF FragmentsOf
    <3> QED
      BY <3>1 DEF RewritingStaysOut, WaitingJobs
  <2>4. ASSUME NEW h \in Handler, f \in OfRequest(h) PROVE FALSE
    <3>1. Asks(h)
      BY <2>4 DEF OfRequest, Asks
    <3>2. JobAsked(h) = j
      BY <1>2, <2>4, <3>1, KnownBelongs DEF FragmentsOf
    <3> QED
      BY <3>1, <3>2 DEF RewritingStaysOut, WaitingJobs
  <2> QED
    BY <2>1, <2>2, <2>3, <2>4, KnownParts
<1> QED
  BY <1>1, <1>3, <1>4 DEF Unsettled

\* Without faults a job that has a rewrite task and is active is the one the
\* runner processes: generation and rewriting meet in no other window.
THEOREM RewritingMeetsOnlyRunner ==
    ASSUME Faults = {}
    PROVE  Spec => []RewriteMeetsGeneration
<1>1. CallersInv /\ Ownership /\ ActiveHasWork /\ NothingForgotten
      /\ RewritingStaysOut => RewriteMeetsGeneration
  BY MeetsOnlyRunner
<1> QED
  BY <1>1, ActiveJobsHaveWork, NothingEverForgotten, RewritingAlwaysStaysOut,
     OwnershipInit, OwnershipStep, CallersInit, CallersStep, PTL DEF Spec

=============================================================================
