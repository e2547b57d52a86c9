------------------------ MODULE FragmentStoreProofs ------------------------
(***************************************************************************)
(* What the tables promise, proved for every set of jobs, fragments and    *)
(* texts.  The invariant is inductive as the conjunction of its parts: the *)
(* counters and the final statuses need the types only, the record of the  *)
(* attempts needs the statuses, and the exportability of a completed job   *)
(* follows from its honest status and from ReadyHasAudio.                  *)
(***************************************************************************)
EXTENDS FragmentStore, FiniteSetTheorems, TLAPS

\* A ready fragment has audio, whichever of validation and approval made it
\* ready.
ReadyHasAudio == \A f \in Fragment : status[f] = "ready" => audio[f] # NoAudio

-----------------------------------------------------------------------------
(* The operators behind the job row.                                       *)

\* The counters are numbers.
LEMMA CountsType ==
    ASSUME NEW j \in Job, NEW st
    PROVE  CountsOf(j, st) \in [pending : Nat, ready : Nat, warnings : Nat,
                                failed : Nat]
<1> DEFINE In(S) == {f \in FragmentsOf(j) : st[f] \in S}
<1>1. \A S : IsFiniteSet(In(S))
  BY FragmentsAssumption, FS_Subset DEF FragmentsOf
<1>2. \A S : Cardinality(In(S)) \in Nat
  BY <1>1, FS_CardinalityType
<1> QED
  BY <1>2 DEF CountsOf

\* The status of a job that is not queued.
LEMMA StatusForType ==
    ASSUME NEW j, NEW st
    PROVE  StatusFor(j, st) \in JobStatus
BY DEF StatusFor, JobStatus

\* Counters and status see a fragment's status only up to the difference
\* between pending and generating, and only of the job's own fragments.
LEMMA RowDependsOnOwnFragments ==
    ASSUME NEW j, NEW st1, NEW st2,
           \A f \in FragmentsOf(j) :
              st1[f] = st2[f] \/ (st1[f] \in Unsettled /\ st2[f] \in Unsettled)
    PROVE  /\ CountsOf(j, st1) = CountsOf(j, st2)
           /\ StatusFor(j, st1) = StatusFor(j, st2)
<1>1. \A f \in FragmentsOf(j) :
         /\ st1[f] \in Unsettled <=> st2[f] \in Unsettled
         /\ st1[f] \in {"ready"} <=> st2[f] \in {"ready"}
         /\ st1[f] \in {"warning"} <=> st2[f] \in {"warning"}
         /\ st1[f] \in {"failed"} <=> st2[f] \in {"failed"}
         /\ st1[f] \in Unsettled \cup {"failed"}
               <=> st2[f] \in Unsettled \cup {"failed"}
  BY DEF Unsettled
<1> DEFINE In(st, S) == {f \in FragmentsOf(j) : st[f] \in S}
<1>2. /\ In(st1, Unsettled) = In(st2, Unsettled)
      /\ In(st1, {"ready"}) = In(st2, {"ready"})
      /\ In(st1, {"warning"}) = In(st2, {"warning"})
      /\ In(st1, {"failed"}) = In(st2, {"failed"})
  BY <1>1
<1>3. CountsOf(j, st1) = CountsOf(j, st2)
  BY <1>2 DEF CountsOf
<1>4. StatusFor(j, st1) = StatusFor(j, st2)
  BY <1>1 DEF StatusFor
<1> QED
  BY <1>3, <1>4

-----------------------------------------------------------------------------
(* Types.                                                                  *)

\* Recomputing a job keeps the types of the job's columns.
LEMMA RecomputeType ==
    ASSUME StoreTypeOK, NEW j \in Job, NEW st, NEW final \in JobStatus,
           RecomputeTo(j, st, final)
    PROVE  /\ jobStatus' \in [Job -> JobStatus \cup {"absent"}]
           /\ counts' \in [Job -> [pending : Nat, ready : Nat,
                                   warnings : Nat, failed : Nat]]
<1>1. CountsOf(j, st) \in [pending : Nat, ready : Nat, warnings : Nat,
                           failed : Nat]
  BY CountsType
<1> QED
  BY <1>1 DEF StoreTypeOK, RecomputeTo

\* The first revision of a fragment is a history of one text.
LEMMA FirstRevisionType ==
    ASSUME NEW f \in Fragment
    PROVE  <<Source[f]>> \in Seq(Text) \ {<<>>}
<1>1. Source[f] \in Text
  BY TextAssumption
<1>2. <<Source[f]>> \in Seq(Text) /\ Len(<<Source[f]>>) = 1
  BY <1>1
<1>3. <<Source[f]>> # <<>>
  BY <1>2
<1> QED
  BY <1>2, <1>3

LEMMA FreshRowsType ==
    ASSUME StoreTypeOK, NEW j \in Job, FreshRows(j)
    PROVE  /\ counts' \in [Job -> [pending : Nat, ready : Nat,
                                   warnings : Nat, failed : Nat]]
           /\ rewriting' \in [Job -> SUBSET Fragment]
           /\ \A k \in Job : rewriting'[k] \subseteq FragmentsOf(k)
           /\ status' \in [Fragment -> FragmentStatus]
           /\ text' \in [Fragment -> Text]
           /\ revisions' \in [Fragment -> Seq(Text) \ {<<>>}]
           /\ audio' \in [Fragment -> Text \cup {NoAudio}]
           /\ code' \in [Fragment -> WarningCode]
           /\ attempt' \in [Fragment -> Nat]
           /\ log' \in [Fragment -> SUBSET [attempt : Nat, outcome : Outcome]]
           /\ approved' \in [Fragment -> SUBSET Nat]
<1> USE DEF StoreTypeOK, FreshRows, Inserted
<1>1. CountsOf(j, [f \in Fragment |-> "pending"])
         \in [pending : Nat, ready : Nat, warnings : Nat, failed : Nat]
  BY CountsType
<1>2. counts' \in [Job -> [pending : Nat, ready : Nat, warnings : Nat,
                           failed : Nat]]
  BY <1>1
<1>3. /\ rewriting' \in [Job -> SUBSET Fragment]
      /\ \A k \in Job : rewriting'[k] \subseteq FragmentsOf(k)
  OBVIOUS
<1>4. status' \in [Fragment -> FragmentStatus]
  BY DEF FragmentStatus
<1>5. text' \in [Fragment -> Text]
  BY TextAssumption
<1>7. revisions' \in [Fragment -> Seq(Text) \ {<<>>}]
  BY FirstRevisionType
<1>8. audio' \in [Fragment -> Text \cup {NoAudio}]
  OBVIOUS
<1>9. code' \in [Fragment -> WarningCode]
  BY DEF WarningCode
<1>10. attempt' \in [Fragment -> Nat]
  OBVIOUS
<1>11. log' \in [Fragment -> SUBSET [attempt : Nat, outcome : Outcome]]
  OBVIOUS
<1>12. approved' \in [Fragment -> SUBSET Nat]
  OBVIOUS
<1> QED
  BY <1>2, <1>3, <1>4, <1>5, <1>7, <1>8, <1>9, <1>10, <1>11, <1>12

LEMMA SetTextType ==
    ASSUME StoreTypeOK, NEW f \in Fragment, NEW t \in Text, SetText(f, t)
    PROVE  /\ text' \in [Fragment -> Text]
           /\ revisions' \in [Fragment -> Seq(Text) \ {<<>>}]
           /\ audio' \in [Fragment -> Text \cup {NoAudio}]
<1>1. Append(revisions[f], t) \in Seq(Text) \ {<<>>}
  <2>1. revisions[f] \in Seq(Text)
    BY DEF StoreTypeOK
  <2>2. Append(revisions[f], t) \in Seq(Text) /\ Len(Append(revisions[f], t)) > 0
    BY <2>1
  <2> QED
    BY <2>2
<1> QED
  BY <1>1 DEF StoreTypeOK, SetText

LEMMA InsertAttemptType ==
    ASSUME StoreTypeOK, NEW f \in Fragment, NEW outcome \in Outcome,
           InsertAttempt(f, outcome)
    PROVE  log' \in [Fragment -> SUBSET [attempt : Nat, outcome : Outcome]]
BY DEF StoreTypeOK, InsertAttempt

\* Every transaction on a job keeps the types.
LEMMA JobStepType ==
    ASSUME StoreTypeOK, NEW j \in Job, JobStep(j)
    PROVE  StoreTypeOK'
<1>1. CASE CreateJob(j)
  BY <1>1, FreshRowsType DEF CreateJob, StoreTypeOK, JobStatus
<1>2. CASE DeleteJob(j)
  BY <1>2, FreshRowsType DEF DeleteJob, StoreTypeOK
<1>3. CASE StartTask(j)
  BY <1>3 DEF StartTask, StoreTypeOK, JobStatus
<1>4. CASE FinishTask(j)
  BY <1>4, RecomputeType, StatusForType DEF FinishTask, Recompute, StoreTypeOK
<1>5. ASSUME NEW S \in SUBSET FragmentsOf(j), PrepareRetry(j, S)
      PROVE  StoreTypeOK'
  <2>1. /\ jobStatus' \in [Job -> JobStatus \cup {"absent"}]
        /\ counts' \in [Job -> [pending : Nat, ready : Nat, warnings : Nat,
                                failed : Nat]]
    BY <1>5, RecomputeType DEF PrepareRetry, JobStatus
  <2>2. status' \in [Fragment -> FragmentStatus]
    BY <1>5 DEF PrepareRetry, StoreTypeOK, FragmentStatus
  <2> QED
    BY <1>5, <2>1, <2>2 DEF PrepareRetry, StoreTypeOK
<1>6. ASSUME NEW S \in SUBSET FragmentsOf(j), CreateRewriteTask(j, S)
      PROVE  StoreTypeOK'
  BY <1>6 DEF CreateRewriteTask, StoreTypeOK, FragmentsOf
<1>7. ASSUME NEW S \in SUBSET FragmentsOf(j), NEW previous \in [S -> Retryable],
             CancelRetry(j, previous)
      PROVE  StoreTypeOK'
  <2>1. CASE jobStatus[j] = "absent"
    BY <1>7, <2>1 DEF CancelRetry, storeVars, StoreTypeOK
  <2>2. CASE jobStatus[j] # "absent"
    <3>1. /\ jobStatus' \in [Job -> JobStatus \cup {"absent"}]
          /\ counts' \in [Job -> [pending : Nat, ready : Nat, warnings : Nat,
                                  failed : Nat]]
      BY <1>7, <2>2, RecomputeType, StatusForType DEF CancelRetry, Recompute
    <3>2. status' \in [Fragment -> FragmentStatus]
      <4>1. /\ status \in [Fragment -> FragmentStatus]
            /\ \A f \in S : previous[f] \in FragmentStatus
        BY DEF StoreTypeOK, FragmentStatus, Retryable
      <4>2. PICK G : G = {f \in S : JobOf[f] = j /\ status[f] = "pending"}
        OBVIOUS
      <4>3. \A f \in Fragment :
               f \in G <=> /\ f \in DOMAIN previous /\ JobOf[f] = j
                          /\ status[f] = "pending"
        BY <4>2
      <4>4. status' = [f \in Fragment |-> IF f \in G
                                          THEN previous[f] ELSE status[f]]
        BY <1>7, <2>2, <4>3 DEF CancelRetry
      <4> QED
        BY <4>1, <4>2, <4>4
    <3> QED
      BY <1>7, <2>2, <3>1, <3>2 DEF CancelRetry, StoreTypeOK
  <2> QED
    BY <2>1, <2>2
<1>8. CASE DeleteRewriteTask(j)
  BY <1>8 DEF DeleteRewriteTask, StoreTypeOK
<1> QED
  BY <1>1, <1>2, <1>3, <1>4, <1>5, <1>6, <1>7, <1>8 DEF JobStep

\* Every transaction on a fragment keeps the types.
LEMMA FragmentStepType ==
    ASSUME StoreTypeOK, NEW f \in Fragment, FragmentStep(f)
    PROVE  StoreTypeOK'
<1> JobOf[f] \in Job
  BY JobsAssumption
<1> DEFINE RowsOK == /\ jobStatus' \in [Job -> JobStatus \cup {"absent"}]
                     /\ counts' \in [Job -> [pending : Nat, ready : Nat,
                                             warnings : Nat, failed : Nat]]
<1>1. CASE StartFragment(f)
  <2>1. status' \in [Fragment -> FragmentStatus]
    BY <1>1 DEF StartFragment, StoreTypeOK, FragmentStatus
  <2>3. code' \in [Fragment -> WarningCode]
    <3>1. code' = [code EXCEPT ![f] = ""] /\ code \in [Fragment -> WarningCode]
      BY <1>1 DEF StartFragment, StoreTypeOK
    <3> QED
      BY <3>1 DEF WarningCode
  <2>2. attempt' \in [Fragment -> Nat]
    <3>1. /\ attempt' = [attempt EXCEPT ![f] = attempt[f] + 1]
          /\ attempt \in [Fragment -> Nat]
      BY <1>1 DEF StartFragment, StoreTypeOK
    <3> QED
      BY <3>1
  <2>4. UNCHANGED <<jobStatus, counts, rewriting, text, revisions, audio, log,
                    approved>>
    BY <1>1 DEF StartFragment
  <2> QED
    BY <2>1, <2>2, <2>3, <2>4 DEF StoreTypeOK
<1>2. ASSUME NEW spoken \in Text, NEW c \in {""} \cup ValidationCode,
             CompleteFragment(f, spoken, c)
      PROVE  StoreTypeOK'
  <2>1. RowsOK
    BY <1>2, RecomputeType, StatusForType DEF CompleteFragment, Recompute
  <2>2. log' \in [Fragment -> SUBSET [attempt : Nat, outcome : Outcome]]
    BY <1>2, InsertAttemptType DEF CompleteFragment, Outcome
  <2>3. status' \in [Fragment -> FragmentStatus]
    BY <1>2 DEF CompleteFragment, StoreTypeOK, FragmentStatus
  <2>4. /\ code' \in [Fragment -> WarningCode]
        /\ audio' \in [Fragment -> Text \cup {NoAudio}]
    BY <1>2 DEF CompleteFragment, StoreTypeOK, WarningCode
  <2> QED
    BY <1>2, <2>1, <2>2, <2>3, <2>4 DEF CompleteFragment, StoreTypeOK
<1>3. CASE FailFragment(f)
  <2>1. RowsOK
    BY <1>3, RecomputeType, StatusForType DEF FailFragment, Recompute
  <2>2. log' \in [Fragment -> SUBSET [attempt : Nat, outcome : Outcome]]
    BY <1>3, InsertAttemptType DEF FailFragment, Outcome
  <2>3. status' \in [Fragment -> FragmentStatus] /\ code' \in [Fragment -> WarningCode]
    BY <1>3 DEF FailFragment, StoreTypeOK, FragmentStatus, WarningCode
  <2> QED
    BY <1>3, <2>1, <2>2, <2>3 DEF FailFragment, StoreTypeOK
<1>4. CASE PrepareAutomaticWarningRetry(f)
  <2>1. RowsOK
    BY <1>4, RecomputeType DEF PrepareAutomaticWarningRetry, JobStatus
  <2>2. status' \in [Fragment -> FragmentStatus] /\ code' \in [Fragment -> WarningCode]
    BY <1>4 DEF PrepareAutomaticWarningRetry, StoreTypeOK, FragmentStatus, WarningCode
  <2> QED
    BY <1>4, <2>1, <2>2 DEF PrepareAutomaticWarningRetry, StoreTypeOK
<1>5. ASSUME NEW t \in Text, EditFragment(f, t)
      PROVE  StoreTypeOK'
  <2>1. RowsOK
    BY <1>5, RecomputeType, StatusForType DEF EditFragment, Recompute
  <2>2. status' \in [Fragment -> FragmentStatus] /\ code' \in [Fragment -> WarningCode]
    BY <1>5 DEF EditFragment, StoreTypeOK, FragmentStatus, WarningCode, TextCode
  <2> QED
    BY <1>5, <2>1, <2>2, SetTextType DEF EditFragment, StoreTypeOK
<1>6. ASSUME NEW n \in DOMAIN revisions[f], RestoreFragmentRevision(f, n)
      PROVE  StoreTypeOK'
  <2>1. RowsOK
    BY <1>6, RecomputeType, StatusForType
       DEF RestoreFragmentRevision, Recompute, JobStatus
  <2>2. status' \in [Fragment -> FragmentStatus] /\ code' \in [Fragment -> WarningCode]
    BY <1>6 DEF RestoreFragmentRevision, RestoredStatus, RestoredCode,
                StoreTypeOK, FragmentStatus, WarningCode, TextCode
  <2>3. revisions[f][n] \in Text
    BY <1>6 DEF StoreTypeOK
  <2> QED
    BY <1>6, <2>1, <2>2, <2>3, SetTextType DEF RestoreFragmentRevision, StoreTypeOK
<1>7. CASE ApproveFragment(f)
  <2>1. RowsOK
    BY <1>7, RecomputeType, StatusForType DEF ApproveFragment, Recompute
  <2>2. status' \in [Fragment -> FragmentStatus] /\ code' \in [Fragment -> WarningCode]
    BY <1>7 DEF ApproveFragment, StoreTypeOK, FragmentStatus, WarningCode
  <2>3. approved' \in [Fragment -> SUBSET Nat]
    BY <1>7 DEF ApproveFragment, StoreTypeOK
  <2> QED
    BY <1>7, <2>1, <2>2, <2>3 DEF ApproveFragment, StoreTypeOK
<1>8. ASSUME NEW t \in Text, CompleteRewriteFragment(f, text[f], t)
      PROVE  StoreTypeOK'
  <2>1. /\ rewriting' \in [Job -> SUBSET Fragment]
        /\ \A k \in Job : rewriting'[k] \subseteq FragmentsOf(k)
    BY <1>8 DEF CompleteRewriteFragment, StoreTypeOK
  <2>2. CASE t = text[f]
    BY <1>8, <2>1, <2>2 DEF CompleteRewriteFragment, StoreTypeOK
  <2>3. CASE t # text[f]
    <3>1. RowsOK
      BY <1>8, <2>3, RecomputeType, StatusForType
         DEF CompleteRewriteFragment, Recompute
    <3>2. code' \in [Fragment -> WarningCode]
      BY <1>8, <2>3 DEF CompleteRewriteFragment, StoreTypeOK, WarningCode, TextCode
    <3> QED
      BY <1>8, <2>1, <2>3, <3>1, <3>2, SetTextType
         DEF CompleteRewriteFragment, StoreTypeOK
  <2> QED
    BY <2>2, <2>3
<1>9. CASE FailRewriteFragment(f)
  BY <1>9 DEF FailRewriteFragment, StoreTypeOK
<1> QED
  BY <1>1, <1>2, <1>3, <1>4, <1>5, <1>6, <1>7, <1>8, <1>9 DEF FragmentStep

LEMMA InitType == StoreInit => StoreTypeOK
<1> SUFFICES ASSUME StoreInit PROVE StoreTypeOK
  OBVIOUS
<1> USE DEF StoreInit
<1>1. counts \in [Job -> [pending : Nat, ready : Nat, warnings : Nat, failed : Nat]]
  BY CountsType
<1>2. revisions \in [Fragment -> Seq(Text) \ {<<>>}]
  BY FirstRevisionType
<1> QED
  BY <1>1, <1>2, TextAssumption DEF StoreTypeOK, FragmentStatus, WarningCode

LEMMA StoreStepType == StoreTypeOK /\ [StoreNext]_storeVars => StoreTypeOK'
<1> SUFFICES ASSUME StoreTypeOK, [StoreNext]_storeVars PROVE StoreTypeOK'
  OBVIOUS
<1>1. CASE StoreNext
  BY <1>1, JobStepType, FragmentStepType DEF StoreNext
<1>2. CASE UNCHANGED storeVars
  BY <1>2 DEF storeVars, StoreTypeOK
<1> QED
  BY <1>1, <1>2

\* The tables always have their types, whatever calls arrive in whatever
\* order.
THEOREM StoreTypes == StoreSpec => []StoreTypeOK
BY InitType, StoreStepType, PTL DEF StoreSpec

-----------------------------------------------------------------------------
(* The job row.                                                            *)

\* Recomputing the row of the one job whose fragments a transaction touched
\* keeps every row in agreement, also when the transaction then forces the
\* job's status to a status that is not final.
LEMMA RecomputedRowsMatch ==
    ASSUME StoreTypeOK, RowsMatch, NEW j \in Job, NEW final,
           RecomputeTo(j, status', final),
           \A f \in Fragment : JobOf[f] # j => status'[f] = status[f],
           final \in {"absent", "queued", "running", StatusFor(j, status')}
    PROVE  RowsMatch'
<1> SUFFICES ASSUME NEW k \in Job
             PROVE  /\ counts'[k] = CountsOf(k, status')
                    /\ jobStatus'[k] \notin {"absent", "queued", "running"}
                          => jobStatus'[k] = StatusFor(k, status')
  BY DEF RowsMatch, CountersMatch, FinalStatusIsHonest, CountsOf, StatusFor,
         FragmentsOf
<1>1. counts' = [counts EXCEPT ![j] = CountsOf(j, status')]
  BY DEF RecomputeTo
<1>2. jobStatus' = [jobStatus EXCEPT ![j] = final]
  BY DEF RecomputeTo
<1>3. DOMAIN counts = Job /\ DOMAIN jobStatus = Job
  BY DEF StoreTypeOK
<1>4. CASE k = j
  BY <1>1, <1>2, <1>3, <1>4
<1>5. CASE k # j
  <2>1. counts'[k] = counts[k] /\ jobStatus'[k] = jobStatus[k]
    BY <1>1, <1>2, <1>3, <1>5
  <2>2. \A f \in FragmentsOf(k) : status[f] = status'[f]
    BY <1>5 DEF FragmentsOf
  <2>3. /\ CountsOf(k, status) = CountsOf(k, status')
        /\ StatusFor(k, status) = StatusFor(k, status')
    BY <2>2, RowDependsOnOwnFragments
  <2> QED
    BY <2>1, <2>3 DEF RowsMatch, CountersMatch, FinalStatusIsHonest
<1> QED
  BY <1>4, <1>5

\* A transaction that leaves statuses and counters alone keeps the rows in
\* agreement when it leaves a job's status alone, or marks it running.
LEMMA SameCountersRowsMatch ==
    ASSUME StoreTypeOK, RowsMatch, status' = status, counts' = counts,
           \A k \in Job : jobStatus'[k] \in {jobStatus[k], "running"}
    PROVE  RowsMatch'
<1> SUFFICES ASSUME NEW k \in Job
             PROVE  /\ counts'[k] = CountsOf(k, status')
                    /\ jobStatus'[k] \notin {"absent", "queued", "running"}
                          => jobStatus'[k] = StatusFor(k, status')
  BY DEF RowsMatch, CountersMatch, FinalStatusIsHonest, CountsOf, StatusFor,
         FragmentsOf
<1> QED
  BY DEF RowsMatch, CountersMatch, FinalStatusIsHonest

\* The rows of a new or deleted job are those of pending fragments.
LEMMA FreshRowsMatch ==
    ASSUME StoreTypeOK, RowsMatch, NEW j \in Job, FreshRows(j),
           NEW final \in {"absent", "queued"},
           jobStatus' = [jobStatus EXCEPT ![j] = final]
    PROVE  RowsMatch'
<1> DEFINE new == [f \in Fragment |-> "pending"]
<1>1. \A f \in FragmentsOf(j) : new[f] = status'[f]
  BY DEF FreshRows, Inserted, FragmentsOf, StoreTypeOK
<1>2. CountsOf(j, new) = CountsOf(j, status')
  BY <1>1, RowDependsOnOwnFragments
<1>3. RecomputeTo(j, status', final)
  BY <1>2 DEF FreshRows, RecomputeTo
<1>4. \A f \in Fragment : JobOf[f] # j => status'[f] = status[f]
  BY DEF FreshRows, Inserted
<1> QED
  BY <1>3, <1>4, RecomputedRowsMatch

LEMMA JobStepRowsMatch ==
    ASSUME StoreTypeOK, RowsMatch, NEW j \in Job, JobStep(j)
    PROVE  RowsMatch'
<1>1. CASE CreateJob(j)
  BY <1>1, FreshRowsMatch DEF CreateJob
<1>2. CASE DeleteJob(j)
  BY <1>2, FreshRowsMatch DEF DeleteJob
<1>3. CASE StartTask(j)
  <2>1. \A k \in Job : jobStatus'[k] \in {jobStatus[k], "running"}
    BY <1>3 DEF StartTask, StoreTypeOK
  <2> QED
    BY <1>3, <2>1, SameCountersRowsMatch DEF StartTask
<1>4. CASE FinishTask(j)
  <2>1. RecomputeTo(j, status', StatusFor(j, status')) /\ status' = status
    BY <1>4 DEF FinishTask, Recompute
  <2> QED
    BY <2>1, RecomputedRowsMatch
<1>5. ASSUME NEW S \in SUBSET FragmentsOf(j), PrepareRetry(j, S)
      PROVE  RowsMatch'
  <2>1. \A f \in Fragment : JobOf[f] # j => status'[f] = status[f]
    BY <1>5 DEF PrepareRetry, FragmentsOf
  <2>2. RecomputeTo(j, status', "queued")
    BY <1>5 DEF PrepareRetry
  <2> QED
    BY <2>1, <2>2, RecomputedRowsMatch
<1>6. ASSUME NEW S \in SUBSET FragmentsOf(j), CreateRewriteTask(j, S)
      PROVE  RowsMatch'
  BY <1>6, SameCountersRowsMatch DEF CreateRewriteTask
<1>7. ASSUME NEW S \in SUBSET FragmentsOf(j), NEW previous \in [S -> Retryable],
             CancelRetry(j, previous)
      PROVE  RowsMatch'
  <2>1. CASE jobStatus[j] = "absent"
    BY <1>7, <2>1, SameCountersRowsMatch DEF CancelRetry, storeVars
  <2>2. CASE jobStatus[j] # "absent"
    <3>1. \A f \in Fragment : JobOf[f] # j => status'[f] = status[f]
      BY <1>7, <2>2 DEF CancelRetry
    <3>2. RecomputeTo(j, status', StatusFor(j, status'))
      BY <1>7, <2>2 DEF CancelRetry, Recompute
    <3> QED
      BY <3>1, <3>2, RecomputedRowsMatch
  <2> QED
    BY <2>1, <2>2
<1>8. CASE DeleteRewriteTask(j)
  BY <1>8, SameCountersRowsMatch DEF DeleteRewriteTask
<1> QED
  BY <1>1, <1>2, <1>3, <1>4, <1>5, <1>6, <1>7, <1>8 DEF JobStep

\* The transactions on a fragment recompute its job, or, when they do not,
\* move the fragment within one counter.
LEMMA FragmentStepRowsMatch ==
    ASSUME StoreTypeOK, RowsMatch, NEW f \in Fragment, FragmentStep(f)
    PROVE  RowsMatch'
<1> DEFINE j == JobOf[f]
<1> j \in Job
  BY JobsAssumption
<1>0. ASSUME NEW new, status' = [status EXCEPT ![f] = new],
             NEW final \in {"queued", "running", StatusFor(j, status')},
             RecomputeTo(j, status', final)
      PROVE  RowsMatch'
  <2>1. \A g \in Fragment : JobOf[g] # j => status'[g] = status[g]
    BY <1>0
  <2> QED
    BY <1>0, <2>1, RecomputedRowsMatch
<1>1. CASE StartFragment(f)
  <2>1. status[f] \in Unsettled /\ status'[f] \in Unsettled
    BY <1>1 DEF StartFragment, StoreTypeOK, Unsettled
  <2>2. \A g \in Fragment : status[g] = status'[g]
              \/ (status[g] \in Unsettled /\ status'[g] \in Unsettled)
    <3>1. /\ status' = [status EXCEPT ![f] = "generating"]
          /\ status \in [Fragment -> FragmentStatus]
      BY <1>1 DEF StartFragment, StoreTypeOK
    <3> QED
      BY <2>1, <3>1
  <2>3. \A k \in Job : /\ CountsOf(k, status) = CountsOf(k, status')
                       /\ StatusFor(k, status) = StatusFor(k, status')
    BY <2>2, RowDependsOnOwnFragments DEF FragmentsOf
  <2>4. counts' = counts /\ jobStatus' = jobStatus
    BY <1>1 DEF StartFragment
  <2>5. \A k \in Job : counts'[k] = CountsOf(k, status')
    BY <2>3, <2>4 DEF RowsMatch, CountersMatch
  <2>6. \A k \in Job : jobStatus'[k] \notin {"absent", "queued", "running"} =>
                          jobStatus'[k] = StatusFor(k, status')
    BY <2>3, <2>4 DEF RowsMatch, FinalStatusIsHonest
  <2> QED
    BY <2>5, <2>6 DEF RowsMatch, CountersMatch, FinalStatusIsHonest,
                      CountsOf, StatusFor, FragmentsOf
<1>2. ASSUME NEW spoken \in Text, NEW c \in {""} \cup ValidationCode,
             CompleteFragment(f, spoken, c)
      PROVE  RowsMatch'
  BY <1>0, <1>2 DEF CompleteFragment, Recompute
<1>3. CASE FailFragment(f)
  BY <1>0, <1>3 DEF FailFragment, Recompute
<1>4. CASE PrepareAutomaticWarningRetry(f)
  BY <1>0, <1>4 DEF PrepareAutomaticWarningRetry
<1>5. ASSUME NEW t \in Text, EditFragment(f, t)
      PROVE  RowsMatch'
  BY <1>0, <1>5 DEF EditFragment, Recompute
<1>6. ASSUME NEW n \in DOMAIN revisions[f], RestoreFragmentRevision(f, n)
      PROVE  RowsMatch'
  BY <1>0, <1>6 DEF RestoreFragmentRevision
<1>7. CASE ApproveFragment(f)
  BY <1>0, <1>7 DEF ApproveFragment, Recompute
<1>8. ASSUME NEW t \in Text, CompleteRewriteFragment(f, text[f], t)
      PROVE  RowsMatch'
  <2>1. CASE t = text[f]
    BY <1>8, <2>1, SameCountersRowsMatch DEF CompleteRewriteFragment
  <2>2. CASE t # text[f]
    <3>1. /\ RecomputeTo(j, status', StatusFor(j, status'))
          /\ status' = status
      BY <1>8, <2>2 DEF CompleteRewriteFragment, Recompute
    <3> QED
      BY <3>1, RecomputedRowsMatch
  <2> QED
    BY <2>1, <2>2
<1>9. CASE FailRewriteFragment(f)
  BY <1>9, SameCountersRowsMatch DEF FailRewriteFragment
<1> QED
  BY <1>1, <1>2, <1>3, <1>4, <1>5, <1>6, <1>7, <1>8, <1>9 DEF FragmentStep

\* After every transaction the counters a client polls are the numbers of
\* fragments in each status, and a final status is the one they imply.
THEOREM RowsAlwaysMatch == StoreSpec => []RowsMatch
<1>1. StoreInit => RowsMatch
  <2> SUFFICES ASSUME StoreInit PROVE RowsMatch
    OBVIOUS
  <2> QED
    BY DEF StoreInit, RowsMatch, CountersMatch, FinalStatusIsHonest
<1>2. StoreTypeOK /\ RowsMatch /\ [StoreNext]_storeVars => RowsMatch'
  <2> SUFFICES ASSUME StoreTypeOK, RowsMatch, [StoreNext]_storeVars
               PROVE  RowsMatch'
    OBVIOUS
  <2>1. CASE StoreNext
    BY <2>1, JobStepRowsMatch, FragmentStepRowsMatch DEF StoreNext
  <2>2. CASE UNCHANGED storeVars
    BY <2>2, SameCountersRowsMatch DEF storeVars
  <2> QED
    BY <2>1, <2>2
<1> QED
  BY <1>1, <1>2, StoreTypes, PTL DEF StoreSpec

-----------------------------------------------------------------------------
(* The record of the attempts.                                             *)

\* A transaction that writes neither attempts nor their record keeps them in
\* agreement when no fragment enters or leaves generation.
LEMMA QuietAttempts ==
    ASSUME AttemptsAreRecorded, UNCHANGED <<attempt, log>>,
           \A g \in Fragment :
              status[g] = "generating" <=> status'[g] = "generating"
    PROVE  AttemptsAreRecorded'
BY DEF AttemptsAreRecorded, Attempts

LEMMA FreshAttempts ==
    ASSUME StoreTypeOK, AttemptsAreRecorded, NEW j \in Job, FreshRows(j)
    PROVE  AttemptsAreRecorded'
<1> SUFFICES ASSUME NEW f \in Fragment
             PROVE  /\ {r.attempt : r \in log'[f]} =
                          IF status'[f] = "generating"
                          THEN 1 .. attempt'[f] - 1 ELSE 1 .. attempt'[f]
                    /\ status'[f] = "generating" => attempt'[f] >= 1
                    /\ \A r, s \in log'[f] : r.attempt = s.attempt => r = s
  BY DEF AttemptsAreRecorded, Attempts
<1>1. CASE JobOf[f] = j
  <2>1. log'[f] = {} /\ attempt'[f] = 0 /\ status'[f] = "pending"
    BY <1>1 DEF FreshRows, Inserted
  <2>2. {r.attempt : r \in log'[f]} = {} /\ 1..0 = {}
    BY <2>1
  <2> QED
    BY <2>1, <2>2
<1>2. CASE JobOf[f] # j
  <2>1. log'[f] = log[f] /\ attempt'[f] = attempt[f] /\ status'[f] = status[f]
    BY <1>2 DEF FreshRows, Inserted
  <2> QED
    BY <2>1 DEF AttemptsAreRecorded, Attempts
<1> QED
  BY <1>1, <1>2

\* Starting a fragment takes the next number and leaves its row open.
LEMMA StartedAttempt ==
    ASSUME StoreTypeOK, AttemptsAreRecorded, NEW f \in Fragment,
           StartFragment(f)
    PROVE  AttemptsAreRecorded'
<1>1. /\ status[f] = "pending"
      /\ status' = [status EXCEPT ![f] = "generating"]
      /\ log' = log
  BY DEF StartFragment
<1>2. attempt' = [attempt EXCEPT ![f] = attempt[f] + 1]
  BY DEF StartFragment
<1>3. /\ status \in [Fragment -> FragmentStatus]
      /\ attempt \in [Fragment -> Nat]
  BY DEF StoreTypeOK
<1> SUFFICES ASSUME NEW g \in Fragment
             PROVE  /\ {r.attempt : r \in log'[g]} =
                          IF status'[g] = "generating"
                          THEN 1 .. attempt'[g] - 1 ELSE 1 .. attempt'[g]
                    /\ status'[g] = "generating" => attempt'[g] >= 1
                    /\ \A r, s \in log'[g] : r.attempt = s.attempt => r = s
  BY DEF AttemptsAreRecorded, Attempts
<1>4. CASE g = f
  <2>1. status'[g] = "generating"
    BY <1>1, <1>3, <1>4
  <2>2. attempt'[g] - 1 = attempt[g]
    BY <1>2, <1>3, <1>4
  <2>3. {r.attempt : r \in log[g]} = 1 .. attempt[g]
    BY <1>1, <1>4 DEF AttemptsAreRecorded, Attempts
  <2>4. attempt'[g] >= 1
    BY <1>2, <1>3, <1>4
  <2>5. attempt[g] = attempt[f]
    BY <1>4
  <2> QED
    BY <1>1, <2>1, <2>2, <2>3, <2>4, <2>5, <1>4 DEF AttemptsAreRecorded
<1>5. CASE g # f
  <2>1. status'[g] = status[g] /\ attempt'[g] = attempt[g]
    BY <1>1, <1>2, <1>3, <1>5
  <2> QED
    BY <1>1, <2>1 DEF AttemptsAreRecorded, Attempts
<1> QED
  BY <1>4, <1>5

\* An outcome closes the row of the attempt under way.
LEMMA RecordedAttempt ==
    ASSUME StoreTypeOK, AttemptsAreRecorded, NEW f \in Fragment,
           NEW outcome \in Outcome, InsertAttempt(f, outcome),
           NEW new, new # "generating",
           status[f] = "generating", status' = [status EXCEPT ![f] = new],
           attempt' = attempt
    PROVE  AttemptsAreRecorded'
<1> DEFINE row == [attempt |-> attempt[f], outcome |-> outcome]
<1>1. /\ \A r \in log[f] : r.attempt # attempt[f]
      /\ log' = [log EXCEPT ![f] = log[f] \cup {row}]
  BY DEF InsertAttempt
<1>2. /\ status \in [Fragment -> FragmentStatus]
      /\ attempt \in [Fragment -> Nat]
      /\ DOMAIN log = Fragment
  BY DEF StoreTypeOK
<1> SUFFICES ASSUME NEW g \in Fragment
             PROVE  /\ {r.attempt : r \in log'[g]} =
                          IF status'[g] = "generating"
                          THEN 1 .. attempt[g] - 1 ELSE 1 .. attempt[g]
                    /\ status'[g] = "generating" => attempt'[g] >= 1
                    /\ \A r, s \in log'[g] : r.attempt = s.attempt => r = s
  BY DEF AttemptsAreRecorded, Attempts
<1>3. CASE g = f
  <2>1. status'[g] # "generating"
    BY <1>2, <1>3
  <2>2. log'[g] = log[g] \cup {row}
    BY <1>1, <1>2, <1>3
  <2>3. {r.attempt : r \in log[g]} = 1 .. attempt[g] - 1
    BY <1>3 DEF AttemptsAreRecorded, Attempts
  <2>4. attempt[f] \in Nat /\ attempt[f] >= 1
    BY <1>2 DEF AttemptsAreRecorded
  <2>5. {r.attempt : r \in log'[g]} = {r.attempt : r \in log[g]} \cup {attempt[f]}
    <3>1. row.attempt = attempt[f]
      OBVIOUS
    <3> HIDE DEF row
    <3>2. \A n : (\E r \in log'[g] : n = r.attempt)
                  <=> (\E r \in log[g] : n = r.attempt) \/ n = attempt[f]
      BY <2>2, <3>1
    <3> QED
      BY <3>2
  <2>6. (1 .. attempt[f] - 1) \cup {attempt[f]} = 1 .. attempt[f]
    BY <2>4
  <2>7. \A r, s \in log'[g] : r.attempt = s.attempt => r = s
    <3>1. \A r, s \in log[g] : r.attempt = s.attempt => r = s
      BY DEF AttemptsAreRecorded
    <3>2. \A r \in log[g] : r.attempt # row.attempt
      BY <1>1, <1>3
    <3> QED
      BY <2>2, <3>1, <3>2
  <2> QED
    BY <1>3, <2>1, <2>3, <2>5, <2>6, <2>7
<1>4. CASE g # f
  BY <1>1, <1>2, <1>4 DEF AttemptsAreRecorded, Attempts
<1> QED
  BY <1>3, <1>4

LEMMA JobStepAttempts ==
    ASSUME StoreTypeOK, AttemptsAreRecorded, NEW j \in Job, JobStep(j)
    PROVE  AttemptsAreRecorded'
<1>1. CASE CreateJob(j)
  BY <1>1, FreshAttempts DEF CreateJob
<1>2. CASE DeleteJob(j)
  BY <1>2, FreshAttempts DEF DeleteJob
<1>3. CASE StartTask(j)
  BY <1>3, QuietAttempts DEF StartTask
<1>4. CASE FinishTask(j)
  BY <1>4, QuietAttempts DEF FinishTask
<1>5. ASSUME NEW S \in SUBSET FragmentsOf(j), PrepareRetry(j, S)
      PROVE  AttemptsAreRecorded'
  BY <1>5, QuietAttempts DEF PrepareRetry, Retryable
<1>6. ASSUME NEW S \in SUBSET FragmentsOf(j), CreateRewriteTask(j, S)
      PROVE  AttemptsAreRecorded'
  BY <1>6, QuietAttempts DEF CreateRewriteTask
<1>7. ASSUME NEW S \in SUBSET FragmentsOf(j), NEW previous \in [S -> Retryable],
             CancelRetry(j, previous)
      PROVE  AttemptsAreRecorded'
  <2>1. CASE jobStatus[j] = "absent"
    BY <1>7, <2>1, QuietAttempts DEF CancelRetry, storeVars
  <2>2. CASE jobStatus[j] # "absent"
    <3>1. /\ status' = [f \in Fragment |->
                          IF /\ f \in DOMAIN previous /\ JobOf[f] = j
                             /\ status[f] = "pending"
                          THEN previous[f] ELSE status[f]]
          /\ UNCHANGED <<attempt, log>>
      BY <1>7, <2>2 DEF CancelRetry
    <3>2. \A f \in DOMAIN previous : previous[f] # "generating"
      BY DEF Retryable
    <3> QED
      BY <3>1, <3>2, QuietAttempts
  <2> QED
    BY <2>1, <2>2
<1>8. CASE DeleteRewriteTask(j)
  BY <1>8, QuietAttempts DEF DeleteRewriteTask
<1> QED
  BY <1>1, <1>2, <1>3, <1>4, <1>5, <1>6, <1>7, <1>8 DEF JobStep

LEMMA FragmentStepAttempts ==
    ASSUME StoreTypeOK, AttemptsAreRecorded, NEW f \in Fragment,
           FragmentStep(f)
    PROVE  AttemptsAreRecorded'
<1>0. ASSUME NEW new, status' = [status EXCEPT ![f] = new],
             new # "generating", status[f] # "generating",
             UNCHANGED <<attempt, log>>
      PROVE  AttemptsAreRecorded'
  BY <1>0, QuietAttempts DEF StoreTypeOK
<1>1. CASE StartFragment(f)
  BY <1>1, StartedAttempt
<1>2. ASSUME NEW spoken \in Text, NEW c \in {""} \cup ValidationCode,
             CompleteFragment(f, spoken, c)
      PROVE  AttemptsAreRecorded'
  <2>1. (IF c = "" THEN "ready" ELSE c) \in Outcome
    BY DEF Outcome
  <2>2. (IF c = "" THEN "ready" ELSE "warning") # "generating"
    OBVIOUS
  <2> QED
    BY <1>2, <2>1, <2>2, RecordedAttempt DEF CompleteFragment
<1>3. CASE FailFragment(f)
  BY <1>3, RecordedAttempt DEF FailFragment, Outcome
<1>4. CASE PrepareAutomaticWarningRetry(f)
  BY <1>0, <1>4 DEF PrepareAutomaticWarningRetry
<1>5. ASSUME NEW t \in Text, EditFragment(f, t)
      PROVE  AttemptsAreRecorded'
  BY <1>0, <1>5 DEF EditFragment, Retryable
<1>6. ASSUME NEW n \in DOMAIN revisions[f], RestoreFragmentRevision(f, n)
      PROVE  AttemptsAreRecorded'
  BY <1>0, <1>6 DEF RestoreFragmentRevision, RestoredStatus
<1>7. CASE ApproveFragment(f)
  BY <1>0, <1>7 DEF ApproveFragment
<1>8. ASSUME NEW t \in Text, CompleteRewriteFragment(f, text[f], t)
      PROVE  AttemptsAreRecorded'
  BY <1>8, QuietAttempts DEF CompleteRewriteFragment
<1>9. CASE FailRewriteFragment(f)
  BY <1>9, QuietAttempts DEF FailRewriteFragment
<1> QED
  BY <1>1, <1>2, <1>3, <1>4, <1>5, <1>6, <1>7, <1>8, <1>9 DEF FragmentStep

\* The record of attempts has no gap and no duplicate, so the unique key of
\* fragment_attempts never makes a result fail.
THEOREM AttemptsAlwaysRecorded == StoreSpec => []AttemptsAreRecorded
<1>1. StoreInit => AttemptsAreRecorded
  <2> SUFFICES ASSUME StoreInit
               PROVE  AttemptsAreRecorded
    OBVIOUS
  <2>1. \A f \in Fragment : log[f] = {} /\ attempt[f] = 0 /\ status[f] = "pending"
    BY DEF StoreInit
  <2>2. \A f \in Fragment : Attempts(f) = {}
    BY <2>1 DEF Attempts
  <2>3. 1 .. 0 = {}
    OBVIOUS
  <2> QED
    BY <2>1, <2>2, <2>3 DEF AttemptsAreRecorded
<1>2. StoreTypeOK /\ AttemptsAreRecorded /\ [StoreNext]_storeVars
        => AttemptsAreRecorded'
  <2> SUFFICES ASSUME StoreTypeOK, AttemptsAreRecorded, [StoreNext]_storeVars
               PROVE  AttemptsAreRecorded'
    OBVIOUS
  <2>1. CASE StoreNext
    BY <2>1, JobStepAttempts, FragmentStepAttempts DEF StoreNext
  <2>2. CASE UNCHANGED storeVars
    BY <2>2, QuietAttempts DEF storeVars
  <2> QED
    BY <2>1, <2>2
<1> QED
  BY <1>1, <1>2, StoreTypes, PTL DEF StoreSpec

-----------------------------------------------------------------------------
(* Export.                                                                 *)

\* What each fragment has to show for ReadyHasAudio to last a step.
LEMMA AudioKept ==
    ASSUME ReadyHasAudio,
           \A g \in Fragment : status'[g] = "ready" =>
              \/ status[g] = "ready" /\ audio'[g] = audio[g]
              \/ audio'[g] # NoAudio
    PROVE  ReadyHasAudio'
BY DEF ReadyHasAudio

LEMMA JobStepAudio ==
    ASSUME StoreTypeOK, ReadyHasAudio, NEW j \in Job, JobStep(j)
    PROVE  ReadyHasAudio'
<1>1. CASE FreshRows(j)
  BY <1>1, AudioKept DEF FreshRows, Inserted
<1>2. CASE StartTask(j) \/ FinishTask(j) \/ DeleteRewriteTask(j)
  BY <1>2, AudioKept DEF StartTask, FinishTask, DeleteRewriteTask
<1>3. ASSUME NEW S \in SUBSET FragmentsOf(j), PrepareRetry(j, S)
      PROVE  ReadyHasAudio'
  BY <1>3, AudioKept DEF PrepareRetry
<1>4. ASSUME NEW S \in SUBSET FragmentsOf(j), CreateRewriteTask(j, S)
      PROVE  ReadyHasAudio'
  BY <1>4, AudioKept DEF CreateRewriteTask
<1>5. ASSUME NEW S \in SUBSET FragmentsOf(j), NEW previous \in [S -> Retryable],
             CancelRetry(j, previous)
      PROVE  ReadyHasAudio'
  <2>1. CASE jobStatus[j] = "absent"
    BY <1>5, <2>1, AudioKept DEF CancelRetry, storeVars
  <2>2. CASE jobStatus[j] # "absent"
    <3>1. /\ status' = [f \in Fragment |->
                          IF /\ f \in DOMAIN previous /\ JobOf[f] = j
                             /\ status[f] = "pending"
                          THEN previous[f] ELSE status[f]]
          /\ audio' = audio
      BY <1>5, <2>2 DEF CancelRetry
    <3>2. \A f \in DOMAIN previous : previous[f] # "ready"
      BY DEF Retryable
    <3> QED
      BY <3>1, <3>2, AudioKept
  <2> QED
    BY <2>1, <2>2
<1> QED
  BY <1>1, <1>2, <1>3, <1>4, <1>5 DEF JobStep, CreateJob, DeleteJob

LEMMA FragmentStepAudio ==
    ASSUME StoreTypeOK, ReadyHasAudio, NEW f \in Fragment, FragmentStep(f)
    PROVE  ReadyHasAudio'
<1>0. ASSUME NEW new, status' = [status EXCEPT ![f] = new],
             NEW sound, audio' = [audio EXCEPT ![f] = sound],
             new = "ready" => sound # NoAudio
      PROVE  ReadyHasAudio'
  BY <1>0, AudioKept DEF StoreTypeOK
<1>1. CASE StartFragment(f)
  <2>1. status' = [status EXCEPT ![f] = "generating"] /\ audio' = audio
    BY <1>1 DEF StartFragment
  <2> QED
    BY <2>1, AudioKept DEF StoreTypeOK
<1>2. ASSUME NEW spoken \in Text, NEW c \in {""} \cup ValidationCode,
             CompleteFragment(f, spoken, c)
      PROVE  ReadyHasAudio'
  BY <1>0, <1>2, AudioAssumption DEF CompleteFragment
<1>3. CASE FailFragment(f)
  <2>1. status' = [status EXCEPT ![f] = "failed"] /\ audio' = audio
    BY <1>3 DEF FailFragment
  <2> QED
    BY <2>1, AudioKept DEF StoreTypeOK
<1>4. CASE PrepareAutomaticWarningRetry(f)
  <2>1. status' = [status EXCEPT ![f] = "pending"] /\ audio' = audio
    BY <1>4 DEF PrepareAutomaticWarningRetry
  <2> QED
    BY <2>1, AudioKept DEF StoreTypeOK
<1>5. ASSUME NEW t \in Text, EditFragment(f, t)
      PROVE  ReadyHasAudio'
  <2>1. /\ status' = [status EXCEPT ![f] = "warning"]
        /\ audio' = [audio EXCEPT ![f] = NoAudio]
    BY <1>5 DEF EditFragment, SetText
  <2> QED
    BY <2>1, AudioKept DEF StoreTypeOK
<1>6. ASSUME NEW n \in DOMAIN revisions[f], RestoreFragmentRevision(f, n)
      PROVE  ReadyHasAudio'
  <2>1. /\ status' = [status EXCEPT ![f] = RestoredStatus(status[f])]
        /\ audio' = [audio EXCEPT ![f] = NoAudio]
    BY <1>6 DEF RestoreFragmentRevision, SetText
  <2> QED
    BY <2>1, AudioKept DEF StoreTypeOK, RestoredStatus
<1>7. CASE ApproveFragment(f)
  BY <1>7, AudioKept DEF ApproveFragment, StoreTypeOK
<1>8. ASSUME NEW t \in Text, CompleteRewriteFragment(f, text[f], t)
      PROVE  ReadyHasAudio'
  <2>1. status[f] = "warning" /\ status' = status
    BY <1>8 DEF CompleteRewriteFragment
  <2>2. \A g \in Fragment : g # f => audio'[g] = audio[g]
    BY <1>8 DEF CompleteRewriteFragment, SetText, StoreTypeOK
  <2> QED
    BY <2>1, <2>2, AudioKept
<1>9. CASE FailRewriteFragment(f)
  BY <1>9, AudioKept DEF FailRewriteFragment
<1> QED
  BY <1>1, <1>2, <1>3, <1>4, <1>5, <1>6, <1>7, <1>8, <1>9 DEF FragmentStep

LEMMA ReadyAlwaysHasAudio == StoreSpec => []ReadyHasAudio
<1>1. StoreInit => ReadyHasAudio
  BY DEF StoreInit, ReadyHasAudio
<1>2. StoreTypeOK /\ ReadyHasAudio /\ [StoreNext]_storeVars => ReadyHasAudio'
  <2> SUFFICES ASSUME StoreTypeOK, ReadyHasAudio, [StoreNext]_storeVars
               PROVE  ReadyHasAudio'
    OBVIOUS
  <2>1. CASE StoreNext
    BY <2>1, JobStepAudio, FragmentStepAudio DEF StoreNext
  <2>2. CASE UNCHANGED storeVars
    BY <2>2, AudioKept DEF storeVars
  <2> QED
    BY <2>1, <2>2
<1> QED
  BY <1>1, <1>2, StoreTypes, PTL DEF StoreSpec

\* A completed job can always be exported: its status is honest, so all its
\* fragments are ready, and a ready fragment has audio.
THEOREM CompletedAlwaysExportable == StoreSpec => []CompletedIsExportable
<1>1. StoreTypeOK /\ RowsMatch /\ ReadyHasAudio
         => CompletedIsExportable
  <2> SUFFICES ASSUME StoreTypeOK, RowsMatch, ReadyHasAudio,
                      NEW j \in Job, jobStatus[j] = "completed",
                      NEW f \in FragmentsOf(j)
               PROVE  status[f] = "ready" /\ audio[f] # NoAudio
    BY DEF CompletedIsExportable, ArchiveSnapshot
  <2>1. StatusFor(j, status) = "completed"
    BY DEF RowsMatch, FinalStatusIsHonest
  <2>2. status[f] \notin Unsettled \cup {"failed", "warning"}
    BY <2>1 DEF StatusFor
  <2>3. f \in Fragment /\ status[f] \in FragmentStatus
    BY DEF FragmentsOf, StoreTypeOK
  <2>4. status[f] = "ready"
    BY <2>2, <2>3 DEF FragmentStatus, Unsettled
  <2> QED
    BY <2>3, <2>4 DEF ReadyHasAudio
<1> QED
  BY <1>1, StoreTypes, RowsAlwaysMatch, ReadyAlwaysHasAudio, PTL

=============================================================================
