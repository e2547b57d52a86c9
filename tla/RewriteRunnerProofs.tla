------------------------- MODULE RewriteRunnerProofs -------------------------
(***************************************************************************)
(* What holds of rewrite tasks for any number of jobs, tasks, handlers and *)
(* fragments, any books and texts, and any faults.                         *)
(***************************************************************************)
EXTENDS RewriteRunner, FiniteSetTheorems, TLAPS

-----------------------------------------------------------------------------
(* The invariant.                                                          *)

TaskStatus == {"queued", "running", "completed", "completed_with_errors",
               "failed"}
ChildStatus == {"queued", "running", "completed", "failed"}
Revision == ModelRevision \cup {NoModel}
ChildRow == [status : ChildStatus, model : Revision]
Children == UNION {[S -> ChildRow] : S \in SUBSET Fragment}
Row == [status : TaskStatus \cup {"absent"}, model : Revision,
        child : Children]
RwTask == [id : Rewrite, fragments : Seq(Fragment)]
RwRequest == [pc : {"new", "compensate", "done"}]
             \cup [pc : {"enqueue"}, task : RwTask]

RowTypes == row \in [Rewrite -> Row]
RwProcessTypes ==
    /\ rwRequest \in [Rewrite -> RwRequest]
    /\ rwQueue \in Seq(RwTask)
    /\ rwPc \in {"idle", "begin", "claim", "work", "failing", "finish",
                 "exited"}
    /\ rwPc \in {"idle", "exited"} => rwTask = NoRwTask
    /\ rwPc \notin {"idle", "exited"} => rwTask \in RwTask
    /\ rwIndex \in Nat
    /\ rwPc \in {"claim", "work", "failing"} =>
          rwIndex \in 1 .. Len(rwTask.fragments)

\* A task has children only while it is in the table, all of one job.
ChildrenOf(r) == DOMAIN row[r].child
AbsentIsEmpty == \A r \in Rewrite : row[r].status = "absent" => ChildrenOf(r) = {}
OneJobPerTask ==
    \A r \in Rewrite : \A f, g \in ChildrenOf(r) : JobOf[f] = JobOf[g]

\* Two active tasks are of different jobs.
ActiveApart ==
    \A r, s \in Rewrite : r # s /\ IsActive(r) /\ IsActive(s) =>
        \A f \in ChildrenOf(r), g \in ChildrenOf(s) : JobOf[f] # JobOf[g]

\* An identifier nobody has been given names no task.
NewIsAbsent == \A r \in Rewrite : rwRequest[r].pc = "new" => row[r] = NoRow

RowsInv ==
    /\ RowTypes /\ AbsentIsEmpty /\ OneJobPerTask
    /\ TaskStatusIsHonest /\ OneModelPerTask /\ ActiveApart

RwInv == RwProcessTypes /\ RowsInv /\ NewIsAbsent

-----------------------------------------------------------------------------
(* The operators.                                                          *)

LEMMA NoRowType == NoRow \in Row /\ DOMAIN NoRow.child = {}
<1>1. <<>> \in [{} -> ChildRow]
  OBVIOUS
<1>2. <<>> \in Children
  BY <1>1 DEF Children
<1> QED
  BY <1>2 DEF NoRow, Row, Revision

LEMMA ChildrenType ==
    ASSUME NEW c \in Children
    PROVE  DOMAIN c \subseteq Fragment /\ c \in [DOMAIN c -> ChildRow]
BY DEF Children

LEMMA SetChildType ==
    ASSUME NEW w \in Row, NEW f, NEW c \in ChildRow
    PROVE  /\ SetChild(w, f, c) \in Row
           /\ SetChild(w, f, c).status = w.status
           /\ SetChild(w, f, c).model = w.model
           /\ SetChild(w, f, c).child = [w.child EXCEPT ![f] = c]
<1>1. w.child \in [DOMAIN w.child -> ChildRow] /\ DOMAIN w.child \subseteq Fragment
  BY ChildrenType DEF Row
<1>2. [w.child EXCEPT ![f] = c] \in [DOMAIN w.child -> ChildRow]
  BY <1>1
<1>3. [w.child EXCEPT ![f] = c] \in Children
  BY <1>1, <1>2 DEF Children
<1> QED
  BY <1>3 DEF SetChild, Row

\* What the status of a task says of its children.
LEMMA StatusOfChildren ==
    ASSUME NEW c
    PROVE  /\ StatusForChildren(c) \in TaskStatus \ {"queued"}
           /\ StatusForChildren(c) = "running" <=>
                 \E f \in DOMAIN c : c[f].status \in Unfinished
BY DEF StatusForChildren, TaskStatus, Unfinished

LEMMA RecomputedType ==
    ASSUME NEW w \in Row
    PROVE  /\ Recomputed(w) \in Row
           /\ Recomputed(w).status = StatusForChildren(w.child)
           /\ Recomputed(w).model = w.model
           /\ Recomputed(w).child = w.child
BY StatusOfChildren DEF Recomputed, Row

-----------------------------------------------------------------------------
(* One row after the other.                                                *)

HonestRow(w) ==
    w.status # "absent" =>
        /\ w.status \in Unfinished <=>
              \E f \in DOMAIN w.child : w.child[f].status \in Unfinished
        /\ w.status \notin Unfinished => w.status = StatusForChildren(w.child)
OneModelRow(w) ==
    \A f \in DOMAIN w.child :
        w.child[f].status = "completed" =>
            w.child[f].model # NoModel /\ w.child[f].model = w.model
SoundRow(w) ==
    /\ w \in Row
    /\ w.status = "absent" => DOMAIN w.child = {}
    /\ \A f, g \in DOMAIN w.child : JobOf[f] = JobOf[g]
    /\ HonestRow(w) /\ OneModelRow(w)

RowsSound == /\ row \in [Rewrite -> Row]
             /\ \A r \in Rewrite : SoundRow(row[r])
             /\ ActiveApart

LEMMA SoundRows == RowsInv <=> RowsSound
BY DEF RowsSound, RowsInv, RowTypes, AbsentIsEmpty, OneJobPerTask, TaskStatusIsHonest,
       OneModelPerTask, SoundRow, HonestRow, OneModelRow, ChildrenOf, IsActive,
       Pending

\* A task that changes for the better: it loses children or its activity.
LEMMA RowReplaced ==
    ASSUME RowsInv, NEW r \in Rewrite, NEW w, SoundRow(w),
           w.status \in Unfinished =>
              IsActive(r) /\ DOMAIN w.child \subseteq ChildrenOf(r),
           row' = [row EXCEPT ![r] = w]
    PROVE  RowsInv'
<1>1. /\ row \in [Rewrite -> Row] /\ \A s \in Rewrite : SoundRow(row[s])
      /\ ActiveApart
  BY SoundRows DEF RowsSound
<1>2. row' \in [Rewrite -> Row]
  BY <1>1 DEF SoundRow
<1>3. /\ row'[r] = w
      /\ \A s \in Rewrite : s # r => row'[s] = row[s]
  BY <1>1
<1>4. \A s \in Rewrite : SoundRow(row'[s])
  BY <1>1, <1>3
<1>5. ActiveApart'
  BY <1>1, <1>3 DEF ActiveApart, IsActive, ChildrenOf
<1>6. RowsSound'
  BY <1>2, <1>4, <1>5 DEF RowsSound, SoundRow, HonestRow, OneModelRow
<1> QED
  BY <1>6, SoundRows, PTL

\* What generation sees of a job.
LEMMA InRewriting ==
    ASSUME NEW j \in Job
    PROVE  \A f : f \in Rewriting[j] <=>
                     JobOf[f] = j /\ \E r \in Rewrite : f \in Pending(r)
BY DEF Rewriting

\* An active task is seen by its job.
LEMMA ActiveIsSeen ==
    ASSUME RowsInv, NEW r \in Rewrite, IsActive(r), NEW g \in ChildrenOf(r)
    PROVE  JobOf[g] \in Job /\ Rewriting[JobOf[g]] # {}
<1>1. SoundRow(row[r])
  BY SoundRows DEF RowsSound
<1>2. PICK f \in ChildrenOf(r) : row[r].child[f].status \in Unfinished
  BY <1>1 DEF SoundRow, HonestRow, IsActive, ChildrenOf, Unfinished
<1>3. f \in Pending(r) /\ JobOf[f] = JobOf[g]
  BY <1>1, <1>2 DEF SoundRow, Pending, ChildrenOf
<1>4. JobOf[g] \in Job
  BY <1>1, ChildrenType, JobsAssumption DEF SoundRow, Row, ChildrenOf
<1> QED
  BY <1>3, <1>4, InRewriting

LEMMA RowInserted ==
    ASSUME RowsInv, NEW r \in Rewrite, NEW j \in Job,
           NEW S \in SUBSET Gen!FragmentsOf(j), S # {},
           Rewriting[j] = {}, InsertTask(r, S)
    PROVE  RowsInv'
<1> DEFINE w == [status |-> "queued", model |-> NoModel,
                 child |-> [f \in S |-> NewChild]]
<1>1. /\ row \in [Rewrite -> Row] /\ \A s \in Rewrite : SoundRow(row[s])
      /\ ActiveApart
  BY SoundRows DEF RowsSound
<1>2. S \subseteq Fragment /\ \A f \in S : JobOf[f] = j
  BY DEF Gen!FragmentsOf
<1>3. NewChild \in ChildRow /\ NewChild.status = "queued"
  BY DEF NewChild, ChildRow, ChildStatus, Revision
<1>4. [f \in S |-> NewChild] \in Children
  BY <1>2, <1>3 DEF Children
<1>5. w \in Row
  BY <1>4 DEF Row, TaskStatus, Revision
<1>6. SoundRow(w)
  BY <1>2, <1>3, <1>5 DEF SoundRow, HonestRow, OneModelRow, Unfinished
<1>7. /\ row' = [row EXCEPT ![r] = w] /\ DOMAIN w.child = S
      /\ w.status \in Unfinished
  BY DEF InsertTask, Unfinished
<1> HIDE DEF w
<1>8. /\ row' \in [Rewrite -> Row] /\ row'[r] = w
      /\ \A s \in Rewrite : s # r => row'[s] = row[s]
  BY <1>1, <1>5, <1>7
<1>9. \A s \in Rewrite : SoundRow(row'[s])
  BY <1>1, <1>6, <1>8
<1>10. ASSUME NEW s \in Rewrite, IsActive(s), NEW g \in ChildrenOf(s)
       PROVE  JobOf[g] # j
  BY <1>10, ActiveIsSeen
<1>11. ActiveApart'
  BY <1>1, <1>2, <1>7, <1>8, <1>10 DEF ActiveApart, IsActive, ChildrenOf
<1>12. RowsSound'
  BY <1>8, <1>9, <1>11 DEF RowsSound, SoundRow, HonestRow, OneModelRow
<1> QED
  BY <1>12, SoundRows, PTL

LEMMA RowsRemoved ==
    ASSUME RowsInv, NEW j, row' = WithoutTasksOf(j)
    PROVE  RowsInv'
<1>1. /\ row \in [Rewrite -> Row] /\ \A s \in Rewrite : SoundRow(row[s])
      /\ ActiveApart
  BY SoundRows DEF RowsSound
<1>2. SoundRow(NoRow) /\ NoRow.status = "absent"
  BY NoRowType DEF SoundRow, HonestRow, OneModelRow, NoRow, Unfinished
<1>3. \A s \in Rewrite : row'[s] \in {NoRow, row[s]}
  BY DEF WithoutTasksOf
<1>4. \A s \in Rewrite : SoundRow(row'[s])
  BY <1>1, <1>2, <1>3
<1>5. row' \in [Rewrite -> Row]
  BY <1>4 DEF WithoutTasksOf, SoundRow
<1>6. \A s \in Rewrite : row'[s].status \in Unfinished => row'[s] = row[s]
  BY <1>2, <1>3 DEF Unfinished
<1>7. ActiveApart'
  BY <1>1, <1>6 DEF ActiveApart, IsActive, ChildrenOf
<1>8. RowsSound'
  BY <1>4, <1>5, <1>7 DEF RowsSound, SoundRow, HonestRow, OneModelRow
<1> QED
  BY <1>8, SoundRows, PTL

-----------------------------------------------------------------------------
(* What the runner does to the row of its task.                            *)

LEMMA RecomputedSound ==
    ASSUME NEW w \in Row, \A f, g \in DOMAIN w.child : JobOf[f] = JobOf[g],
           OneModelRow(w)
    PROVE  SoundRow(Recomputed(w))
<1>1. /\ Recomputed(w) \in Row
      /\ Recomputed(w).status = StatusForChildren(w.child)
      /\ Recomputed(w).model = w.model
      /\ Recomputed(w).child = w.child
  BY RecomputedType
<1>2. /\ StatusForChildren(w.child) \in TaskStatus \ {"queued"}
      /\ StatusForChildren(w.child) = "running" <=>
            \E f \in DOMAIN w.child : w.child[f].status \in Unfinished
  BY StatusOfChildren
<1>3. HonestRow(Recomputed(w))
  BY <1>1, <1>2 DEF HonestRow, Unfinished, TaskStatus
<1> QED
  BY <1>1, <1>2, <1>3 DEF SoundRow, OneModelRow, TaskStatus

LEMMA StartKeeps ==
    ASSUME RowsInv, rw \in Rewrite, StartTask
    PROVE  RowsInv'
<1> DEFINE w == [row[rw] EXCEPT !.status = "running"]
<1>1. row \in [Rewrite -> Row] /\ SoundRow(row[rw])
  BY SoundRows DEF RowsSound
<1>2. /\ w \in Row /\ w.status = "running" /\ w.child = row[rw].child
      /\ w.model = row[rw].model
  BY <1>1 DEF Row, TaskStatus
<1>3. row[rw].status = "queued" /\ row' = [row EXCEPT ![rw] = w]
  BY DEF StartTask
<1> HIDE DEF w
<1>4. SoundRow(w)
  BY <1>1, <1>2, <1>3 DEF SoundRow, HonestRow, OneModelRow, Unfinished
<1> QED
  BY <1>2, <1>3, <1>4, RowReplaced DEF IsActive, Unfinished, ChildrenOf

LEMMA ClaimKeeps ==
    ASSUME RowsInv, rw \in Rewrite, NEW f,
           row[rw].status = "running", row[rw].child[f].status = "queued",
           row' = [row EXCEPT ![rw].child[f].status = "running"]
    PROVE  RowsInv'
<1> DEFINE c == [row[rw].child[f] EXCEPT !.status = "running"]
           w == SetChild(row[rw], f, c)
<1>1. row \in [Rewrite -> Row] /\ SoundRow(row[rw])
  BY SoundRows DEF RowsSound
<1>2. row' = [row EXCEPT ![rw] = w]
  BY <1>1 DEF SetChild
<1>3. CASE f \notin DOMAIN row[rw].child
  <2>1. row[rw].child \in [DOMAIN row[rw].child -> ChildRow]
    BY <1>1, ChildrenType DEF SoundRow, Row
  <2>2. [row[rw].child EXCEPT ![f] = c] = row[rw].child
    BY <1>3, <2>1
  <2>3. w = row[rw]
    BY <1>1, <2>2 DEF SetChild, SoundRow, Row
  <2> QED
    BY <1>1, <1>2, <2>3, RowReplaced DEF IsActive, ChildrenOf
<1>4. CASE f \in DOMAIN row[rw].child
  <2>1. /\ row[rw].child \in [DOMAIN row[rw].child -> ChildRow]
        /\ row[rw].child[f] \in ChildRow
    BY <1>1, <1>4, ChildrenType DEF SoundRow, Row
  <2>2. c \in ChildRow /\ c.status = "running"
    BY <2>1 DEF ChildRow, ChildStatus
  <2> HIDE DEF c
  <2>3. /\ w \in Row /\ w.status = row[rw].status
        /\ w.model = row[rw].model
        /\ w.child = [row[rw].child EXCEPT ![f] = c]
    <3>1. row[rw] \in Row
      BY <1>1 DEF SoundRow
    <3> QED
      BY <2>2, <3>1, SetChildType DEF Row, SetChild
  <2> HIDE DEF w
  <2>4. /\ DOMAIN w.child = DOMAIN row[rw].child /\ w.child[f] = c
        /\ \A g \in DOMAIN w.child : g # f => w.child[g] = row[rw].child[g]
    BY <1>4, <2>1, <2>3
  <2>5. HonestRow(w)
    BY <1>1, <1>4, <2>2, <2>3, <2>4 DEF SoundRow, HonestRow, Unfinished
  <2>6. OneModelRow(w)
    BY <1>1, <2>2, <2>3, <2>4 DEF SoundRow, OneModelRow
  <2>7. SoundRow(w)
    BY <1>1, <2>3, <2>4, <2>5, <2>6 DEF SoundRow
  <2> QED
    BY <1>2, <2>3, <2>4, <2>7, RowReplaced DEF IsActive, ChildrenOf, Unfinished
<1> QED
  BY <1>3, <1>4

LEMMA CompletedKeeps ==
    ASSUME RowsInv, rw \in Rewrite, NEW m \in ModelRevision,
           row[rw].status = "running", row[rw].model \in {NoModel, m},
           row' = [row EXCEPT ![rw] = Completed(m)]
    PROVE  RowsInv'
<1> DEFINE c == [status |-> "completed", model |-> m]
           w0 == SetChild(row[rw], RwFragment, c)
           w == [w0 EXCEPT !.model = IF @ = NoModel THEN m ELSE @]
<1>1. row \in [Rewrite -> Row] /\ SoundRow(row[rw])
  BY SoundRows DEF RowsSound
<1>2. c \in ChildRow /\ c.model = m /\ m # NoModel
  BY ModelAssumption DEF ChildRow, ChildStatus, Revision
<1> HIDE DEF c
<1>3. /\ w0 \in Row /\ w0.status = row[rw].status
      /\ w0.model = row[rw].model
      /\ w0.child = [row[rw].child EXCEPT ![RwFragment] = c]
  <2>1. row[rw] \in Row
    BY <1>1 DEF SoundRow
  <2> QED
    BY <1>2, <2>1, SetChildType DEF Row, SetChild
<1>4. Completed(m) = Recomputed(w)
  BY DEF Completed, c
<1> HIDE DEF w0
<1>5. w \in Row /\ w.model = m /\ w.child = w0.child
  BY <1>3 DEF Row, Revision
<1> HIDE DEF w
<1>6. row[rw].child \in [DOMAIN row[rw].child -> ChildRow]
  BY <1>1, ChildrenType DEF SoundRow, Row
<1>7. /\ DOMAIN w.child = DOMAIN row[rw].child
      /\ \A g \in DOMAIN w.child : w.child[g] \in {c, row[rw].child[g]}
  BY <1>3, <1>5, <1>6
<1>8. OneModelRow(w)
  BY <1>1, <1>2, <1>5, <1>7 DEF SoundRow, OneModelRow
<1>9. SoundRow(Recomputed(w)) /\ Recomputed(w).child = w.child
  BY <1>1, <1>5, <1>7, <1>8, RecomputedSound, RecomputedType DEF SoundRow
<1> QED
  BY <1>4, <1>7, <1>9, RowReplaced DEF IsActive, ChildrenOf, Unfinished

LEMMA FailedKeeps ==
    ASSUME RowsInv, rw \in Rewrite, NEW f \in Pending(rw),
           row' = [row EXCEPT ![rw] =
                      Recomputed(SetChild(@, f, [NewChild EXCEPT
                                                    !.status = "failed"]))]
    PROVE  RowsInv'
<1> DEFINE c == [NewChild EXCEPT !.status = "failed"]
           w == SetChild(row[rw], f, c)
<1>1. row \in [Rewrite -> Row] /\ SoundRow(row[rw])
  BY SoundRows DEF RowsSound
<1>2. c \in ChildRow /\ c.status = "failed"
  BY DEF NewChild, ChildRow, ChildStatus, Revision
<1>3. row' = [row EXCEPT ![rw] = Recomputed(w)]
  BY <1>1
<1> HIDE DEF c
<1>4. /\ w \in Row /\ w.model = row[rw].model
      /\ w.child = [row[rw].child EXCEPT ![f] = c]
  BY <1>1, <1>2, SetChildType DEF SoundRow
<1> HIDE DEF w
<1>5. row[rw].child \in [DOMAIN row[rw].child -> ChildRow]
  BY <1>1, ChildrenType DEF SoundRow, Row
<1>6. /\ DOMAIN w.child = DOMAIN row[rw].child
      /\ \A g \in DOMAIN w.child : w.child[g] \in {c, row[rw].child[g]}
  BY <1>4, <1>5
<1>7. OneModelRow(w)
  BY <1>1, <1>2, <1>4, <1>6 DEF SoundRow, OneModelRow
<1>8. SoundRow(Recomputed(w)) /\ Recomputed(w).child = w.child
  BY <1>1, <1>4, <1>6, <1>7, RecomputedSound, RecomputedType DEF SoundRow
<1>9. IsActive(rw)
  BY <1>1 DEF SoundRow, HonestRow, IsActive, Pending
<1> QED
  BY <1>3, <1>6, <1>8, <1>9, RowReplaced DEF ChildrenOf

LEMMA EndKeeps ==
    ASSUME RowsInv, rw \in Rewrite, Pending(rw) = {},
           row' = [row EXCEPT ![rw] = Recomputed(@)]
    PROVE  RowsInv'
<1>1. row \in [Rewrite -> Row] /\ SoundRow(row[rw])
  BY SoundRows DEF RowsSound
<1>2. SoundRow(Recomputed(row[rw]))
  BY <1>1, RecomputedSound DEF SoundRow
<1>3. Recomputed(row[rw]).status \notin Unfinished
  BY <1>1, RecomputedType, StatusOfChildren
  DEF SoundRow, Pending, Unfinished, TaskStatus
<1>4. row' = [row EXCEPT ![rw] = Recomputed(row[rw])]
  BY <1>1
<1> QED
  BY <1>2, <1>3, <1>4, RowReplaced

LEMMA RowsUnchanged == ASSUME RowsInv, UNCHANGED row PROVE RowsInv'
<1>1. RowsSound'
  BY SoundRows DEF RowsSound, SoundRow, HonestRow, OneModelRow, ActiveApart,
                   IsActive, ChildrenOf
<1> QED
  BY <1>1, SoundRows, PTL

-----------------------------------------------------------------------------
(* The steps keep the rows sound.                                          *)

AbsentStays ==
    \A r \in Rewrite : row[r].status = "absent" => row'[r] = row[r]

LEMMA BusyTask ==
    ASSUME RwProcessTypes, rwPc \notin {"idle", "exited"}
    PROVE  /\ rwTask \in RwTask /\ rw \in Rewrite
           /\ rwPc \in {"claim", "work", "failing"} => RwFragment \in Fragment
BY DEF RwProcessTypes, RwTask, rw, RwFragment

LEMMA SaveRows ==
    ASSUME RowsInv, rw \in Rewrite, NEW t, NEW m \in ModelRevision, Save(t, m)
    PROVE  RowsInv' /\ AbsentStays
<1>1. /\ row[rw].status = "running" /\ row[rw].model \in {NoModel, m}
      /\ row' = [row EXCEPT ![rw] = Completed(m)]
  BY DEF Save
<1> QED
  BY <1>1, CompletedKeeps DEF AbsentStays, RowsInv, RowTypes

LEMMA RunnerRows ==
    ASSUME RowsInv, RwProcessTypes, RwRunner
    PROVE  RowsInv' /\ AbsentStays
<1>1. row \in [Rewrite -> Row]
  BY DEF RowsInv, RowTypes
<1>2. CASE UNCHANGED row
  BY <1>2, RowsUnchanged DEF AbsentStays
<1>3. ASSUME rwPc = "begin", StartTask
      PROVE  RowsInv' /\ AbsentStays
  <2>1. rw \in Rewrite
    BY <1>3, BusyTask
  <2> QED
    BY <1>1, <1>3, <2>1, StartKeeps DEF StartTask, AbsentStays
<1>4. ASSUME rwPc = "claim", Claimable,
             row' = [row EXCEPT ![rw].child[RwFragment].status = "running"]
      PROVE  RowsInv' /\ AbsentStays
  <2>1. rw \in Rewrite
    BY <1>4, BusyTask
  <2>2. /\ row[rw].status = "running"
        /\ row[rw].child[RwFragment].status = "queued"
    BY <1>4 DEF Claimable, Child
  <2>3. RowsInv'
    BY <1>4, <2>1, <2>2, ClaimKeeps
  <2>4. \A r \in Rewrite : r # rw => row'[r] = row[r]
    BY <1>1, <1>4
  <2> QED
    BY <2>2, <2>3, <2>4 DEF AbsentStays
<1>5. ASSUME rwPc = "work", NEW t, NEW m \in ModelRevision, Save(t, m)
      PROVE  RowsInv' /\ AbsentStays
  BY <1>5, BusyTask, SaveRows
<1>6. ASSUME FailFragment, row' # row
      PROVE  RowsInv' /\ AbsentStays
  <2>1. /\ rw \in Rewrite /\ RwFragment \in Pending(rw)
        /\ row' = [row EXCEPT ![rw] =
                      Recomputed(SetChild(@, RwFragment,
                                   [NewChild EXCEPT !.status = "failed"]))]
    BY <1>6, BusyTask DEF FailFragment
  <2>2. RowsInv'
    BY <2>1, FailedKeeps
  <2>3. row[rw].status # "absent"
    BY <2>1 DEF RowsInv, AbsentIsEmpty, ChildrenOf, Pending
  <2> QED
    BY <1>1, <2>1, <2>2, <2>3 DEF AbsentStays
<1>7. CASE EndTask
  <2>1. /\ rw \in Rewrite /\ Pending(rw) = {} /\ row[rw].status # "absent"
        /\ row' = [row EXCEPT ![rw] = Recomputed(@)]
    BY <1>7, BusyTask DEF EndTask
  <2>2. RowsInv'
    BY <2>1, EndKeeps
  <2> QED
    BY <1>1, <2>1, <2>2 DEF AbsentStays
<1>8. CASE TakeTask \/ LoopExit \/ Abandon \/ FailFragmentFails \/ EndTaskFails
  BY <1>2, <1>8 DEF TakeTask, LoopExit, Abandon, FailFragmentFails, EndTaskFails
<1>9. CASE BeginTask \/ DropTask
  BY <1>2, <1>3, <1>9 DEF BeginTask, DropTask
<1>10. CASE ClaimFragment \/ ClaimFails
  BY <1>2, <1>4, <1>10 DEF ClaimFragment, ClaimFails
<1>11. CASE NoAnswer \/ \E t \in Text, m \in ModelRevision : Answer(t, m)
  BY <1>2, <1>5, <1>11 DEF NoAnswer, Answer
<1> QED
  BY <1>2, <1>6, <1>7, <1>8, <1>9, <1>10, <1>11 DEF RwRunner

LEMMA RowsStep ==
    ASSUME RwInv, [Next]_vars
    PROVE  RowsInv'
<1> USE DEF RwInv
<1>1. CASE UNCHANGED row
  BY <1>1, RowsUnchanged
<1>2. CASE Generation
  BY <1>1, <1>2, RowsRemoved DEF Generation
<1>3. ASSUME NEW r \in Rewrite, CreateTask(r)
      PROVE  RowsInv'
  <2>1. PICK j \in Job : \E S \in SUBSET Gen!FragmentsOf(j) :
           InsertTask(r, S) /\ Gen!CreateRewriteTask(j, S)
    BY <1>3 DEF CreateTask
  <2>2. PICK S \in SUBSET Gen!FragmentsOf(j) :
           InsertTask(r, S) /\ Gen!CreateRewriteTask(j, S)
    BY <2>1
  <2>3. S # {} /\ Rewriting[j] = {}
    BY <2>2 DEF Gen!CreateRewriteTask
  <2> QED
    BY <2>2, <2>3, RowInserted
<1>4. ASSUME NEW r \in Rewrite, UndoTask(r)
      PROVE  RowsInv'
  <2>1. SoundRow(NoRow) /\ NoRow.status \notin Unfinished
    BY NoRowType DEF SoundRow, HonestRow, OneModelRow, NoRow, Unfinished
  <2> QED
    BY <1>4, <2>1, RowReplaced DEF UndoTask
<1>5. CASE \E r \in Rewrite : EnqueueTask(r) \/ UndoTaskFails(r)
  BY <1>1, <1>5 DEF EnqueueTask, UndoTaskFails
<1>6. CASE CloseRewriter \/ Restart
  BY <1>1, <1>6 DEF CloseRewriter, Restart
<1>7. CASE UNCHANGED vars
  BY <1>1, <1>7 DEF vars
<1> QED
  BY <1>2, <1>3, <1>4, <1>5, <1>6, <1>7, RunnerRows DEF Next

-----------------------------------------------------------------------------
(* The steps keep the process.                                             *)

\* The list a task carries is one of its job's fragments.
LEMMA TaskListType ==
    ASSUME NEW r \in Rewrite, NEW j, NEW S \in SUBSET Gen!FragmentsOf(j),
           NEW t \in RewriteTasksFor(r, j, S)
    PROVE  t \in RwTask /\ t.id = r
<1>1. S \subseteq Fragment /\ IsFiniteSet(S)
  BY FS_Subset, JobsAssumption DEF Gen!FragmentsOf
<1>2. Cardinality(S) \in Nat
  BY <1>1, FS_CardinalityType
<1>3. t.id = r /\ t.fragments \in InBookOrder(j, S)
      /\ t = [id |-> t.id, fragments |-> t.fragments]
  BY DEF RewriteTasksFor
<1>4. t.fragments \in [1 .. Cardinality(S) -> S]
  BY <1>3 DEF InBookOrder, Bijection, Injection
<1>5. t.fragments \in Seq(Fragment)
  BY <1>1, <1>2, <1>4
<1> QED
  BY <1>3, <1>5 DEF RwTask

RunnerTypes ==
    /\ rwPc \in {"idle", "begin", "claim", "work", "failing", "finish",
                 "exited"}
    /\ rwPc \in {"idle", "exited"} => rwTask = NoRwTask
    /\ rwPc \notin {"idle", "exited"} => rwTask \in RwTask
    /\ rwIndex \in Nat
    /\ rwPc \in {"claim", "work", "failing"} =>
          rwIndex \in 1 .. Len(rwTask.fragments)

LEMMA RunnerTypesStep ==
    ASSUME RwProcessTypes, RwRunner
    PROVE  RunnerTypes' /\ rwQueue' \in Seq(RwTask) /\ rwRequest' = rwRequest
<1>1. /\ RunnerTypes /\ rwQueue \in Seq(RwTask)
  BY DEF RwProcessTypes, RunnerTypes
<1>2. ASSUME rwTask \in RwTask, NEW i \in Nat \ {0}, ToFragment(i)
      PROVE  RunnerTypes'
  <2>1. Len(rwTask.fragments) \in Nat
    BY <1>2 DEF RwTask
  <2> QED
    BY <1>2, <2>1 DEF RunnerTypes, ToFragment
<1>3. ASSUME rwPc \in {"claim", "work", "failing"}, NextFragment
      PROVE  RunnerTypes'
  BY <1>1, <1>2, <1>3 DEF NextFragment, RunnerTypes
<1>4. ASSUME ToIdle PROVE RunnerTypes'
  BY <1>4 DEF ToIdle, RunnerTypes
<1>5. ASSUME rwPc \in {"claim", "work"}, ToFailing PROVE RunnerTypes'
  BY <1>1, <1>5 DEF ToFailing, RunnerTypes
<1>6. CASE TakeTask
  <2>1. Head(rwQueue) \in RwTask /\ Tail(rwQueue) \in Seq(RwTask)
    BY <1>1, <1>6 DEF TakeTask
  <2> QED
    BY <1>1, <1>6, <2>1 DEF TakeTask, RunnerTypes
<1>7. CASE LoopExit
  BY <1>1, <1>7 DEF LoopExit, RunnerTypes, Stay
<1>8. CASE BeginTask
  BY <1>1, <1>2, <1>8 DEF BeginTask, RunnerTypes, Stay
<1>9. CASE DropTask \/ Abandon \/ EndTask \/ EndTaskFails
  BY <1>1, <1>4, <1>9 DEF DropTask, Abandon, EndTask, EndTaskFails, Stay
<1>10. CASE ClaimFragment
  BY <1>1, <1>10 DEF ClaimFragment, RunnerTypes, Stay
<1>11. CASE ClaimFails \/ NoAnswer
  BY <1>1, <1>5, <1>11 DEF ClaimFails, NoAnswer, Stay
<1>12. CASE \E t \in Text, m \in ModelRevision : Answer(t, m)
  BY <1>1, <1>3, <1>12 DEF Answer, Stay
<1>13. CASE FailFragment \/ FailFragmentFails
  BY <1>1, <1>3, <1>13 DEF FailFragment, FailFragmentFails, Stay
<1> QED
  BY <1>6, <1>7, <1>8, <1>9, <1>10, <1>11, <1>12, <1>13 DEF RwRunner

LEMMA ProcessStep ==
    ASSUME RwProcessTypes, [Next]_vars
    PROVE  RwProcessTypes'
<1>1. /\ RwProcessTypes <=> /\ rwRequest \in [Rewrite -> RwRequest]
                            /\ rwQueue \in Seq(RwTask) /\ RunnerTypes
  BY DEF RwProcessTypes, RunnerTypes
<1>2. ASSUME UNCHANGED <<rwQueue, rwRequest, rwRunnerVars>>
      PROVE  RwProcessTypes'
  BY <1>2 DEF RwProcessTypes, rwRunnerVars
<1>3. ASSUME rwRequest' \in [Rewrite -> RwRequest], rwQueue' \in Seq(RwTask),
             UNCHANGED rwRunnerVars
      PROVE  RwProcessTypes'
  BY <1>3 DEF RwProcessTypes, rwRunnerVars
<1>4. CASE Generation \/ CloseRewriter \/ UNCHANGED vars
  BY <1>2, <1>4 DEF Generation, CloseRewriter, rwProcessVars, vars
<1>5. CASE RwRunner
  <2>1. RunnerTypes' /\ rwQueue' \in Seq(RwTask) /\ rwRequest' = rwRequest
    BY <1>5, RunnerTypesStep
  <2> QED
    BY <2>1 DEF RwProcessTypes, RunnerTypes
<1>6. ASSUME NEW r \in Rewrite, CreateTask(r)
      PROVE  RwProcessTypes'
  <2>1. rwRequest \in [Rewrite -> RwRequest] /\ rwQueue \in Seq(RwTask)
    BY DEF RwProcessTypes
  <2>2. PICK x \in RwRequest : rwRequest' = [rwRequest EXCEPT ![r] = x]
    BY <1>6, TaskListType DEF CreateTask, RwRequest
  <2> QED
    BY <1>3, <1>6, <2>1, <2>2 DEF CreateTask
<1>7. ASSUME NEW r \in Rewrite, EnqueueTask(r)
      PROVE  RwProcessTypes'
  <2>1. rwRequest \in [Rewrite -> RwRequest] /\ rwQueue \in Seq(RwTask)
    BY DEF RwProcessTypes
  <2>2. rwRequest[r].task \in RwTask
    BY <1>7, <2>1 DEF EnqueueTask, RwRequest
  <2>3. rwRequest' \in [Rewrite -> RwRequest]
    BY <1>7, <2>1 DEF EnqueueTask, RwRequest
  <2>4. rwQueue' \in Seq(RwTask)
    BY <1>7, <2>1, <2>2 DEF EnqueueTask
  <2> QED
    BY <1>3, <1>7, <2>3, <2>4 DEF EnqueueTask
<1>8. ASSUME NEW r \in Rewrite, UndoTask(r) \/ UndoTaskFails(r)
      PROVE  RwProcessTypes'
  <2>1. rwRequest \in [Rewrite -> RwRequest] /\ rwQueue \in Seq(RwTask)
    BY DEF RwProcessTypes
  <2>2. rwRequest' \in [Rewrite -> RwRequest]
    BY <1>8, <2>1 DEF UndoTask, UndoTaskFails, RwRequest
  <2> QED
    BY <1>3, <1>8, <2>1, <2>2 DEF UndoTask, UndoTaskFails
<1>9. CASE Restart
  <2>1. rwRequest \in [Rewrite -> RwRequest]
    BY DEF RwProcessTypes
  <2>2. rwRequest' \in [Rewrite -> RwRequest]
    BY <1>9, <2>1 DEF Restart, RwRequest
  <2> QED
    BY <1>9, <2>2 DEF Restart, ToIdle, RwProcessTypes
<1> QED
  BY <1>4, <1>5, <1>6, <1>7, <1>8, <1>9 DEF Next

LEMMA NewStep ==
    ASSUME RwInv, [Next]_vars
    PROVE  NewIsAbsent'
<1>1. /\ rwRequest \in [Rewrite -> RwRequest] /\ row \in [Rewrite -> Row]
      /\ NewIsAbsent /\ NoRow.status = "absent"
  BY DEF RwInv, RwProcessTypes, RowsInv, RowTypes, NoRow
<1>2. ASSUME AbsentStays,
             \A r \in Rewrite : rwRequest'[r].pc = "new" => rwRequest[r].pc = "new"
      PROVE  NewIsAbsent'
  BY <1>1, <1>2 DEF NewIsAbsent, AbsentStays
<1>3. CASE RwRunner
  BY <1>2, <1>3, RunnerRows, RunnerTypesStep DEF RwInv
<1>4. CASE Generation
  <2>1. AbsentStays
    <3>1. CASE UNCHANGED row
      BY <3>1 DEF AbsentStays
    <3>2. ASSUME NEW j, row' = WithoutTasksOf(j)
          PROVE  AbsentStays
      BY <3>2 DEF WithoutTasksOf, AbsentStays, Of, RwInv, RowsInv,
                  AbsentIsEmpty, ChildrenOf
    <3> QED
      BY <1>4, <3>1, <3>2 DEF Generation
  <2> QED
    BY <1>2, <1>4, <2>1 DEF Generation, rwProcessVars
<1>5. ASSUME NEW r \in Rewrite,
             \/ CreateTask(r) \/ EnqueueTask(r) \/ UndoTask(r)
             \/ UndoTaskFails(r)
      PROVE  NewIsAbsent'
  <2>1. /\ \A s \in Rewrite : s # r => rwRequest'[s] = rwRequest[s]
        /\ \A s \in Rewrite : s # r => row'[s] = row[s]
        /\ rwRequest'[r].pc # "new"
    BY <1>1, <1>5
    DEF CreateTask, InsertTask, EnqueueTask, UndoTask, UndoTaskFails
  <2> QED
    BY <1>1, <2>1 DEF NewIsAbsent
<1>6. CASE CloseRewriter \/ Restart \/ UNCHANGED vars
  BY <1>1, <1>2, <1>6
  DEF CloseRewriter, Restart, vars, rwProcessVars, AbsentStays
<1> QED
  BY <1>3, <1>4, <1>5, <1>6 DEF Next

LEMMA RwInvInit == Init => RwInv
<1> SUFFICES ASSUME Init PROVE RwInv
  OBVIOUS
<1>1. RwProcessTypes /\ NewIsAbsent
  BY DEF Init, RwProcessTypes, RwRequest, NewIsAbsent
<1>2. \A r \in Rewrite : row[r] = NoRow
  BY DEF Init
<1>3. SoundRow(NoRow) /\ NoRow.status \notin Unfinished
  BY NoRowType DEF SoundRow, HonestRow, OneModelRow, NoRow, Unfinished
<1>4. row \in [Rewrite -> Row]
  BY NoRowType DEF Init
<1>5. RowsSound
  BY <1>2, <1>3, <1>4 DEF RowsSound, ActiveApart, IsActive
<1> QED
  BY <1>1, <1>5, SoundRows DEF RwInv

LEMMA RwInvariant == Spec => []RwInv
<1>1. RwInv /\ [Next]_vars => RwInv'
  BY RowsStep, ProcessStep, NewStep DEF RwInv
<1> QED
  BY RwInvInit, <1>1, PTL DEF Spec

-----------------------------------------------------------------------------
(* The theorems about the rows.                                            *)

\* The status a client polls is the one the children have, after every
\* transaction of the handlers and the rewrite runner.
THEOREM TaskStatusAlwaysHonest == Spec => []TaskStatusIsHonest
<1>1. RwInv => TaskStatusIsHonest
  BY DEF RwInv, RowsInv
<1> QED
  BY <1>1, RwInvariant, PTL

\* The texts a task changed come from one revision of the model.
THEOREM OneModelAlwaysPerTask == Spec => []OneModelPerTask
<1>1. RwInv => OneModelPerTask
  BY DEF RwInv, RowsInv
<1> QED
  BY <1>1, RwInvariant, PTL

\* A job never has two active rewrite tasks: createRewriteTask lets none
\* through that the unique index would refuse.
THEOREM OneTaskActive == Spec => []OneActiveTask
<1>1. RwInv => OneActiveTask
  <2> SUFFICES ASSUME RwInv, NEW j \in Job
               PROVE  Cardinality({r \in Rewrite : Of(j, r) /\ IsActive(r)}) <= 1
    BY DEF OneActiveTask
  <2> DEFINE E == {r \in Rewrite : Of(j, r) /\ IsActive(r)}
  <2>1. \A r, s \in E : r = s
    BY DEF RwInv, RowsInv, ActiveApart, Of, ChildrenOf, Gen!FragmentsOf
  <2>2. CASE E = {}
    BY <2>2, FS_EmptySet
  <2>3. CASE E # {}
    <3>1. PICK r : E = {r}
      BY <2>1, <2>3
    <3> QED
      BY <3>1, FS_Singleton
  <2> QED
    BY <2>2, <2>3
<1> QED
  BY <1>1, RwInvariant, PTL

-----------------------------------------------------------------------------
(* What a transaction leaves of the tables.                                *)

Columns ==
    /\ DOMAIN jobStatus = Job
    /\ DOMAIN audio = Fragment
    /\ DOMAIN status = Fragment

\* No job but those in D goes, and no fragment but those in F stops waiting.
JobsStay(D) ==
    \A j \in Job \ D : jobStatus[j] # "absent" => jobStatus'[j] # "absent"
PendingStays(F) ==
    \A f \in Fragment \ F : status[f] = "pending" => status'[f] = "pending"
TablesKept(D, F) == Columns' /\ JobsStay(D) /\ PendingStays(F)

LEMMA StatusIsThere == \A j, st : Gen!StatusFor(j, st) # "absent"
BY DEF Gen!StatusFor

LEMMA JobTables ==
    ASSUME Columns, NEW j
    PROVE  /\ Gen!CreateJob(j) => TablesKept({}, {})
           /\ Gen!DeleteJob(j) => TablesKept({j}, {})
           /\ Gen!StartTask(j) => TablesKept({}, {})
           /\ Gen!FinishTask(j) => TablesKept({}, {})
           /\ \A S : Gen!PrepareRetry(j, S) => TablesKept({}, {})
           /\ \A previous : Gen!CancelRetry(j, previous) =>
                 TablesKept({}, Gen!FragmentsOf(j))
           /\ \A S : Gen!CreateRewriteTask(j, S) => TablesKept({}, {})
<1> USE DEF TablesKept, Columns, JobsStay, PendingStays
<1>1. Gen!CreateJob(j) => TablesKept({}, {})
  <2> SUFFICES ASSUME Gen!CreateJob(j)
               PROVE  TablesKept({}, {})
    OBVIOUS
  <2>1. jobStatus' = [jobStatus EXCEPT ![j] = "queued"]
    BY DEF Gen!CreateJob
  <2>2. status' = [f \in Fragment |->
                     IF JobOf[f] = j THEN "pending" ELSE status[f]]
    BY DEF Gen!CreateJob, Gen!FreshRows, Gen!Inserted
  <2>3. DOMAIN audio' = Fragment
    BY DEF Gen!CreateJob, Gen!FreshRows, Gen!Inserted
  <2>4. JobsStay({})
    BY <2>1
  <2>5. PendingStays({})
    BY <2>2
  <2> QED
    BY <2>1, <2>2, <2>3, <2>4, <2>5
<1>2. Gen!DeleteJob(j) => TablesKept({j}, {})
  <2> SUFFICES ASSUME Gen!DeleteJob(j)
               PROVE  TablesKept({j}, {})
    OBVIOUS
  <2>1. jobStatus' = [jobStatus EXCEPT ![j] = "absent"]
    BY DEF Gen!DeleteJob
  <2>2. status' = [f \in Fragment |->
                     IF JobOf[f] = j THEN "pending" ELSE status[f]]
    BY DEF Gen!DeleteJob, Gen!FreshRows, Gen!Inserted
  <2>3. DOMAIN audio' = Fragment
    BY DEF Gen!DeleteJob, Gen!FreshRows, Gen!Inserted
  <2>4. JobsStay({j})
    BY <2>1
  <2>5. PendingStays({})
    BY <2>2
  <2> QED
    BY <2>1, <2>2, <2>3, <2>4, <2>5
<1>3. Gen!StartTask(j) => TablesKept({}, {})
  BY DEF Gen!StartTask
<1>4. Gen!FinishTask(j) => TablesKept({}, {})
  BY StatusIsThere DEF Gen!FinishTask, Gen!Recompute, Gen!RecomputeTo
<1>5. ASSUME NEW S, Gen!PrepareRetry(j, S) PROVE TablesKept({}, {})
  BY <1>5 DEF Gen!PrepareRetry, Gen!RecomputeTo
<1>6. ASSUME NEW previous, Gen!CancelRetry(j, previous)
      PROVE  TablesKept({}, Gen!FragmentsOf(j))
  BY <1>6, StatusIsThere
  DEF Gen!FragmentsOf, Gen!CancelRetry, Gen!Recompute, Gen!RecomputeTo,
      Gen!storeVars
<1>7. ASSUME NEW S, Gen!CreateRewriteTask(j, S) PROVE TablesKept({}, {})
  BY <1>7 DEF Gen!CreateRewriteTask
<1> QED
  BY <1>1, <1>2, <1>3, <1>4, <1>5, <1>6, <1>7

\* A transaction on a fragment recomputes its job to a status a job has.
Recomputes(f) ==
    \E final : /\ final # "absent"
               /\ jobStatus' = [jobStatus EXCEPT ![JobOf[f]] = final]

LEMMA FragmentRecomputes ==
    ASSUME Columns, NEW f, DOMAIN audio' = Fragment, Recomputes(f),
           NEW next, status' = [status EXCEPT ![f] = next]
    PROVE  /\ TablesKept({}, {f})
           /\ next = "pending" \/ status[f] # "pending" => TablesKept({}, {})
<1>1. PICK final : /\ final # "absent"
                   /\ jobStatus' = [jobStatus EXCEPT ![JobOf[f]] = final]
  BY DEF Recomputes
<1> QED
  BY <1>1 DEF TablesKept, Columns, JobsStay, PendingStays

LEMMA FragmentTables ==
    ASSUME Columns, NEW f
    PROVE  /\ Gen!StartFragment(f) => TablesKept({}, {f})
           /\ \A t, c : Gen!CompleteFragment(f, t, c) => TablesKept({}, {f})
           /\ Gen!FailFragment(f) => TablesKept({}, {f})
           /\ Gen!PrepareAutomaticWarningRetry(f) => TablesKept({}, {})
           /\ \A t : Gen!EditFragment(f, t) => TablesKept({}, {})
           /\ \A n : Gen!RestoreFragmentRevision(f, n) => TablesKept({}, {})
           /\ Gen!ApproveFragment(f) => TablesKept({}, {})
           /\ \A t, u : Gen!CompleteRewriteFragment(f, t, u) => TablesKept({}, {})
           /\ Gen!FailRewriteFragment(f) => TablesKept({}, {})
<1> USE DEF Recomputes, Gen!Recompute, Gen!RecomputeTo
<1>1. Gen!StartFragment(f) => TablesKept({}, {f})
  BY DEF Gen!StartFragment, TablesKept, Columns, JobsStay, PendingStays
<1>2. ASSUME NEW t, NEW c, Gen!CompleteFragment(f, t, c)
      PROVE  TablesKept({}, {f})
  <2>1. DOMAIN audio' = Fragment /\ Recomputes(f)
    BY <1>2, StatusIsThere DEF Gen!CompleteFragment, Columns
  <2>2. PICK next : status' = [status EXCEPT ![f] = next]
    BY <1>2 DEF Gen!CompleteFragment
  <2> QED
    BY <2>1, <2>2, FragmentRecomputes
<1>3. ASSUME Gen!FailFragment(f) PROVE TablesKept({}, {f})
  <2>1. DOMAIN audio' = Fragment /\ Recomputes(f)
    BY <1>3, StatusIsThere DEF Gen!FailFragment, Columns
  <2>2. status' = [status EXCEPT ![f] = "failed"]
    BY <1>3 DEF Gen!FailFragment
  <2> QED
    BY <2>1, <2>2, FragmentRecomputes
<1>4. ASSUME Gen!PrepareAutomaticWarningRetry(f) PROVE TablesKept({}, {})
  <2>1. DOMAIN audio' = Fragment /\ Recomputes(f)
    BY <1>4 DEF Gen!PrepareAutomaticWarningRetry, Columns
  <2>2. status' = [status EXCEPT ![f] = "pending"]
    BY <1>4 DEF Gen!PrepareAutomaticWarningRetry
  <2> QED
    BY <2>1, <2>2, FragmentRecomputes
<1>5. ASSUME NEW t, Gen!EditFragment(f, t) PROVE TablesKept({}, {})
  <2>1. DOMAIN audio' = Fragment /\ Recomputes(f)
    BY <1>5, StatusIsThere DEF Gen!EditFragment, Gen!SetText, Columns
  <2>2. /\ status' = [status EXCEPT ![f] = "warning"]
        /\ status[f] # "pending"
    BY <1>5 DEF Gen!EditFragment, Gen!Retryable
  <2> QED
    BY <2>1, <2>2, FragmentRecomputes
<1>6. ASSUME NEW n, Gen!RestoreFragmentRevision(f, n) PROVE TablesKept({}, {})
  <2>1. DOMAIN audio' = Fragment /\ Recomputes(f)
    BY <1>6, StatusIsThere DEF Gen!RestoreFragmentRevision, Gen!SetText, Columns
  <2>2. status' = [status EXCEPT ![f] = Gen!RestoredStatus(status[f])]
    BY <1>6 DEF Gen!RestoreFragmentRevision
  <2>3. status[f] = "pending" => Gen!RestoredStatus(status[f]) = "pending"
    BY DEF Gen!RestoredStatus
  <2> QED
    BY <2>1, <2>2, <2>3, FragmentRecomputes
<1>7. ASSUME Gen!ApproveFragment(f) PROVE TablesKept({}, {})
  <2>1. DOMAIN audio' = Fragment /\ Recomputes(f)
    BY <1>7, StatusIsThere DEF Gen!ApproveFragment, Columns
  <2>2. /\ status' = [status EXCEPT ![f] = "ready"]
        /\ status[f] # "pending"
    BY <1>7 DEF Gen!ApproveFragment
  <2> QED
    BY <2>1, <2>2, FragmentRecomputes
<1>8. ASSUME NEW t, NEW u, Gen!CompleteRewriteFragment(f, t, u)
      PROVE  TablesKept({}, {})
  BY <1>8, StatusIsThere
  DEF Gen!CompleteRewriteFragment, Gen!SetText, TablesKept, Columns, JobsStay,
      PendingStays
<1>9. Gen!FailRewriteFragment(f) => TablesKept({}, {})
  BY DEF Gen!FailRewriteFragment, TablesKept, Columns, JobsStay, PendingStays
<1> QED
  BY <1>1, <1>2, <1>3, <1>4, <1>5, <1>6, <1>7, <1>8, <1>9

LEMMA StoreUnchanged ==
    ASSUME Columns, UNCHANGED tableVars
    PROVE  TablesKept({}, {})
BY DEF tableVars, TablesKept, Columns, JobsStay, PendingStays

-----------------------------------------------------------------------------
(* What generation sees follows the rows.                                  *)

PendingIn(w) == {f \in DOMAIN w.child : w.child[f].status \in Unfinished}
ViewOf(rows) ==
    [j \in Job |-> {f \in UNION {PendingIn(rows[r]) : r \in Rewrite} :
                       JobOf[f] = j}]

Seen(rows, f) == \E r \in Rewrite : f \in PendingIn(rows[r])

LEMMA ViewIsRewriting == Rewriting = ViewOf(row) /\ Rewriting' = ViewOf(row')
BY DEF Rewriting, Pending, ViewOf, PendingIn

LEMMA InView ==
    ASSUME NEW rows, NEW j \in Job
    PROVE  \A f : f \in ViewOf(rows)[j] <=>
                     JobOf[f] = j /\ Seen(rows, f)
BY DEF ViewOf, Seen

\* Only job k looks different, and of it S is to be seen.
Shows(rows, next, k, S) ==
    /\ \A f : JobOf[f] # k => (Seen(next, f) <=> Seen(rows, f))
    /\ \A f : f \in S <=> JobOf[f] = k /\ Seen(next, f)

LEMMA ViewChange ==
    ASSUME NEW rows, NEW next, NEW k \in Job, NEW S, Shows(rows, next, k, S)
    PROVE  ViewOf(next) = [ViewOf(rows) EXCEPT ![k] = S]
<1>1. ASSUME NEW j \in Job, j # k
      PROVE  ViewOf(next)[j] = ViewOf(rows)[j]
  <2>1. \A f : f \in ViewOf(next)[j] <=> f \in ViewOf(rows)[j]
    <3>1. \A f : f \in ViewOf(next)[j] <=> JobOf[f] = j /\ Seen(next, f)
      BY InView
    <3>2. \A f : f \in ViewOf(rows)[j] <=> JobOf[f] = j /\ Seen(rows, f)
      BY InView
    <3> QED
      BY <1>1, <3>1, <3>2 DEF Shows
  <2> QED
    BY <2>1
<1>2. ViewOf(next)[k] = S
  <2>1. \A f : f \in ViewOf(next)[k] <=> f \in S
    <3>1. \A f : f \in ViewOf(next)[k] <=> JobOf[f] = k /\ Seen(next, f)
      BY InView
    <3> QED
      BY <3>1 DEF Shows
  <2> QED
    BY <2>1
<1>3. /\ ViewOf(next) = [j \in Job |-> ViewOf(next)[j]]
      /\ ViewOf(rows) = [j \in Job |-> ViewOf(rows)[j]]
  BY DEF ViewOf
<1> QED
  BY <1>1, <1>2, <1>3

LEMMA ViewSame ==
    ASSUME NEW rows, NEW next,
           \A r \in Rewrite : PendingIn(next[r]) = PendingIn(rows[r])
    PROVE  ViewOf(next) = ViewOf(rows)
BY DEF ViewOf

\* Inserting a task shows its fragments to its job.
LEMMA InsertAgrees ==
    ASSUME RowsInv, NEW r \in Rewrite, row[r] = NoRow, NEW j \in Job,
           NEW S \in SUBSET Gen!FragmentsOf(j), Rewriting[j] = {},
           InsertTask(r, S)
    PROVE  Rewriting' = [Rewriting EXCEPT ![j] = S]
<1>1. /\ row \in [Rewrite -> Row] /\ PendingIn(row[r]) = {}
      /\ \A f \in S : JobOf[f] = j
  BY NoRowType DEF RowsInv, RowTypes, PendingIn, Gen!FragmentsOf
<1>2. \A s \in Rewrite : s # r => row'[s] = row[s]
  BY <1>1 DEF InsertTask
<1>3. PendingIn(row'[r]) = S
  BY <1>1 DEF InsertTask, PendingIn, NewChild, Unfinished
<1>4. PICK old, next : old = row /\ next = row'
  OBVIOUS
<1>5. \A f : JobOf[f] = j => ~Seen(old, f)
  BY <1>4, InView, ViewIsRewriting
<1>6. \A f : Seen(next, f) <=> f \in S \/ Seen(old, f)
  BY <1>1, <1>2, <1>3, <1>4 DEF Seen
<1>7. Shows(old, next, j, S)
  BY <1>1, <1>5, <1>6 DEF Shows
<1>8. ViewOf(next) = [ViewOf(old) EXCEPT ![j] = S]
  BY <1>7, ViewChange
<1> QED
  BY <1>4, <1>8, ViewIsRewriting

\* A fragment that is pending in a task is pending in no other.
LEMMA PendingApart ==
    ASSUME RowsInv, NEW r \in Rewrite, NEW f \in PendingIn(row[r]),
           NEW s \in Rewrite, NEW g \in PendingIn(row[s]), JobOf[f] = JobOf[g]
    PROVE  r = s
<1>1. \A q \in Rewrite : PendingIn(row[q]) # {} => IsActive(q)
  BY DEF RowsInv, TaskStatusIsHonest, AbsentIsEmpty, ChildrenOf, Pending,
         PendingIn
<1> QED
  BY <1>1 DEF RowsInv, ActiveApart, ChildrenOf, PendingIn

LEMMA PendingJob ==
    ASSUME RowsInv, NEW r \in Rewrite, NEW f \in PendingIn(row[r])
    PROVE  f \in Fragment /\ JobOf[f] \in Job
BY ChildrenType, JobsAssumption DEF RowsInv, RowTypes, Row, PendingIn

\* Settling a fragment takes it out of its job's view.
LEMMA SettleAgrees ==
    ASSUME RowsInv, NEW r \in Rewrite, NEW f \in Pending(r), NEW w, NEW c,
           w.child = [row[r].child EXCEPT ![f] = c], c.status \notin Unfinished,
           row' = [row EXCEPT ![r] = w]
    PROVE  Rewriting' = [Rewriting EXCEPT ![JobOf[f]] = @ \ {f}]
<1>1. /\ row \in [Rewrite -> Row] /\ f \in PendingIn(row[r])
      /\ row[r].child \in [DOMAIN row[r].child -> ChildRow]
  BY ChildrenType DEF RowsInv, RowTypes, Row, Pending, PendingIn
<1>2. row'[r] = w /\ \A s \in Rewrite : s # r => row'[s] = row[s]
  BY <1>1
<1>3. PendingIn(row'[r]) = PendingIn(row[r]) \ {f}
  BY <1>1, <1>2 DEF PendingIn
<1>4. \A s \in Rewrite : s # r => f \notin PendingIn(row[s])
  BY <1>1, PendingApart
<1>5. PICK old, next : old = row /\ next = row'
  OBVIOUS
<1>6. \A g : Seen(next, g) <=> g # f /\ Seen(old, g)
  BY <1>2, <1>3, <1>4, <1>5 DEF Seen
<1>7. JobOf[f] \in Job
  BY <1>1, PendingJob
<1>8. PICK S : S = ViewOf(old)[JobOf[f]] \ {f}
  OBVIOUS
<1>9. Shows(old, next, JobOf[f], S)
  BY <1>6, <1>7, <1>8, InView DEF Shows
<1>10. [ViewOf(old) EXCEPT ![JobOf[f]] = S] =
         [ViewOf(old) EXCEPT ![JobOf[f]] = @ \ {f}]
  BY <1>8 DEF ViewOf
<1>11. ViewOf(next) = [ViewOf(old) EXCEPT ![JobOf[f]] = S]
  BY <1>7, <1>8, <1>9, ViewChange
<1> QED
  BY <1>5, <1>10, <1>11, ViewIsRewriting

\* Deleting a job takes its tasks, and no others, out of sight.
LEMMA DeleteAgrees ==
    ASSUME RowsInv, NEW j \in Job, row' = WithoutTasksOf(j)
    PROVE  Rewriting' = [Rewriting EXCEPT ![j] = {}]
<1>1. PICK old, next : old = row /\ next = row'
  OBVIOUS
<1>2. \A r \in Rewrite :
         PendingIn(next[r]) = IF Of(j, r) THEN {} ELSE PendingIn(old[r])
  BY <1>1, NoRowType DEF WithoutTasksOf, PendingIn
<1>3. \A r \in Rewrite : \A f \in PendingIn(old[r]) : Of(j, r) <=> JobOf[f] = j
  BY <1>1, PendingJob
  DEF RowsInv, OneJobPerTask, ChildrenOf, Of, Gen!FragmentsOf, PendingIn
<1>4. \A f : Seen(next, f) <=> JobOf[f] # j /\ Seen(old, f)
  BY <1>2, <1>3 DEF Seen
<1>5. Shows(old, next, j, {})
  BY <1>4 DEF Shows
<1>6. ViewOf(next) = [ViewOf(old) EXCEPT ![j] = {}]
  BY <1>5, ViewChange
<1> QED
  BY <1>1, <1>6, ViewIsRewriting

\* The row updates in the actions do to generation's view of the rewrite
\* tasks what GenerationRunner's transactions say: a task inserted for a job
\* without active one shows its fragments, a saved answer or a failure takes
\* the fragment out, and a deleted job takes its tasks along.  So no action
\* loses a step of the code by stating both.
THEOREM RowUpdatesAgree ==
    ASSUME RwInv
    PROVE  /\ \A r \in Rewrite, j \in Job : \A S \in SUBSET Gen!FragmentsOf(j) :
                 row[r] = NoRow /\ Rewriting[j] = {} /\ InsertTask(r, S) =>
                    Rewriting' = [Rewriting EXCEPT ![j] = S]
           /\ \A r \in Rewrite : \A f \in Pending(r) : \A m \in ModelRevision :
                 rw = r /\ RwFragment = f /\ row' = [row EXCEPT ![r] = Completed(m)]
                    => Rewriting' = [Rewriting EXCEPT ![JobOf[f]] = @ \ {f}]
           /\ \A r \in Rewrite : \A f \in Pending(r) :
                 row' = [row EXCEPT ![r] =
                            Recomputed(SetChild(@, f, [NewChild EXCEPT
                                                          !.status = "failed"]))]
                    => Rewriting' = [Rewriting EXCEPT ![JobOf[f]] = @ \ {f}]
           /\ \A j \in Job : row' = WithoutTasksOf(j) =>
                 Rewriting' = [Rewriting EXCEPT ![j] = {}]
<1>1. RowsInv /\ row \in [Rewrite -> Row]
  BY DEF RwInv, RowsInv, RowTypes
<1>2. ASSUME NEW r \in Rewrite, NEW f \in Pending(r), NEW m \in ModelRevision,
             rw = r, RwFragment = f, row' = [row EXCEPT ![r] = Completed(m)]
      PROVE  Rewriting' = [Rewriting EXCEPT ![JobOf[f]] = @ \ {f}]
  <2> DEFINE c == [status |-> "completed", model |-> m]
             w == Completed(m)
  <2>1. w.child = [row[r].child EXCEPT ![f] = c]
    BY <1>1, <1>2, <1>2 DEF Completed, Recomputed, SetChild, Row
  <2>2. c.status \notin Unfinished
    BY DEF Unfinished
  <2>3. row' = [row EXCEPT ![r] = w]
    BY <1>2
  <2> HIDE DEF c, w
  <2> QED
    BY <1>1, <2>1, <2>2, <2>3, SettleAgrees
<1>3. ASSUME NEW r \in Rewrite, NEW f \in Pending(r),
             row' = [row EXCEPT ![r] =
                        Recomputed(SetChild(@, f, [NewChild EXCEPT
                                                      !.status = "failed"]))]
      PROVE  Rewriting' = [Rewriting EXCEPT ![JobOf[f]] = @ \ {f}]
  <2> DEFINE c == [NewChild EXCEPT !.status = "failed"]
             w == Recomputed(SetChild(row[r], f, c))
  <2>1. w.child = [row[r].child EXCEPT ![f] = c]
    BY <1>1 DEF Recomputed, SetChild, Row
  <2>2. c.status \notin Unfinished
    BY DEF Unfinished, NewChild
  <2>3. row' = [row EXCEPT ![r] = w]
    BY <1>1, <1>3
  <2> HIDE DEF c, w
  <2> QED
    BY <1>1, <2>1, <2>2, <2>3, SettleAgrees
<1> QED
  BY <1>1, <1>2, <1>3, InsertAgrees, DeleteAgrees

-----------------------------------------------------------------------------
(* Every step is one of GenerationRunner or a stutter.                     *)

\* A step of the rewrite runner that makes no transaction on fragments.
LEMMA QuietStep ==
    ASSUME UNCHANGED tableVars, UNCHANGED generationVars,
           \A r \in Rewrite : PendingIn(row'[r]) = PendingIn(row[r])
    PROVE  UNCHANGED Gen!vars
<1>1. PICK old, next : old = row /\ next = row'
  OBVIOUS
<1>2. Rewriting' = Rewriting
  BY <1>1, ViewSame, ViewIsRewriting
<1> QED
  BY <1>2 DEF tableVars, generationVars, Gen!vars, Gen!storeVars, Gen!runnerVars

LEMMA SameRows ==
    ASSUME UNCHANGED row, UNCHANGED tableVars, UNCHANGED generationVars
    PROVE  UNCHANGED Gen!vars
BY QuietStep

LEMMA SaveImplements ==
    ASSUME NEW t \in Text, NEW m, MayAnswer(t), Save(t, m),
           RwFragment \in Fragment, UNCHANGED generationVars
    PROVE  Gen!Next
<1>1. Gen!CompleteRewriteFragment(RwFragment, rwItem, t)
  BY DEF Save
<1>2. text[RwFragment] = rwItem
  BY <1>1 DEF Gen!CompleteRewriteFragment
<1>3. Gen!Rewriter
  BY <1>1, <1>2 DEF Gen!Rewriter, MayAnswer, Gen!MayRevise, generationVars,
                    Gen!runnerVars
<1> QED
  BY <1>3 DEF Gen!Next

LEMMA RunnerImplements ==
    ASSUME RowsInv, RwProcessTypes, RwRunner
    PROVE  [Gen!Next]_(Gen!vars)
<1>1. UNCHANGED generationVars
  BY DEF RwRunner, TakeTask, LoopExit, BeginTask, DropTask, Abandon,
         ClaimFragment, ClaimFails, Answer, NoAnswer, FailFragment,
         FailFragmentFails, EndTask, EndTaskFails, Stay
<1>2. /\ row \in [Rewrite -> Row]
      /\ \A r \in Rewrite : row[r].child \in [DOMAIN row[r].child -> ChildRow]
  BY ChildrenType DEF RowsInv, RowTypes, Row
<1>3. CASE UNCHANGED <<tableVars, row>>
  BY <1>1, <1>3, SameRows
<1>4. ASSUME StartTask, UNCHANGED tableVars PROVE UNCHANGED Gen!vars
  <2>1. \A r \in Rewrite : row'[r].child = row[r].child
    BY <1>2, <1>4 DEF StartTask, Row
  <2> QED
    BY <1>1, <1>4, <2>1, QuietStep DEF PendingIn
<1>5. ASSUME rwPc = "claim", Claimable, UNCHANGED tableVars,
             row' = [row EXCEPT ![rw].child[RwFragment].status = "running"]
      PROVE  UNCHANGED Gen!vars
  <2>1. row[rw].child[RwFragment].status = "queued" /\ rw \in Rewrite
    BY <1>5, BusyTask DEF Claimable, Child
  <2>2. \A r \in Rewrite : r # rw => row'[r] = row[r]
    BY <1>2, <1>5
  <2>3. row'[rw].child = [row[rw].child EXCEPT ![RwFragment].status = "running"]
    BY <1>2, <1>5, <2>1 DEF Row
  <2>4. PendingIn(row'[rw]) = PendingIn(row[rw])
    BY <1>2, <2>1, <2>3 DEF PendingIn, Unfinished, ChildRow
  <2> QED
    BY <1>1, <1>5, <2>2, <2>4, QuietStep
<1>6. ASSUME rwPc = "work", NEW t \in Text, NEW m, MayAnswer(t), Save(t, m)
      PROVE  Gen!Next
  BY <1>1, <1>6, BusyTask, SaveImplements
<1>7. ASSUME FailFragment PROVE [Gen!Next]_(Gen!vars)
  <2>1. CASE RwFragment \in Pending(rw)
    <3>1. Gen!FailRewriteFragment(RwFragment) /\ RwFragment \in Fragment
      BY <1>7, <2>1, BusyTask DEF FailFragment
    <3>2. Gen!Rewriter
      BY <1>1, <3>1 DEF Gen!Rewriter, generationVars, Gen!runnerVars
    <3> QED
      BY <3>2 DEF Gen!Next
  <2>2. CASE RwFragment \notin Pending(rw)
    BY <1>3, <1>7, <2>2 DEF FailFragment
  <2> QED
    BY <2>1, <2>2
<1>8. ASSUME EndTask PROVE UNCHANGED Gen!vars
  <2>1. \A r \in Rewrite : row'[r].child = row[r].child
    BY <1>2, <1>8, RecomputedType DEF EndTask
  <2> QED
    BY <1>1, <1>8, <2>1, QuietStep DEF PendingIn, EndTask
<1>9. CASE TakeTask \/ LoopExit \/ Abandon \/ FailFragmentFails \/ EndTaskFails
  BY <1>3, <1>9
  DEF TakeTask, LoopExit, Abandon, FailFragmentFails, EndTaskFails
<1>10. CASE BeginTask \/ DropTask
  BY <1>3, <1>4, <1>10 DEF BeginTask, DropTask
<1>11. CASE ClaimFragment \/ ClaimFails
  BY <1>3, <1>5, <1>11 DEF ClaimFragment, ClaimFails
<1>12. CASE NoAnswer \/ \E t \in Text, m \in ModelRevision : Answer(t, m)
  BY <1>3, <1>6, <1>12 DEF NoAnswer, Answer
<1> QED
  BY <1>7, <1>8, <1>9, <1>10, <1>11, <1>12 DEF RwRunner

\* Taking a refused task back is generation's deletion of its job's task,
\* since the job has no other.
LEMMA UndoImplements ==
    ASSUME RowsInv, NEW r \in Rewrite, UndoTask(r)
    PROVE  [Gen!Next]_(Gen!vars)
<1>1. /\ row \in [Rewrite -> Row] /\ row' = [row EXCEPT ![r] = NoRow]
      /\ UNCHANGED tableVars /\ UNCHANGED generationVars
  BY DEF RowsInv, RowTypes, UndoTask
<1>2. /\ PendingIn(row'[r]) = {}
      /\ \A s \in Rewrite : s # r => row'[s] = row[s]
  BY <1>1, NoRowType DEF PendingIn
<1>3. CASE PendingIn(row[r]) = {}
  BY <1>1, <1>2, <1>3, QuietStep
<1>4. CASE PendingIn(row[r]) # {}
  <2>1. PICK f : f \in PendingIn(row[r])
    BY <1>4
  <2>2. PICK j \in Job : j = JobOf[f]
    BY <2>1, PendingJob
  <2>3. \A g \in PendingIn(row[r]) : JobOf[g] = j
    BY <2>1, <2>2 DEF RowsInv, OneJobPerTask, ChildrenOf, PendingIn
  <2>4. \A s \in Rewrite : s # r =>
           \A g \in PendingIn(row[s]) : JobOf[g] # j
    BY <2>1, <2>2, PendingApart
  <2>5. PICK old, next : old = row /\ next = row'
    OBVIOUS
  <2>6. \A g : Seen(next, g) <=> JobOf[g] # j /\ Seen(old, g)
    BY <1>2, <2>3, <2>4, <2>5 DEF Seen
  <2>7. Shows(old, next, j, {})
    BY <2>6 DEF Shows
  <2>8. Rewriting' = [Rewriting EXCEPT ![j] = {}]
    BY <2>5, <2>7, ViewChange, ViewIsRewriting
  <2>9. Gen!DeleteRewriteTask(j)
    BY <1>1, <2>8 DEF Gen!DeleteRewriteTask, tableVars
  <2>10. f \in Rewriting[j]
    BY <2>1, <2>2, InView, ViewIsRewriting DEF Seen
  <2>11. Gen!Rewriter
    BY <1>1, <2>9, <2>10 DEF Gen!Rewriter, generationVars, Gen!runnerVars
  <2> QED
    BY <2>11 DEF Gen!Next
<1> QED
  BY <1>3, <1>4

LEMMA StepImplements ==
    ASSUME RwInv, [Next]_vars
    PROVE  [Gen!Next]_(Gen!vars)
<1> USE DEF RwInv
<1>1. CASE Generation
  BY <1>1 DEF Generation, Gen!Next
<1>2. ASSUME NEW r \in Rewrite, CreateTask(r) PROVE Gen!Next
  <2>1. \E j \in Job : \E S \in SUBSET Gen!FragmentsOf(j) :
           Gen!CreateRewriteTask(j, S)
    BY <1>2 DEF CreateTask
  <2>2. Gen!Rewriter
    BY <1>2, <2>1 DEF Gen!Rewriter, CreateTask, generationVars, Gen!runnerVars
  <2> QED
    BY <2>2 DEF Gen!Next
<1>3. ASSUME NEW r \in Rewrite, EnqueueTask(r) \/ UndoTaskFails(r)
      PROVE  UNCHANGED Gen!vars
  BY <1>3, SameRows DEF EnqueueTask, UndoTaskFails
<1>4. CASE CloseRewriter
  BY <1>4, SameRows DEF CloseRewriter
<1>5. CASE Restart
  BY <1>5 DEF Restart, Gen!Next
<1>6. CASE UNCHANGED vars
  BY <1>6, SameRows DEF vars
<1> QED
  BY <1>1, <1>2, <1>3, <1>4, <1>5, <1>6, UndoImplements, RunnerImplements DEF Next

\* With the rewrite tasks hidden, the handlers and both runners together are
\* GenerationRunner.
THEOREM TasksImplementGeneration == Spec => ImplementsGeneration
<1>1. Init => Gen!Init
  BY DEF Init
<1>2. RwInv /\ [Next]_vars => [Gen!Next]_(Gen!vars)
  BY StepImplements
<1> QED
  BY <1>1, <1>2, RwInvariant, PTL DEF Spec, ImplementsGeneration, Gen!Spec

-----------------------------------------------------------------------------
(* Jobs nobody has worked on.  Undoing a generate call deletes its job and *)
(* with it any rewrite tasks; the job has none, since its fragments wait   *)
(* to be generated and no other request or task is about it.               *)

Working == pc \notin {"idle", "exited"}
Asks(h) == request[h] # Gen!Idle
AsksNew(h) == Asks(h) /\ request[h].kind = "generate"
JobAsked(h) == request[h].task.job

\* A request under way is one that was made, or one that was refused.
Proper(q) ==
    \E k, t, v : q \in {Gen!Enqueueing(k, t, v),
                        Gen!Refused(Gen!Enqueueing(k, t, v))}
OneJobTask(t) ==
    /\ t \in Gen!Task
    /\ \A k \in DOMAIN t.fragments : JobOf[t.fragments[k]] = t.job

IndexFits ==
    /\ index \in Nat
    /\ pc \in {"claim", "work", "warned"} => index \in 1 .. Len(task.fragments)
GenTypes ==
    /\ request = [h \in Handler |-> request[h]]
    /\ \A h \in Handler : Asks(h) => Proper(request[h]) /\ OneJobTask(request[h].task)
    /\ queue \in Seq({t \in Gen!Task : OneJobTask(t)})
    /\ Working => OneJobTask(task)
    /\ IndexFits

\* Every task the process knows of is about a job that exists.
TasksHaveJobs ==
    /\ \A h \in Handler : Asks(h) => jobStatus[JobAsked(h)] # "absent"
    /\ \A k \in DOMAIN queue : jobStatus[queue[k].job] # "absent"
    /\ Working => jobStatus[task.job] # "absent"

Alone(h) ==
    /\ \A f \in Gen!FragmentsOf(JobAsked(h)) : status[f] = "pending"
    /\ \A g \in Handler \ {h} : Asks(g) => JobAsked(g) # JobAsked(h)
    /\ \A k \in DOMAIN queue : queue[k].job # JobAsked(h)
    /\ Working => task.job # JobAsked(h)
NewJobsAlone == \A h \in Handler : AsksNew(h) => Alone(h)

JobsApart == Columns /\ GenTypes /\ TasksHaveJobs /\ NewJobsAlone

LEMMA RequestShape ==
    ASSUME NEW k, NEW t, NEW v, NEW q,
           q \in {Gen!Enqueueing(k, t, v), Gen!Refused(Gen!Enqueueing(k, t, v))}
    PROVE  /\ q # Gen!Idle /\ q.task = t /\ q.kind = k
           /\ Gen!Refused(q) = Gen!Refused(Gen!Enqueueing(k, t, v))
BY DEF Gen!Enqueueing, Gen!Refused, Gen!Idle

LEMMA RefusedShape ==
    ASSUME NEW q, Proper(q)
    PROVE  /\ Proper(Gen!Refused(q)) /\ Gen!Refused(q) # Gen!Idle
           /\ Gen!Refused(q).task = q.task /\ Gen!Refused(q).kind = q.kind
<1>1. PICK k, t, v : q \in {Gen!Enqueueing(k, t, v),
                            Gen!Refused(Gen!Enqueueing(k, t, v))}
  BY DEF Proper
<1>2. Gen!Refused(q) = Gen!Refused(Gen!Enqueueing(k, t, v))
  BY <1>1, RequestShape
<1> QED
  BY <1>1, <1>2, RequestShape DEF Proper

\* No place of the process gets a task it did not have.
NothingNew ==
    /\ request' = [h \in Handler |-> request'[h]]
    /\ \A h \in Handler :
          \/ request'[h] = request[h]
          \/ request'[h] = Gen!Idle
          \/ Asks(h) /\ request'[h] = Gen!Refused(request[h])
    /\ queue' \in {queue, <<>>}
    /\ Working' => Working /\ task' = task

\* Nobody has a task of the jobs in D, and no new job has fragments in F.
NobodyHas(D) ==
    /\ \A h \in Handler : Asks(h) => JobAsked(h) \notin D
    /\ \A k \in DOMAIN queue : queue[k].job \notin D
    /\ Working => task.job \notin D
NoneNewIn(F) ==
    \A h \in Handler : AsksNew(h) => Gen!FragmentsOf(JobAsked(h)) \cap F = {}

LEMMA NothingNewTypes ==
    ASSUME GenTypes, NothingNew
    PROVE  /\ request' = [h \in Handler |-> request'[h]]
           /\ \A h \in Handler : Asks(h)' =>
                 /\ Asks(h) /\ Proper(request'[h])
                 /\ request'[h].task = request[h].task
                 /\ request'[h].kind = request[h].kind
           /\ queue' \in Seq({t \in Gen!Task : OneJobTask(t)})
           /\ Working' => OneJobTask(task')
<1>1. ASSUME NEW h \in Handler, Asks(h)'
      PROVE  /\ Asks(h) /\ Proper(request'[h])
             /\ request'[h].task = request[h].task
             /\ request'[h].kind = request[h].kind
  BY <1>1, RefusedShape DEF GenTypes, NothingNew, Asks
<1>2. queue' \in Seq({t \in Gen!Task : OneJobTask(t)})
  <2> DEFINE T == {t \in Gen!Task : OneJobTask(t)}
  <2>1. queue \in Seq(T) /\ <<>> \in Seq(T)
    BY DEF GenTypes
  <2> HIDE DEF T
  <2>2. queue' \in Seq(T)
    BY <2>1 DEF NothingNew
  <2> QED
    BY <2>2 DEF T
<1>3. Working' => OneJobTask(task')
  BY DEF GenTypes, NothingNew
<1>4. request' = [h \in Handler |-> request'[h]]
  BY DEF NothingNew
<1> QED
  BY <1>1, <1>2, <1>3, <1>4

LEMMA ApartKept ==
    ASSUME JobsApart, NothingNew, NEW D, NEW F, TablesKept(D, F),
           NobodyHas(D)', NoneNewIn(F)'
    PROVE  TasksHaveJobs' /\ NewJobsAlone'
<1> USE DEF JobsApart
<1>1. /\ \A h \in Handler : Asks(h)' => Asks(h) /\ JobAsked(h)' = JobAsked(h)
      /\ \A h \in Handler : AsksNew(h)' => AsksNew(h)
  BY NothingNewTypes DEF Asks, AsksNew, JobAsked
<1>2. \A h \in Handler : Asks(h) => JobAsked(h) \in Job
  BY DEF GenTypes, OneJobTask, Gen!Task, JobAsked
<1>3. \A k \in DOMAIN queue' : /\ k \in DOMAIN queue /\ queue'[k] = queue[k]
                               /\ queue[k].job \in Job
  BY DEF NothingNew, GenTypes, Gen!Task
<1>4. Working' => Working /\ task' = task /\ task.job \in Job
  BY DEF NothingNew, GenTypes, OneJobTask, Gen!Task
<1>5. TasksHaveJobs'
  BY <1>1, <1>2, <1>3, <1>4 DEF TasksHaveJobs, NobodyHas, TablesKept, JobsStay
<1>6. ASSUME NEW h \in Handler, AsksNew(h)' PROVE Alone(h)'
  <2>1. AsksNew(h) /\ Alone(h) /\ JobAsked(h)' = JobAsked(h)
    BY <1>1, <1>6 DEF NewJobsAlone, AsksNew
  <2>2. \A f \in Gen!FragmentsOf(JobAsked(h)) : status'[f] = "pending"
    <3>1. Gen!FragmentsOf(JobAsked(h)) \cap F = {}
      BY <1>6, <2>1 DEF NoneNewIn
    <3> QED
      BY <2>1, <3>1 DEF Alone, TablesKept, PendingStays, Gen!FragmentsOf
  <2> QED
    BY <1>1, <1>3, <1>4, <2>1, <2>2 DEF Alone
<1> QED
  BY <1>5, <1>6 DEF NewJobsAlone

\* A job goes only with the request that made it, and a new one is made only
\* where there was none.
Orderly ==
    /\ \A j \in Job : jobStatus[j] # "absent" /\ jobStatus'[j] = "absent" =>
          \E h \in Handler : AsksNew(h) /\ JobAsked(h) = j
    /\ \A h \in Handler : AsksNew(h)' =>
          \/ jobStatus[JobAsked(h)'] = "absent"
          \/ AsksNew(h) /\ JobAsked(h)' = JobAsked(h)
StaysApart == JobsApart' /\ Orderly

LEMMA StepApart ==
    ASSUME JobsApart, NothingNew, IndexFits', NEW D, NEW F, TablesKept(D, F),
           NobodyHas(D)', NoneNewIn(F)',
           \A j \in D : \E h \in Handler : AsksNew(h) /\ JobAsked(h) = j
    PROVE  StaysApart
<1>1. GenTypes'
  BY NothingNewTypes DEF JobsApart, GenTypes, Asks
<1>2. Columns'
  BY DEF TablesKept
<1>3. \A h \in Handler : AsksNew(h)' => AsksNew(h) /\ JobAsked(h)' = JobAsked(h)
  BY NothingNewTypes DEF JobsApart, AsksNew, Asks, JobAsked
<1>4. Orderly
  BY <1>3 DEF Orderly, TablesKept, JobsStay
<1> QED
  BY <1>1, <1>2, <1>4, ApartKept DEF JobsApart, StaysApart

\* A step that harms nobody.
LEMMA QuietApart ==
    ASSUME JobsApart, NothingNew, IndexFits', TablesKept({}, {})
    PROVE  StaysApart
<1>1. NobodyHas({})' /\ NoneNewIn({})'
  BY DEF NobodyHas, NoneNewIn
<1> QED
  BY <1>1, StepApart

LEMMA SameProcess ==
    ASSUME JobsApart, UNCHANGED generationVars
    PROVE  NothingNew /\ IndexFits'
BY DEF JobsApart, GenTypes, IndexFits, NothingNew, generationVars, Working

\* The runner's steps, but for taking a task.
LEMMA RunnerProcess ==
    ASSUME JobsApart, Gen!Runner, ~Gen!TakeTask
    PROVE  NothingNew /\ IndexFits'
<1>1. /\ UNCHANGED request /\ request = [h \in Handler |-> request[h]]
      /\ UNCHANGED queue
  BY DEF Gen!Runner, Gen!LoopExit, Gen!BeginTask, Gen!DropTask,
         Gen!ClaimFragment, Gen!SkipFragment, Gen!Abandon, Gen!Complete,
         Gen!Fail, Gen!LoseResult, Gen!AutoRetry, Gen!AutoRetryRejected,
         Gen!EndTask, Gen!EndTaskFails, Gen!Stay, JobsApart, GenTypes
<1>2. IndexFits /\ (Working => task.fragments \in Seq(Fragment))
  BY DEF JobsApart, GenTypes, OneJobTask, Gen!Task
<1>3. ASSUME Gen!ToIdle \/ (pc' = "exited" /\ UNCHANGED index)
      PROVE  ~Working' /\ IndexFits'
  BY <1>2, <1>3 DEF Gen!ToIdle, Working, IndexFits
<1>4. ASSUME Working, NEW i \in Nat \ {0}, Gen!ToFragment(task, i),
             UNCHANGED task
      PROVE  IndexFits'
  BY <1>2, <1>4 DEF Gen!ToFragment, IndexFits
<1>5. ASSUME Working, UNCHANGED <<task, index>>,
             pc \in {"claim", "work", "warned"}
      PROVE  IndexFits'
  BY <1>2, <1>5 DEF IndexFits
<1>6. CASE \/ Gen!LoopExit \/ Gen!DropTask \/ Gen!Abandon \/ Gen!EndTask
           \/ Gen!EndTaskFails
  <2>1. ~Working' /\ IndexFits'
    BY <1>3, <1>6 DEF Gen!LoopExit, Gen!DropTask, Gen!Abandon, Gen!EndTask,
                      Gen!EndTaskFails
  <2> QED
    BY <1>1, <2>1 DEF NothingNew
<1>7. CASE Gen!BeginTask
  <2>1. Working /\ Gen!ToFragment(task, 1) /\ UNCHANGED task
    BY <1>7 DEF Gen!BeginTask, Working
  <2> QED
    BY <1>1, <1>4, <2>1 DEF NothingNew
<1>8. CASE \/ Gen!SkipFragment \/ Gen!Fail \/ Gen!LoseResult
           \/ Gen!AutoRetryRejected
  <2>1. Working
    BY <1>8 DEF Gen!SkipFragment, Gen!Fail, Gen!LoseResult,
                Gen!AutoRetryRejected, Working
  <2>2. Gen!NextFragment
    BY <1>8 DEF Gen!SkipFragment, Gen!Fail, Gen!LoseResult,
                Gen!AutoRetryRejected
  <2>3. UNCHANGED task /\ Gen!ToFragment(task, index + 1)
    BY <2>2 DEF Gen!NextFragment
  <2>4. index + 1 \in Nat \ {0}
    BY <1>2 DEF IndexFits
  <2> QED
    BY <1>1, <1>4, <2>1, <2>3, <2>4 DEF NothingNew
<1>9. CASE Gen!ClaimFragment \/ Gen!AutoRetry
  <2>1. /\ Working /\ UNCHANGED <<task, index>>
        /\ pc \in {"claim", "work", "warned"}
    BY <1>9 DEF Gen!ClaimFragment, Gen!AutoRetry, Working
  <2> QED
    BY <1>1, <1>5, <2>1 DEF NothingNew
<1>10. ASSUME NEW c, Gen!Complete(c) PROVE NothingNew /\ IndexFits'
  <2>1. /\ Working /\ UNCHANGED task /\ index + 1 \in Nat \ {0}
        /\ pc \in {"claim", "work", "warned"}
        /\ UNCHANGED index \/ Gen!ToFragment(task, index + 1)
    BY <1>2, <1>10 DEF Gen!Complete, Gen!NextFragment, Working, IndexFits
  <2> QED
    BY <1>1, <1>4, <1>5, <2>1 DEF NothingNew
<1> QED
  BY <1>6, <1>7, <1>8, <1>9, <1>10 DEF Gen!Runner

\* The runner's current fragment is of its own job, which is not new.
LEMMA CurrentIsOld ==
    ASSUME JobsApart, pc \in {"claim", "work", "warned"}, UNCHANGED request,
           NEW f, f = Gen!CurrentFragment
    PROVE  NoneNewIn({f})'
<1>1. JobOf[f] = task.job /\ Working
  BY DEF JobsApart, GenTypes, IndexFits, OneJobTask, Gen!Task, Working,
         Gen!CurrentFragment
<1>2. ASSUME NEW h \in Handler, AsksNew(h)'
      PROVE  Gen!FragmentsOf(JobAsked(h)') \cap {f} = {}
  <2>1. JobAsked(h)' = JobAsked(h) /\ AsksNew(h)
    BY <1>2 DEF AsksNew, Asks, JobAsked
  <2>2. task.job # JobAsked(h)
    BY <1>1, <2>1 DEF JobsApart, NewJobsAlone, Alone
  <2> QED
    BY <1>1, <2>1, <2>2 DEF Gen!FragmentsOf
<1> QED
  BY <1>2 DEF NoneNewIn

\* A transaction the runner makes on its current fragment, or none.
LEMMA CurrentApart ==
    ASSUME JobsApart, NothingNew, IndexFits', UNCHANGED request,
           pc \in {"claim", "work", "warned"}, NEW f, f = Gen!CurrentFragment,
           TablesKept({}, {f}) \/ UNCHANGED Gen!storeVars
    PROVE  StaysApart
<1>1. Columns
  BY DEF JobsApart
<1>2. CASE UNCHANGED Gen!storeVars
  BY <1>1, <1>2, QuietApart, StoreUnchanged DEF Gen!storeVars, tableVars
<1>3. CASE TablesKept({}, {f})
  <2>1. NobodyHas({})' /\ NoneNewIn({f})'
    BY CurrentIsOld DEF NobodyHas
  <2> QED
    BY <1>3, <2>1, StepApart
<1> QED
  BY <1>2, <1>3

LEMMA RunnerApart ==
    ASSUME JobsApart, Gen!Runner, ~Gen!TakeTask
    PROVE  StaysApart
<1>1. NothingNew /\ IndexFits' /\ Columns
  BY RunnerProcess DEF JobsApart
<1>2. UNCHANGED Gen!storeVars => StaysApart
  BY <1>1, QuietApart, StoreUnchanged DEF Gen!storeVars, tableVars
<1>3. CASE Gen!LoopExit \/ Gen!Abandon \/ Gen!EndTaskFails
  BY <1>2, <1>3 DEF Gen!LoopExit, Gen!Abandon, Gen!EndTaskFails
<1>4. CASE Gen!BeginTask \/ Gen!DropTask \/ Gen!EndTask
  <2>1. \/ Gen!StartTask(task.job) \/ Gen!FinishTask(task.job)
        \/ UNCHANGED Gen!storeVars
    BY <1>4 DEF Gen!BeginTask, Gen!DropTask, Gen!EndTask
  <2> QED
    BY <1>1, <1>2, <2>1, JobTables, QuietApart
<1>5. PICK f : f = Gen!CurrentFragment
  OBVIOUS
<1>6. CASE Gen!ClaimFragment \/ Gen!SkipFragment
  <2>1. /\ pc = "claim" /\ UNCHANGED request
        /\ Gen!StartFragment(f) \/ UNCHANGED Gen!storeVars
    BY <1>5, <1>6 DEF Gen!ClaimFragment, Gen!SkipFragment, Gen!Stay
  <2> QED
    BY <1>1, <1>5, <2>1, FragmentTables, CurrentApart
<1>7. CASE Gen!Fail
  <2>1. pc = "work" /\ UNCHANGED request /\ Gen!FailFragment(f)
    BY <1>5, <1>7 DEF Gen!Fail, Gen!Stay
  <2> QED
    BY <1>1, <1>5, <2>1, FragmentTables, CurrentApart
<1>8. CASE Gen!LoseResult \/ \E c \in {""} \cup Gen!ValidationCode : Gen!Complete(c)
  <2>1. /\ pc = "work" /\ UNCHANGED request
        /\ \/ \E c : Gen!CompleteFragment(f, item, c)
           \/ UNCHANGED Gen!storeVars
    BY <1>5, <1>8 DEF Gen!LoseResult, Gen!Complete, Gen!Stay
  <2>2. TablesKept({}, {f}) \/ UNCHANGED Gen!storeVars
    BY <1>1, <2>1, FragmentTables
  <2> QED
    BY <1>1, <1>5, <2>1, <2>2, CurrentApart
<1>9. CASE Gen!AutoRetry \/ Gen!AutoRetryRejected
  <2>1. Gen!PrepareAutomaticWarningRetry(f) \/ UNCHANGED Gen!storeVars
    BY <1>5, <1>9 DEF Gen!AutoRetry, Gen!AutoRetryRejected
  <2> QED
    BY <1>1, <1>2, <2>1, FragmentTables, QuietApart
<1> QED
  BY <1>3, <1>4, <1>6, <1>7, <1>8, <1>9 DEF Gen!Runner

LEMMA TakeApart ==
    ASSUME JobsApart, Gen!TakeTask
    PROVE  StaysApart
<1> DEFINE T == {t \in Gen!Task : OneJobTask(t)}
<1> USE DEF JobsApart
<1>1. /\ queue \in Seq(T) /\ queue # <<>> /\ queue' = Tail(queue)
      /\ task' = queue[1] /\ pc' = "begin" /\ pc = "idle"
      /\ UNCHANGED <<request, index>> /\ UNCHANGED tableVars
  BY DEF Gen!TakeTask, Gen!storeVars, tableVars, GenTypes
<1>2. /\ queue' \in Seq(T) /\ queue[1] \in T /\ 1 \in DOMAIN queue
      /\ \A k \in DOMAIN queue' : /\ k + 1 \in DOMAIN queue
                                  /\ queue'[k] = queue[k + 1]
  BY <1>1
<1>3. GenTypes'
  BY <1>1, <1>2 DEF GenTypes, IndexFits, Working, Asks
<1>4. TasksHaveJobs'
  BY <1>1, <1>2 DEF TasksHaveJobs, Working, Asks, JobAsked, tableVars
<1>5. NewJobsAlone'
  BY <1>1, <1>2 DEF NewJobsAlone, Alone, Working, Asks, AsksNew, JobAsked,
                    tableVars
<1>6. Orderly
  BY <1>1 DEF Orderly, tableVars, AsksNew, Asks, JobAsked
<1> QED
  BY <1>1, <1>3, <1>4, <1>5, <1>6 DEF Columns, tableVars, StaysApart

LEMMA EnqueueApart ==
    ASSUME JobsApart, NEW h \in Handler, Gen!Enqueue(h)
    PROVE  StaysApart
<1> DEFINE T == {t \in Gen!Task : OneJobTask(t)}
<1> USE DEF JobsApart
<1>1. /\ Asks(h) /\ request = [g \in Handler |-> request[g]]
      /\ UNCHANGED tableVars /\ UNCHANGED <<pc, task, index>> /\ Columns
  BY DEF Gen!Enqueue, Gen!storeVars, Gen!runnerVars, tableVars, Asks, Gen!Idle,
         GenTypes
<1>2. CASE /\ request' = [request EXCEPT ![h] = Gen!Refused(@)]
           /\ UNCHANGED queue
  <2>1. NothingNew /\ IndexFits'
    BY <1>1, <1>2 DEF NothingNew, GenTypes, IndexFits, Working
  <2> QED
    BY <1>1, <2>1, QuietApart, StoreUnchanged
<1>3. CASE /\ request' = [request EXCEPT ![h] = Gen!Idle]
           /\ queue' = Append(queue, request[h].task)
  <2>1. /\ request[h].task \in T /\ queue \in Seq(T)
        /\ \A g \in Handler : g # h => request'[g] = request[g]
        /\ request'[h] = Gen!Idle
        /\ request' = [g \in Handler |-> request'[g]]
    BY <1>1, <1>3 DEF GenTypes, OneJobTask
  <2>2. /\ queue' \in Seq(T)
        /\ \A k \in DOMAIN queue' :
              \/ k \in DOMAIN queue /\ queue'[k] = queue[k]
              \/ queue'[k] = request[h].task
    BY <1>3, <2>1
  <2>3. GenTypes'
    BY <1>1, <2>1, <2>2 DEF GenTypes, IndexFits, Working, Asks
  <2>4. TasksHaveJobs'
    BY <1>1, <2>1, <2>2 DEF TasksHaveJobs, Working, Asks, JobAsked, tableVars
  <2>5. NewJobsAlone'
    BY <1>1, <2>1, <2>2 DEF NewJobsAlone, Alone, Working, Asks, AsksNew,
                            JobAsked, tableVars
  <2>6. Orderly
    BY <1>1, <2>1 DEF Orderly, tableVars, AsksNew, Asks, JobAsked
  <2> QED
    BY <1>1, <2>3, <2>4, <2>5, <2>6 DEF Columns, tableVars, StaysApart
<1> QED
  BY <1>2, <1>3 DEF Gen!Enqueue

\* A request that is over.
LEMMA RequestOver ==
    ASSUME JobsApart, NEW h \in Handler,
           request' = [request EXCEPT ![h] = Gen!Idle],
           UNCHANGED <<queue, pc, task, index>>
    PROVE  /\ NothingNew /\ IndexFits' /\ ~Asks(h)'
           /\ \A g \in Handler : g # h => request'[g] = request[g]
BY DEF JobsApart, GenTypes, IndexFits, NothingNew, Working, Asks

LEMMA CompensateApart ==
    ASSUME JobsApart, NEW h \in Handler, Gen!Compensate(h)
    PROVE  StaysApart
<1>1. /\ Asks(h) /\ Columns /\ UNCHANGED <<queue, pc, task, index>>
      /\ request' = [request EXCEPT ![h] = Gen!Idle]
  BY DEF Gen!Compensate, Gen!runnerVars, Asks, Gen!Idle, JobsApart
<1>2. /\ NothingNew /\ IndexFits' /\ ~Asks(h)'
      /\ \A g \in Handler : g # h => request'[g] = request[g]
  BY <1>1, RequestOver
<1>3. PICK j : j = JobAsked(h)
  OBVIOUS
<1>4. CASE AsksNew(h)
  <2>1. TablesKept({j}, {})
    BY <1>1, <1>3, <1>4, JobTables DEF Gen!Compensate, AsksNew, JobAsked
  <2>2. Alone(h)
    BY <1>4 DEF JobsApart, NewJobsAlone
  <2>3. NobodyHas({j})'
    BY <1>1, <1>2, <1>3, <2>2 DEF NobodyHas, Alone, Asks, JobAsked, Working
  <2>4. NoneNewIn({})'
    BY DEF NoneNewIn
  <2> QED
    BY <1>2, <1>3, <1>4, <2>1, <2>3, <2>4, StepApart
<1>5. CASE ~AsksNew(h)
  <2>1. PICK F : F = Gen!FragmentsOf(j)
    OBVIOUS
  <2>2. TablesKept({}, F)
    BY <1>1, <1>3, <1>5, <2>1, JobTables
    DEF Gen!Compensate, AsksNew, JobAsked
  <2>3. ASSUME NEW g \in Handler, AsksNew(g)'
        PROVE  Gen!FragmentsOf(JobAsked(g)') \cap F = {}
    <3>1. g # h /\ AsksNew(g) /\ JobAsked(g)' = JobAsked(g)
      BY <1>2, <2>3 DEF AsksNew, Asks, JobAsked
    <3>2. JobAsked(g) # j
      BY <1>1, <1>3, <3>1 DEF JobsApart, NewJobsAlone, Alone
    <3> QED
      BY <2>1, <3>1, <3>2 DEF Gen!FragmentsOf
  <2>4. NobodyHas({})' /\ NoneNewIn(F)'
    BY <2>3 DEF NobodyHas, NoneNewIn
  <2> QED
    BY <1>2, <2>2, <2>4, StepApart
<1> QED
  BY <1>4, <1>5

LEMMA CompensateFailsApart ==
    ASSUME JobsApart, NEW h \in Handler, Gen!CompensateFails(h)
    PROVE  StaysApart
<1>1. /\ Columns /\ UNCHANGED <<queue, pc, task, index>> /\ UNCHANGED tableVars
      /\ request' = [request EXCEPT ![h] = Gen!Idle]
  BY DEF Gen!CompensateFails, Gen!runnerVars, Gen!storeVars, tableVars, JobsApart
<1> QED
  BY <1>1, RequestOver, QuietApart, StoreUnchanged

\* A commit nobody heard of gives no handler or queue anything to hold.
LEMMA ScheduleFailsApart ==
    ASSUME JobsApart, NEW h \in Handler, Gen!ScheduleFails(h)
    PROVE  StaysApart
<1>1. /\ Columns
      /\ UNCHANGED generationVars
  BY DEF JobsApart, Gen!ScheduleFails, generationVars, Gen!runnerVars
<1>2. PICK j \in Job : Gen!CreateJob(j) \/ \E S : Gen!PrepareRetry(j, S)
  BY DEF Gen!ScheduleFails
<1>3. TablesKept({}, {})
  BY <1>1, <1>2, JobTables
<1> QED
  BY <1>1, <1>3, SameProcess, QuietApart

\* A request that begins with task t.
LEMMA RequestApart ==
    ASSUME JobsApart, NEW h \in Handler, ~Asks(h), NEW k, NEW t, NEW v,
           OneJobTask(t),
           request' = [request EXCEPT ![h] = Gen!Enqueueing(k, t, v)],
           UNCHANGED <<queue, pc, task, index>>,
           TablesKept({}, {}), jobStatus'[t.job] # "absent",
           \A g \in Handler : AsksNew(g) => JobAsked(g) # t.job,
           k = "generate" =>
              /\ NobodyHas({t.job}) /\ jobStatus[t.job] = "absent"
              /\ \A f \in Gen!FragmentsOf(t.job) : status'[f] = "pending"
    PROVE  StaysApart
<1> USE DEF JobsApart
<1> DEFINE q == Gen!Enqueueing(k, t, v)
<1>1. /\ q # Gen!Idle /\ q.task = t /\ q.kind = k /\ Proper(q)
  BY RequestShape DEF Proper
<1>2. /\ request' = [g \in Handler |-> request'[g]] /\ request'[h] = q
      /\ \A g \in Handler : g # h => request'[g] = request[g]
  BY DEF GenTypes
<1> HIDE DEF q
<1>3. GenTypes'
  BY <1>1, <1>2 DEF GenTypes, IndexFits, Working, Asks
<1>4. /\ \A g \in Handler : Asks(g) => JobAsked(g) \in Job
      /\ \A m \in DOMAIN queue : queue[m].job \in Job
      /\ Working => task.job \in Job
  BY DEF GenTypes, OneJobTask, Gen!Task, JobAsked
<1>5. TasksHaveJobs'
  BY <1>1, <1>2, <1>4 DEF TasksHaveJobs, TablesKept, JobsStay, Working, Asks,
                          JobAsked
<1>6. ASSUME NEW g \in Handler, AsksNew(g)', g # h PROVE Alone(g)'
  <2>1. AsksNew(g) /\ Alone(g)
    BY <1>2, <1>6 DEF AsksNew, Asks, NewJobsAlone
  <2>2. \A f \in Gen!FragmentsOf(JobAsked(g)) : status'[f] = "pending"
    BY <2>1 DEF Alone, TablesKept, PendingStays, Gen!FragmentsOf
  <2> QED
    BY <1>1, <1>2, <1>6, <2>1, <2>2 DEF Alone, Asks, JobAsked, Working
<1>7. ASSUME AsksNew(h)' PROVE Alone(h)'
  <2>1. k = "generate"
    BY <1>1, <1>2, <1>7 DEF AsksNew
  <2> QED
    BY <1>1, <1>2, <2>1 DEF Alone, NobodyHas, Asks, JobAsked, Working
<1>8. Orderly
  BY <1>1, <1>2 DEF Orderly, TablesKept, JobsStay, AsksNew, Asks, JobAsked
<1> QED
  BY <1>3, <1>5, <1>6, <1>7, <1>8 DEF NewJobsAlone, TablesKept, StaysApart

LEMMA GenerateApart ==
    ASSUME JobsApart, NEW h \in Handler, Gen!Generate(h)
    PROVE  StaysApart
<1>1. PICK j \in Job :
         /\ Gen!CreateJob(j)
         /\ request' = [request EXCEPT ![h] =
               Gen!Enqueueing("generate", [job |-> j, fragments |-> Catalog[j]],
                              <<>>)]
  BY DEF Gen!Generate
<1>2. PICK t : t = [job |-> j, fragments |-> Catalog[j]]
  OBVIOUS
<1>3. OneJobTask(t) /\ t.job = j
  BY <1>2, CatalogAssumption DEF OneJobTask, Gen!Task, Range
<1>4. Columns /\ TablesKept({}, {})
  BY <1>1, JobTables DEF JobsApart
<1>5. /\ jobStatus[j] = "absent" /\ jobStatus'[j] # "absent"
      /\ \A f \in Gen!FragmentsOf(j) : status'[f] = "pending"
  BY <1>1, <1>4 DEF Gen!CreateJob, Gen!FreshRows, Gen!Inserted, Gen!FragmentsOf,
                    Columns
<1>6. NobodyHas({j})
  BY <1>5 DEF JobsApart, TasksHaveJobs, NobodyHas
<1>7. ~Asks(h) /\ UNCHANGED <<queue, pc, task, index>>
  BY DEF Gen!Generate, Asks, Gen!runnerVars
<1>8. \A g \in Handler : AsksNew(g) => JobAsked(g) # j
  BY <1>6 DEF NobodyHas, AsksNew
<1>9. PICK v : v = <<>>
  OBVIOUS
<1>10. request' = [request EXCEPT ![h] = Gen!Enqueueing("generate", t, v)]
  BY <1>1, <1>2, <1>9
<1> QED
  BY <1>3, <1>4, <1>5, <1>6, <1>7, <1>8, <1>10, RequestApart

LEMMA RetryApart ==
    ASSUME JobsApart, NEW h \in Handler, Gen!Retry(h)
    PROVE  StaysApart
<1>0. PICK j \in Job :
         \E chosen \in Gen!Selections({f \in Gen!FragmentsOf(j) :
                                          attempt[f] < MaxAttempts}) :
            /\ Gen!PrepareRetry(j, Gen!Range(chosen))
            /\ request' = [request EXCEPT ![h] =
                  Gen!Enqueueing("retry", [job |-> j, fragments |-> chosen],
                                 [f \in Gen!Range(chosen) |-> status[f]])]
  BY DEF Gen!Retry
<1>1. PICK chosen \in Gen!Selections({f \in Gen!FragmentsOf(j) :
                                         attempt[f] < MaxAttempts}) :
         /\ Gen!PrepareRetry(j, Gen!Range(chosen))
         /\ request' = [request EXCEPT ![h] =
               Gen!Enqueueing("retry", [job |-> j, fragments |-> chosen],
                              [f \in Gen!Range(chosen) |-> status[f]])]
  BY <1>0
<1>2. PICK t, v : /\ t = [job |-> j, fragments |-> chosen]
                  /\ v = [f \in Gen!Range(chosen) |-> status[f]]
  OBVIOUS
<1>3. OneJobTask(t) /\ t.job = j
  <2> DEFINE S == {f \in Gen!FragmentsOf(j) : attempt[f] < MaxAttempts}
  <2>1. S \subseteq Fragment /\ IsFiniteSet(S) /\ \A f \in S : JobOf[f] = j
    BY JobsAssumption, FS_Subset DEF Gen!FragmentsOf
  <2>2. PICK n \in 1 .. Cardinality(S) : chosen \in [1 .. n -> S]
    BY <1>1 DEF Gen!Selections, Gen!Injection, Gen!Cardinality, Cardinality
  <2>3. n \in Nat
    BY <2>1, FS_CardinalityType
  <2> HIDE DEF S
  <2>4. chosen \in Seq(Fragment) /\ \A k \in DOMAIN chosen : JobOf[chosen[k]] = j
    BY <2>1, <2>2, <2>3
  <2> QED
    BY <1>2, <2>4 DEF OneJobTask, Gen!Task
<1>4. Columns /\ TablesKept({}, {})
  BY <1>1, JobTables DEF JobsApart
<1>5. /\ jobStatus'[j] # "absent"
      /\ \E f \in Gen!FragmentsOf(j) : status[f] # "pending"
  BY <1>1, <1>4 DEF Gen!PrepareRetry, Gen!RecomputeTo, Gen!Retryable, Columns
<1>6. \A g \in Handler : AsksNew(g) => JobAsked(g) # j
  BY <1>5 DEF JobsApart, NewJobsAlone, Alone
<1>7. ~Asks(h) /\ UNCHANGED <<queue, pc, task, index>>
  BY DEF Gen!Retry, Asks, Gen!runnerVars
<1>8. request' = [request EXCEPT ![h] = Gen!Enqueueing("retry", t, v)]
  BY <1>1, <1>2
<1> QED
  BY <1>3, <1>4, <1>5, <1>6, <1>7, <1>8, RequestApart

LEMMA GenerationApart ==
    ASSUME JobsApart, [Gen!Next]_(Gen!vars)
    PROVE  StaysApart
<1>1. Columns
  BY DEF JobsApart
<1>2. ASSUME UNCHANGED generationVars, TablesKept({}, {}) PROVE StaysApart
  BY <1>2, SameProcess, QuietApart
<1>3. CASE Gen!Client
  <2>1. UNCHANGED generationVars
    BY <1>3 DEF Gen!Client, generationVars, Gen!runnerVars
  <2> QED
    BY <1>1, <1>2, <1>3, <2>1, FragmentTables DEF Gen!Client
<1>4. CASE Gen!Rewriter
  <2>1. UNCHANGED generationVars
    BY <1>4 DEF Gen!Rewriter, generationVars, Gen!runnerVars
  <2>2. ASSUME NEW j, Gen!DeleteRewriteTask(j) PROVE UNCHANGED tableVars
    BY <2>2 DEF Gen!DeleteRewriteTask, tableVars
  <2> QED
    BY <1>1, <1>2, <1>4, <2>1, <2>2, JobTables, FragmentTables, StoreUnchanged
    DEF Gen!Rewriter
<1>5. CASE Gen!Close \/ Gen!Restart \/ UNCHANGED Gen!vars
  <2>1. UNCHANGED tableVars
    BY <1>5 DEF Gen!Close, Gen!Restart, Gen!vars, Gen!storeVars, tableVars
  <2>2. NothingNew /\ IndexFits'
    BY <1>5 DEF Gen!Close, Gen!Restart, Gen!ToIdle, Gen!vars, Gen!runnerVars,
                JobsApart, GenTypes, IndexFits, NothingNew, Working
  <2> QED
    BY <1>1, <2>1, <2>2, QuietApart, StoreUnchanged
<1> QED
  BY <1>3, <1>4, <1>5, RunnerApart, TakeApart, EnqueueApart, CompensateApart,
     CompensateFailsApart, ScheduleFailsApart, GenerateApart, RetryApart
  DEF Gen!Next

-----------------------------------------------------------------------------
(* Tasks that are not sent yet.                                            *)

\* A job with rewrite tasks exists, and is not one nobody has worked on.
RowsHaveJobs ==
    /\ \A j \in Job, r \in Rewrite : Of(j, r) => jobStatus[j] # "absent"
    /\ \A h \in Handler, r \in Rewrite : AsksNew(h) => ~Of(JobAsked(h), r)

\* What was sent to the runner is no longer in its handler's hands, ...
SentIsDone ==
    /\ \A k \in DOMAIN rwQueue : rwRequest[rwQueue[k].id].pc = "done"
    /\ rwPc \notin {"idle", "exited"} => rwRequest[rw].pc = "done"

\* ... and what is still there has its rows as they were inserted.
RowFresh(w) ==
    /\ w.status = "queued"
    /\ \A f \in DOMAIN w.child : w.child[f] = NewChild
UnsentIsFresh ==
    \A r \in Rewrite : rwRequest[r].pc \in {"enqueue", "compensate"} =>
        /\ RowFresh(row[r])
        /\ rwRequest[r].pc = "enqueue" => rwRequest[r].task.id = r

SendInv == JobsApart /\ RowsHaveJobs /\ SentIsDone /\ UnsentIsFresh

\* No rewrite task is lost to an undone generate call.
LEMMA NothingToDelete ==
    ASSUME RwInv, SendInv, Generation
    PROVE  UNCHANGED row
<1>1. CASE UNCHANGED row
  BY <1>1
<1>2. ASSUME NEW h \in Handler, UndoesGenerate(h),
             row' = WithoutTasksOf(request[h].task.job)
      PROVE  UNCHANGED row
  <2>1. AsksNew(h)
    BY <1>2 DEF UndoesGenerate, AsksNew, Asks, Gen!Idle
  <2>2. \A r \in Rewrite : ~Of(request[h].task.job, r)
    BY <2>1 DEF SendInv, RowsHaveJobs, JobAsked
  <2> QED
    BY <1>2, <2>2 DEF WithoutTasksOf, RwInv, RowsInv, RowTypes
<1> QED
  BY <1>1, <1>2 DEF Generation

LEMMA RowsHaveJobsKept ==
    ASSUME SendInv, Orderly, JobsApart',
           \A r \in Rewrite : ChildrenOf(r)' \in {ChildrenOf(r), {}}
    PROVE  RowsHaveJobs'
<1>1. \A j \in Job, r \in Rewrite : Of(j, r)' => Of(j, r)
  BY DEF Of, ChildrenOf, Gen!FragmentsOf
<1>2. ASSUME NEW j \in Job, NEW r \in Rewrite, Of(j, r)'
      PROVE  jobStatus'[j] # "absent"
  <2>1. jobStatus[j] # "absent" /\ \A h \in Handler : AsksNew(h) => JobAsked(h) # j
    BY <1>1, <1>2 DEF SendInv, RowsHaveJobs
  <2> QED
    BY <2>1 DEF Orderly
<1>3. ASSUME NEW h \in Handler, NEW r \in Rewrite, AsksNew(h)'
      PROVE  ~Of(JobAsked(h), r)'
  <2>1. PICK j \in Job : j = JobAsked(h)'
    BY <1>3 DEF JobsApart, GenTypes, OneJobTask, Gen!Task, AsksNew, JobAsked
  <2>2. ~Of(j, r)
    BY <1>3, <2>1 DEF Orderly, SendInv, RowsHaveJobs
  <2>3. ~Of(j, r)'
    BY <1>1, <2>2
  <2> QED
    BY <2>1, <2>3 DEF Of
<1> QED
  BY <1>2, <1>3 DEF RowsHaveJobs

\* The runner writes the rows of its task only.
WritesOwn ==
    \/ UNCHANGED row
    \/ /\ rwPc \notin {"idle", "exited"}
       /\ \E w : /\ row' = [row EXCEPT ![rw] = w]
                 /\ DOMAIN w.child = DOMAIN row[rw].child

LEMMA RunnerWritesOwn ==
    ASSUME RowsInv, RwProcessTypes, RwRunner
    PROVE  WritesOwn
<1>1. row \in [Rewrite -> Row]
  BY DEF RowsInv, RowTypes
<1>2. ASSUME rwPc \notin {"idle", "exited"}, NEW w,
             row' = [row EXCEPT ![rw] = w],
             DOMAIN w.child = DOMAIN row[rw].child
      PROVE  WritesOwn
  BY <1>2 DEF WritesOwn
<1>3. ASSUME rwPc = "begin", StartTask PROVE WritesOwn
  <2>1. rw \in Rewrite
    BY <1>3, BusyTask
  <2>2. row' = [row EXCEPT ![rw] = [row[rw] EXCEPT !.status = "running"]]
    BY <1>1, <1>3, <2>1 DEF StartTask
  <2> QED
    BY <1>1, <1>2, <1>3, <2>1, <2>2 DEF Row
<1>4. ASSUME rwPc = "claim",
             row' = [row EXCEPT ![rw].child[RwFragment].status = "running"]
      PROVE  WritesOwn
  <2>1. rw \in Rewrite
    BY <1>4, BusyTask
  <2> DEFINE w == [row[rw] EXCEPT !.child[RwFragment].status = "running"]
  <2>2. row' = [row EXCEPT ![rw] = w]
    BY <1>1, <1>4, <2>1
  <2>3. w.child = [row[rw].child EXCEPT ![RwFragment].status = "running"]
    BY <1>1, <2>1 DEF Row
  <2>4. DOMAIN w.child = DOMAIN row[rw].child
    BY <2>3
  <2> HIDE DEF w
  <2> QED
    BY <1>2, <1>4, <2>2, <2>4
<1>5. ASSUME rwPc = "work", NEW t, NEW m, Save(t, m) PROVE WritesOwn
  <2>1. rw \in Rewrite /\ row' = [row EXCEPT ![rw] = Completed(m)]
    BY <1>5, BusyTask DEF Save
  <2>2. DOMAIN Completed(m).child = DOMAIN row[rw].child
    BY <1>1, <2>1 DEF Completed, Recomputed, SetChild, Row
  <2> QED
    BY <1>2, <1>5, <2>1, <2>2
<1>6. ASSUME FailFragment, row' # row PROVE WritesOwn
  <2> DEFINE w == Recomputed(SetChild(row[rw], RwFragment,
                                      [NewChild EXCEPT !.status = "failed"]))
  <2>1. rw \in Rewrite /\ row' = [row EXCEPT ![rw] = w]
    BY <1>1, <1>6, BusyTask DEF FailFragment
  <2>2. DOMAIN w.child = DOMAIN row[rw].child
    BY <1>1, <2>1 DEF Recomputed, SetChild, Row
  <2> HIDE DEF w
  <2> QED
    BY <1>2, <1>6, <2>1, <2>2 DEF FailFragment
<1>7. CASE EndTask
  <2>1. rw \in Rewrite /\ row' = [row EXCEPT ![rw] = Recomputed(row[rw])]
    BY <1>1, <1>7, BusyTask DEF EndTask
  <2>2. DOMAIN Recomputed(row[rw]).child = DOMAIN row[rw].child
    BY <1>1, <2>1 DEF Recomputed, Row
  <2> QED
    BY <1>2, <1>7, <2>1, <2>2 DEF EndTask
<1>8. CASE \/ TakeTask \/ LoopExit \/ Abandon \/ FailFragmentFails
           \/ EndTaskFails \/ BeginTask \/ DropTask
  BY <1>3, <1>8
  DEF TakeTask, LoopExit, Abandon, FailFragmentFails, EndTaskFails, BeginTask,
      DropTask, WritesOwn
<1>9. CASE ClaimFragment \/ ClaimFails
  BY <1>4, <1>9 DEF ClaimFragment, ClaimFails, WritesOwn
<1>10. CASE NoAnswer \/ \E t \in Text, m \in ModelRevision : Answer(t, m)
  BY <1>5, <1>10 DEF NoAnswer, Answer, WritesOwn
<1> QED
  BY <1>6, <1>7, <1>8, <1>9, <1>10 DEF RwRunner, WritesOwn

LEMMA RunnerSends ==
    ASSUME RwInv, SendInv, RwRunner, Orderly, JobsApart'
    PROVE  SendInv'
<1> USE DEF RwInv, SendInv
<1>1. row \in [Rewrite -> Row] /\ UNCHANGED rwRequest
  BY DEF RowsInv, RowTypes, RwRunner, TakeTask, LoopExit, BeginTask, DropTask,
         Abandon, ClaimFragment, ClaimFails, Answer, NoAnswer, FailFragment,
         FailFragmentFails, EndTask, EndTaskFails, Stay
<1>2. WritesOwn
  BY RunnerWritesOwn
<1>3. /\ \A r \in Rewrite : ChildrenOf(r)' = ChildrenOf(r)
      /\ \A r \in Rewrite : rwRequest[r].pc # "done" => row'[r] = row[r]
  BY <1>1, <1>2 DEF WritesOwn, SentIsDone, ChildrenOf
<1>4. RowsHaveJobs'
  BY <1>3, RowsHaveJobsKept
<1>5. UnsentIsFresh'
  BY <1>1, <1>3 DEF UnsentIsFresh
<1>6. CASE TakeTask
  <2>1. /\ rwQueue \in Seq(RwTask) /\ rwQueue # <<>>
        /\ rwTask' = rwQueue[1] /\ rwQueue' = Tail(rwQueue)
    BY <1>6 DEF TakeTask, RwProcessTypes
  <2>2. /\ 1 \in DOMAIN rwQueue
        /\ \A k \in DOMAIN rwQueue' : /\ k + 1 \in DOMAIN rwQueue
                                      /\ rwQueue'[k] = rwQueue[k + 1]
    BY <2>1
  <2>3. SentIsDone'
    BY <1>1, <2>1, <2>2 DEF SentIsDone, rw
  <2> QED
    BY <1>4, <1>5, <2>3
<1>7. CASE ~TakeTask
  <2>1. /\ UNCHANGED rwQueue
        /\ \/ rwPc' \in {"idle", "exited"}
           \/ rwPc \notin {"idle", "exited"} /\ UNCHANGED rwTask
    BY <1>7 DEF RwRunner, LoopExit, BeginTask, DropTask, Abandon, ClaimFragment,
                ClaimFails, Answer, NoAnswer, FailFragment, FailFragmentFails,
                EndTask, EndTaskFails, Stay, ToIdle, ToFragment, NextFragment,
                ToFailing
  <2>2. SentIsDone'
    BY <1>1, <2>1 DEF SentIsDone, rw
  <2> QED
    BY <1>4, <1>5, <2>2
<1> QED
  BY <1>6, <1>7

LEMMA CreateSends ==
    ASSUME RwInv, SendInv, NEW r \in Rewrite, CreateTask(r), Orderly, JobsApart'
    PROVE  SendInv'
<1> USE DEF RwInv, SendInv
<1>1. PICK j \in Job : \E S \in SUBSET Gen!FragmentsOf(j) :
         InsertTask(r, S) /\ Gen!CreateRewriteTask(j, S)
  BY DEF CreateTask
<1>2. PICK S \in SUBSET Gen!FragmentsOf(j) :
         InsertTask(r, S) /\ Gen!CreateRewriteTask(j, S)
  BY <1>1
<1>3. /\ jobStatus[j] # "absent" /\ S # {}
      /\ \A f \in S : status[f] = "warning"
      /\ UNCHANGED jobStatus
  BY <1>2 DEF Gen!CreateRewriteTask
<1>4. /\ row \in [Rewrite -> Row] /\ rwRequest \in [Rewrite -> RwRequest]
      /\ UNCHANGED generationVars /\ UNCHANGED <<rwQueue, rwPc, rwTask>>
      /\ rwRequest[r].pc = "new"
  BY DEF RowsInv, RowTypes, RwProcessTypes, CreateTask, rwRunnerVars
<1>5. /\ DOMAIN row'[r].child = S /\ RowFresh(row'[r])
      /\ \A s \in Rewrite : s # r => row'[s] = row[s]
  BY <1>2, <1>4 DEF InsertTask, RowFresh
<1>6. /\ \A s \in Rewrite : s # r => rwRequest'[s] = rwRequest[s]
      /\ rwRequest'[r].pc = "enqueue" => rwRequest'[r].task.id = r
  BY <1>4 DEF CreateTask, RewriteTasksFor
<1>7. /\ \A k \in Job : Of(k, r)' => k = j
      /\ \A k, s : s \in Rewrite /\ s # r => (Of(k, s)' <=> Of(k, s))
  BY <1>2, <1>5 DEF Of, Gen!FragmentsOf
<1>8. \A h \in Handler : AsksNew(h)' => AsksNew(h) /\ JobAsked(h)' = JobAsked(h)
  BY <1>4 DEF generationVars, AsksNew, Asks, JobAsked
<1>9. \A h \in Handler : AsksNew(h) => JobAsked(h) \in Job /\ JobAsked(h) # j
  <2>1. \A h \in Handler : AsksNew(h) => JobAsked(h) \in Job
    BY DEF JobsApart, GenTypes, OneJobTask, Gen!Task, AsksNew, JobAsked
  <2>2. PICK f \in S : f \in Gen!FragmentsOf(j) /\ status[f] # "pending"
    BY <1>2, <1>3
  <2> QED
    BY <2>1, <2>2 DEF JobsApart, NewJobsAlone, Alone
<1>10. RowsHaveJobs'
  <2>1. ASSUME NEW k \in Job, NEW s \in Rewrite, Of(k, s)'
        PROVE  jobStatus'[k] # "absent"
    BY <1>3, <1>7, <2>1 DEF RowsHaveJobs
  <2>2. ASSUME NEW h \in Handler, NEW s \in Rewrite, AsksNew(h)'
        PROVE  ~Of(JobAsked(h), s)'
    <3>1. PICK k \in Job : k = JobAsked(h) /\ k = JobAsked(h)' /\ k # j
      BY <1>8, <1>9, <2>2
    <3>2. ~Of(k, s)
      BY <1>8, <2>2, <3>1 DEF RowsHaveJobs
    <3>3. ~Of(k, s)'
      BY <1>7, <3>1, <3>2
    <3> QED
      BY <3>1, <3>3 DEF Of
  <2> QED
    BY <2>1, <2>2 DEF RowsHaveJobs
<1>11. UnsentIsFresh'
  BY <1>5, <1>6 DEF UnsentIsFresh
<1>12. SentIsDone'
  <2>1. \A k \in DOMAIN rwQueue : rwQueue[k].id \in Rewrite
    <3>1. rwQueue \in Seq(RwTask)
      BY DEF RwProcessTypes
    <3>2. \A k \in DOMAIN rwQueue : rwQueue[k] \in RwTask
      BY <3>1
    <3> QED
      BY <3>2 DEF RwTask
  <2>2. rwPc \notin {"idle", "exited"} => rw \in Rewrite
    BY BusyTask
  <2> QED
    BY <1>4, <1>6, <2>1, <2>2 DEF SentIsDone, rw
<1> QED
  BY <1>10, <1>11, <1>12

LEMMA HandlerSends ==
    ASSUME RwInv, SendInv, NEW r \in Rewrite,
           EnqueueTask(r) \/ UndoTask(r) \/ UndoTaskFails(r), Orderly, JobsApart'
    PROVE  SendInv'
<1> USE DEF RwInv, SendInv
<1>1. /\ row \in [Rewrite -> Row] /\ rwRequest \in [Rewrite -> RwRequest]
      /\ rwQueue \in Seq(RwTask) /\ UNCHANGED <<rwPc, rwTask>>
      /\ rwRequest[r].pc \in {"enqueue", "compensate"}
  BY DEF RowsInv, RowTypes, RwProcessTypes, EnqueueTask, UndoTask, UndoTaskFails,
         rwRunnerVars
<1>2. /\ \A s \in Rewrite : s # r =>
              row'[s] = row[s] /\ rwRequest'[s] = rwRequest[s]
      /\ row'[r] \in {row[r], NoRow}
      /\ rwRequest'[r].pc \in {"compensate", "done"}
      /\ rwRequest'[r].pc = "compensate" => row'[r] = row[r]
  BY <1>1 DEF EnqueueTask, UndoTask, UndoTaskFails
<1>3. RowsHaveJobs'
  <2>1. ChildrenOf(r)' \in {ChildrenOf(r), {}}
    BY <1>2, NoRowType DEF ChildrenOf
  <2>2. \A s \in Rewrite : s # r => ChildrenOf(s)' = ChildrenOf(s)
    BY <1>2 DEF ChildrenOf
  <2> QED
    BY <2>1, <2>2, RowsHaveJobsKept
<1>4. UnsentIsFresh'
  BY <1>1, <1>2 DEF UnsentIsFresh
<1>5. \A k \in DOMAIN rwQueue' :
         \/ k \in DOMAIN rwQueue /\ rwQueue'[k] = rwQueue[k]
         \/ rwQueue'[k].id = r /\ rwRequest'[r].pc = "done"
  <2>1. CASE UNCHANGED rwQueue
    BY <2>1
  <2>2. CASE /\ EnqueueTask(r) /\ rwQueue' # rwQueue
    <3>1. /\ rwQueue' = Append(rwQueue, rwRequest[r].task)
          /\ rwRequest[r].task.id = r /\ rwRequest'[r].pc = "done"
      BY <1>1, <2>2 DEF EnqueueTask, UnsentIsFresh
    <3> QED
      BY <1>1, <3>1
  <2> QED
    BY <2>1, <2>2 DEF UndoTask, UndoTaskFails
<1>6. SentIsDone'
  <2>1. \A k \in DOMAIN rwQueue : rwQueue[k].id # r
    BY <1>1 DEF SentIsDone
  <2>2. \A k \in DOMAIN rwQueue : rwQueue[k] \in RwTask
    BY <1>1
  <2>3. \A k \in DOMAIN rwQueue' : rwRequest'[rwQueue'[k].id].pc = "done"
    BY <1>2, <1>5, <2>1, <2>2 DEF SentIsDone, RwTask
  <2>4. rwPc \notin {"idle", "exited"} => rw \in Rewrite /\ rw # r
    BY <1>1, BusyTask DEF SentIsDone
  <2> QED
    BY <1>1, <1>2, <2>3, <2>4 DEF SentIsDone, rw
<1> QED
  BY <1>3, <1>4, <1>6

LEMMA SendStep ==
    ASSUME RwInv, SendInv, [Next]_vars
    PROVE  SendInv'
<1>1. JobsApart' /\ Orderly
  BY StepImplements, GenerationApart DEF SendInv, StaysApart
<1>2. ASSUME UNCHANGED row, UNCHANGED rwProcessVars PROVE SendInv'
  <2>1. RowsHaveJobs'
    BY <1>1, <1>2, RowsHaveJobsKept DEF ChildrenOf
  <2>2. SentIsDone' /\ UnsentIsFresh'
    BY <1>2 DEF SendInv, SentIsDone, UnsentIsFresh, rwProcessVars, rwRunnerVars, rw
  <2> QED
    BY <1>1, <2>1, <2>2 DEF SendInv
<1>3. CASE Generation
  BY <1>2, <1>3, NothingToDelete DEF Generation
<1>4. CASE UNCHANGED vars
  BY <1>2, <1>4 DEF vars, rwProcessVars
<1>5. CASE CloseRewriter
  <2>1. RowsHaveJobs'
    BY <1>1, <1>5, RowsHaveJobsKept DEF ChildrenOf, CloseRewriter
  <2>2. SentIsDone' /\ UnsentIsFresh'
    BY <1>5
    DEF SendInv, SentIsDone, UnsentIsFresh, CloseRewriter, rwRunnerVars, rw
  <2> QED
    BY <1>1, <2>1, <2>2 DEF SendInv
<1>6. CASE Restart
  <2>1. RowsHaveJobs'
    BY <1>1, <1>6, RowsHaveJobsKept DEF ChildrenOf, Restart
  <2>2. SentIsDone'
    BY <1>6 DEF SentIsDone, Restart, ToIdle
  <2>3. UnsentIsFresh'
    BY <1>6 DEF UnsentIsFresh, Restart
  <2> QED
    BY <1>1, <2>1, <2>2, <2>3 DEF SendInv
<1> QED
  BY <1>1, <1>3, <1>4, <1>5, <1>6, RunnerSends, CreateSends, HandlerSends DEF Next

LEMMA SendInvariant == Spec => []SendInv
<1>1. Init => SendInv
  <2> SUFFICES ASSUME Init PROVE SendInv
    OBVIOUS
  <2>1. JobsApart
    <3>1. /\ Columns /\ queue = <<>> /\ pc = "idle" /\ index = 0
          /\ request = [h \in Handler |-> Gen!Idle]
      BY DEF Init, Gen!Init, Gen!StoreInit, Columns
    <3>2. GenTypes
      <4> DEFINE T == {t \in Gen!Task : OneJobTask(t)}
      <4>1. queue \in Seq(T)
        BY <3>1
      <4> QED
        BY <3>1, <4>1 DEF GenTypes, IndexFits, Asks, Working
    <3>3. TasksHaveJobs /\ NewJobsAlone
      BY <3>1 DEF TasksHaveJobs, NewJobsAlone, AsksNew, Asks, Working
    <3> QED
      BY <3>1, <3>2, <3>3 DEF JobsApart
  <2>2. RowsHaveJobs
    BY NoRowType DEF Init, Gen!Init, RowsHaveJobs, Of, AsksNew, Asks
  <2>3. SentIsDone /\ UnsentIsFresh
    BY DEF Init, SentIsDone, UnsentIsFresh
  <2> QED
    BY <2>1, <2>2, <2>3 DEF SendInv
<1> QED
  BY <1>1, SendStep, RwInvariant, PTL DEF Spec

\* A task a handler takes back was never begun and is in nobody's hands,
\* whatever the generation side did to its job meanwhile.
THEOREM UndoneTaskAlwaysUntouched == Spec => []UndoneTaskIsUntouched
<1>1. RwInv /\ SendInv => UndoneTaskIsUntouched
  BY DEF RwInv, RwProcessTypes, SendInv, SentIsDone, UnsentIsFresh, RowFresh,
         UndoneTaskIsUntouched
<1> QED
  BY <1>1, RwInvariant, SendInvariant, PTL

-----------------------------------------------------------------------------
(* Late answers.                                                           *)

LEMMA ColumnsInvariant == Spec => []Columns
<1>1. SendInv => Columns
  BY DEF SendInv, JobsApart
<1> QED
  BY <1>1, SendInvariant, PTL

Settles(r, f) ==
    /\ f \in Pending(r) /\ f \in DOMAIN row'[r].child
    /\ row'[r].child[f].status = "completed"

\* A step that writes no "completed" settles nothing.
LEMMA OnlySaveSettles ==
    ASSUME RwInv, [Next]_vars, NEW r \in Rewrite, NEW f, Settles(r, f)
    PROVE  /\ rwPc = "work" /\ r = rw /\ f = RwFragment
           /\ \E t, m : Save(t, m)
<1>1. /\ RwProcessTypes /\ row \in [Rewrite -> Row]
      /\ \A s \in Rewrite : SoundRow(row[s])
  BY SoundRows DEF RwInv, RowsSound
<1>2. /\ row[r].child \in [DOMAIN row[r].child -> ChildRow]
      /\ f \in DOMAIN row[r].child
      /\ row[r].child[f].status \in Unfinished
  BY <1>1, ChildrenType DEF SoundRow, Row, Settles, Pending
<1>3. /\ row'[r].child[f].status = "completed" /\ row'[r] # row[r]
      /\ row'[r].child[f] # row[r].child[f]
      /\ f \in DOMAIN row'[r].child
  BY <1>2 DEF Settles, Unfinished
<1>4. row'[r] # NoRow
  BY <1>3, NoRowType
<1>5. ~Generation
  BY <1>3, <1>4 DEF Generation, WithoutTasksOf
<1>6. ASSUME NEW s \in Rewrite, CreateTask(s) PROVE FALSE
  <2>1. PICK S : InsertTask(s, S)
    BY <1>6 DEF CreateTask
  <2>2. s = r /\ row'[r].child = [g \in S |-> NewChild]
    BY <1>1, <1>3, <2>1 DEF InsertTask
  <2> QED
    BY <1>3, <2>2 DEF NewChild
<1>7. ASSUME NEW s \in Rewrite,
             EnqueueTask(s) \/ UndoTask(s) \/ UndoTaskFails(s)
      PROVE  FALSE
  BY <1>1, <1>3, <1>4, <1>7 DEF EnqueueTask, UndoTask, UndoTaskFails
<1>8. ~CloseRewriter /\ ~Restart /\ ~(UNCHANGED vars)
  BY <1>3 DEF CloseRewriter, Restart, vars
<1>9. RwRunner
  BY <1>5, <1>6, <1>7, <1>8 DEF Next
<1>10. ~StartTask
  BY <1>1, <1>3 DEF StartTask, Row
<1>11. row' # [row EXCEPT ![rw].child[RwFragment].status = "running"]
  <2> SUFFICES ASSUME row' = [row EXCEPT ![rw].child[RwFragment].status = "running"]
               PROVE  FALSE
    OBVIOUS
  <2>1. rw = r
    BY <1>1, <1>3
  <2>2. row'[r].child = [row[r].child EXCEPT ![RwFragment].status = "running"]
    BY <1>1, <2>1 DEF Row
  <2>3. f = RwFragment
    BY <1>2, <1>3, <2>2
  <2>4. row'[r].child[f].status = "running"
    BY <1>2, <2>2, <2>3 DEF ChildRow
  <2> QED
    BY <1>3, <2>4
<1>12. ~EndTask
  BY <1>1, <1>3, RecomputedType DEF EndTask
<1>13. ~FailFragment
  <2> SUFFICES ASSUME FailFragment PROVE FALSE
    OBVIOUS
  <2>1. row' = [row EXCEPT ![rw] =
                  Recomputed(SetChild(@, RwFragment,
                               [NewChild EXCEPT !.status = "failed"]))]
    BY <1>3 DEF FailFragment
  <2>2. rw = r
    BY <1>1, <1>3, <2>1
  <2>3. row'[r].child = [row[r].child EXCEPT ![RwFragment] =
                            [NewChild EXCEPT !.status = "failed"]]
    BY <1>1, <2>1, <2>2 DEF Recomputed, SetChild, Row
  <2>4. [NewChild EXCEPT !.status = "failed"].status = "failed"
    BY DEF NewChild
  <2> QED
    BY <1>2, <1>3, <2>3, <2>4
<1>14. rwPc = "work" /\ \E t, m : Save(t, m)
  BY <1>3, <1>9, <1>10, <1>11, <1>12, <1>13
  DEF RwRunner, TakeTask, LoopExit, BeginTask, DropTask, Abandon,
      ClaimFragment, ClaimFails, Answer, NoAnswer, FailFragmentFails,
      EndTaskFails
<1>15. PICK m : row' = [row EXCEPT ![rw] = Completed(m)]
  BY <1>14 DEF Save
<1>16. rw = r
  BY <1>1, <1>3, <1>15
<1>17. f = RwFragment
  <2>1. row'[r].child = [row[r].child EXCEPT ![RwFragment] =
                            [status |-> "completed", model |-> m]]
    BY <1>1, <1>15, <1>16 DEF Completed, Recomputed, SetChild, Row
  <2> QED
    BY <1>2, <1>3, <2>1
<1> QED
  BY <1>14, <1>16, <1>17

\* The model's answer replaces a text only in a fragment that is still a
\* warning with the text the model was given, and drops its audio.
THEOREM LateAnswersAlwaysHarmless == Spec => LateAnswersChangeNothing
<1> DEFINE Harmless ==
              \A f \in Fragment : \A r \in Rewrite :
                 Settles(r, f) =>
                    /\ status[f] = "warning" /\ text[f] = rwItem
                    /\ text'[f] # text[f] => audio'[f] = NoAudio
<1>1. RwInv /\ Columns /\ [Next]_vars => Harmless
  <2> SUFFICES ASSUME RwInv, Columns, [Next]_vars, NEW f \in Fragment,
                      NEW r \in Rewrite, Settles(r, f)
               PROVE  /\ status[f] = "warning" /\ text[f] = rwItem
                      /\ text'[f] # text[f] => audio'[f] = NoAudio
    OBVIOUS
  <2>1. f = RwFragment /\ \E t, m : Save(t, m)
    BY OnlySaveSettles
  <2>2. PICK t : Gen!CompleteRewriteFragment(f, rwItem, t)
    BY <2>1 DEF Save
  <2> QED
    BY <2>2 DEF Gen!CompleteRewriteFragment, Gen!SetText, Columns
<1>2. RwInv /\ Columns /\ [Next]_vars =>
         [\A f \in Fragment : \A r \in Rewrite :
             /\ f \in Pending(r)
             /\ f \in DOMAIN row'[r].child
             /\ row'[r].child[f].status = "completed"
             => /\ status[f] = "warning" /\ text[f] = rwItem
                /\ text'[f] # text[f] => audio'[f] = NoAudio]_vars
  BY <1>1 DEF Settles
<1> QED
  BY <1>2, RwInvariant, ColumnsInvariant, PTL DEF Spec, LateAnswersChangeNothing
=============================================================================
