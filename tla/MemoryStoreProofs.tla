-------------------------- MODULE MemoryStoreProofs --------------------------
(***************************************************************************)
(* The maps of memoryStore agree with each other, and each of its methods  *)
(* does what the transaction of FragmentStore does, for any number of      *)
(* jobs, fragments, books and rewrite tasks and any bounds.                *)
(*                                                                         *)
(* A method changes few records.  OneRecord, ChangeRecord and TaskStep say *)
(* what that does to the invariant and to the tables the maps stand for;   *)
(* the lemma of each method then names the records and what becomes of     *)
(* them.                                                                   *)
(***************************************************************************)
EXTENDS MemoryStore, FiniteSetTheorems, TLAPS

-----------------------------------------------------------------------------
(* The invariant.                                                          *)

JobStatus == ActiveStatus \cup {"completed", "completed_with_warnings", "failed"}
FragmentStatus == {"pending", "generating", "ready", "warning", "failed"}
Code == RetryCode \cup {"", "text_edited", "text_restored", "text_rewritten"}
HistoryRow == [attempt : Nat, status : FragmentStatus, code : Code]
JobRecord == [status : JobStatus, pending : Nat, ready : Nat, warnings : Nat,
              failed : Nat, fragmentIDs : Seq(Fragment)]
FragmentRecord == [job : Job, status : FragmentStatus, text : Text, code : Code,
                   audio : Text \cup {NoAudio}, attempt : Nat,
                   history : Seq(HistoryRow), revisions : Seq(Text),
                   reviews : Seq(Nat)]
ChildStatus == {"queued", "running", "completed", "failed"}
RewriteRecord == [job : Job, status : JobStatus \cup {"completed_with_errors"},
                  child : UNION {[S -> ChildStatus] : S \in SUBSET Fragment}]

\* The keys of map m are some of K, its values in V.
IsMap(m, K, V) == DOMAIN m \subseteq K /\ m \in [DOMAIN m -> V]

MapTypes ==
    /\ latest \in [Book -> Job \cup {NoJob}]
    /\ IsMap(jobs, Job, JobRecord)
    /\ IsMap(fragments, Fragment, FragmentRecord)

\* A job lists the fragments of its catalogue, and they are there as long as
\* it is; a book points to a job of its own that is there, or to none.
RecordsLinked ==
    /\ \A j \in DOMAIN jobs : jobs[j].fragmentIDs = Catalog[j]
    /\ \A f \in Fragment : f \in DOMAIN fragments <=> JobOf[f] \in DOMAIN jobs
    /\ \A f \in DOMAIN fragments : fragments[f].job = JobOf[f]
    /\ \A b \in Book : latest[b] # NoJob =>
          latest[b] \in DOMAIN jobs /\ BookOf[latest[b]] = b

\* The history has no attempt that is still to come or under way.
HistoryFits(r) ==
    \A k \in DOMAIN r.history :
        /\ r.history[k].attempt <= r.attempt
        /\ r.status = "generating" => r.history[k].attempt # r.attempt
RecordFits(r) ==
    /\ HistoryFits(r)
    /\ r.status = "ready" => r.audio # NoAudio
RecordsFit == \A f \in DOMAIN fragments : RecordFits(fragments[f])

\* A job with a final status has the one its fragments give it.
FinalIsHonest ==
    \A j \in DOMAIN jobs : jobs[j].status \notin ActiveStatus =>
        jobs[j].status = Store!StatusFor(j, StatusColumn)

\* A rewrite task has children of its job only; while one of them is
\* unfinished the task is active, and no other task of the job has any.
RewritesFit ==
    /\ IsMap(rewrites, Rewrite, RewriteRecord)
    /\ \A r \in DOMAIN rewrites :
          /\ DOMAIN rewrites[r].child \subseteq Store!FragmentsOf(rewrites[r].job)
          /\ Unfinished(r) # {} => rewrites[r].status \in ActiveStatus
    /\ \A r, s \in DOMAIN rewrites :
          r # s /\ rewrites[r].job = rewrites[s].job =>
              Unfinished(r) = {} \/ Unfinished(s) = {}

RecordsInv == MapTypes /\ RecordsLinked /\ RecordsFit /\ FinalIsHonest
MapsInv == RecordsInv /\ RewritesFit

-----------------------------------------------------------------------------
(* Counting a job's fragments.                                             *)

\* A job lists each of its fragments once, so to count places in the list is
\* to count fragments.
LEMMA CountByPlace ==
    ASSUME NEW j \in Job, NEW T
    PROVE  LET Places == {k \in DOMAIN Catalog[j] : Catalog[j][k] \in T}
               There == {f \in Store!FragmentsOf(j) : f \in T}
           IN  /\ Cardinality(Places) = Cardinality(There)
               /\ Cardinality(Places) \in Nat
<1> DEFINE c == Catalog[j]
           Places == {k \in DOMAIN c : c[k] \in T}
           There == {f \in Store!FragmentsOf(j) : f \in T}
           g == [k \in Places |-> c[k]]
<1>1. /\ c \in Seq(Fragment) /\ IsInjective(c)
      /\ Range(c) = Store!FragmentsOf(j)
  BY CatalogAssumption DEF Store!FragmentsOf
<1>2. DOMAIN c = 1 .. Len(c) /\ Len(c) \in Nat
  BY <1>1
<1>3. IsFiniteSet(DOMAIN c)
  BY <1>2, FS_Interval
<1>4. IsFiniteSet(Places) /\ Places \subseteq DOMAIN c
  BY <1>3, FS_Subset
<1>5. g \in [Places -> There]
  BY <1>1 DEF Range
<1>6. \A a, b \in Places : g[a] = g[b] => a = b
  BY <1>1 DEF IsInjective
<1>7. \A f \in There : \E k \in Places : g[k] = f
  BY <1>1 DEF Range
<1>8. g \in Bijection(Places, There)
  BY <1>5, <1>6, <1>7 DEF Bijection, Injection, Surjection, IsInjective
<1>9. Cardinality(There) = Cardinality(Places) /\ Cardinality(Places) \in Nat
  BY <1>4, <1>8, FS_Bijection, FS_CardinalityType DEF ExistsBijection
<1> QED
  BY <1>9

\* The places of a job's list whose fragments have a status of S, and those
\* fragments.
Places(j, frs, S) ==
    {k \in DOMAIN jobs[j].fragmentIDs : frs[jobs[j].fragmentIDs[k]].status \in S}
InJob(j, st, S) == {f \in Store!FragmentsOf(j) : st[f] \in S}

\* The counters of a recomputed job are those of the tables.
LEMMA RecomputeCounts ==
    ASSUME MapTypes, RecordsLinked, NEW j \in DOMAIN jobs,
           NEW frs, DOMAIN frs = DOMAIN fragments, NEW st,
           \A f \in DOMAIN frs : st[f] = frs[f].status, NEW S
    PROVE  /\ Cardinality(Places(j, frs, S)) = Cardinality(InJob(j, st, S))
           /\ Cardinality(Places(j, frs, S)) \in Nat
           /\ Places(j, frs, S) # {} <=>
                 \E f \in Store!FragmentsOf(j) : st[f] \in S
<1> DEFINE T == {f \in Fragment : st[f] \in S}
           P == Places(j, frs, S)
           I == InJob(j, st, S)
<1>1. /\ j \in Job /\ jobs[j].fragmentIDs = Catalog[j]
      /\ Catalog[j] \in Seq(Fragment)
      /\ Range(Catalog[j]) = Store!FragmentsOf(j)
  BY CatalogAssumption DEF MapTypes, IsMap, RecordsLinked, Store!FragmentsOf
<1>2. ASSUME NEW f \in Store!FragmentsOf(j)
      PROVE  f \in DOMAIN frs /\ f \in Fragment
             /\ st[f] = frs[f].status
  BY <1>2 DEF RecordsLinked, Store!FragmentsOf
<1>3. \A k \in DOMAIN Catalog[j] : Catalog[j][k] \in Store!FragmentsOf(j)
  BY <1>1 DEF Range
<1>4. P = {k \in DOMAIN Catalog[j] : Catalog[j][k] \in T}
  BY <1>1, <1>2, <1>3 DEF Places
<1>5. I = {f \in Store!FragmentsOf(j) : f \in T}
  BY <1>2 DEF InJob
<1>6. P # {} <=> I # {}
  <2>1. \A f \in Store!FragmentsOf(j) : \E k \in DOMAIN Catalog[j] : Catalog[j][k] = f
    BY <1>1 DEF Range
  <2> QED
    BY <1>3, <1>4, <1>5, <2>1
<1>7. Cardinality(P) = Cardinality(I) /\ Cardinality(P) \in Nat
  <2> DEFINE InList == {k \in DOMAIN Catalog[j] : Catalog[j][k] \in T}
             Listed == {f \in Store!FragmentsOf(j) : f \in T}
  <2>1. Cardinality(InList) = Cardinality(Listed) /\ Cardinality(InList) \in Nat
    <3> HIDE DEF T
    <3> QED
      BY <1>1, CountByPlace
  <2>2. P = InList /\ I = Listed
    BY <1>4, <1>5
  <2> HIDE DEF P, I, InList, Listed
  <2> QED
    BY <2>1, <2>2
<1> QED
  BY <1>6, <1>7 DEF InJob

\* recomputeJob of the record is recomputePostgresJob of the row.
LEMMA RecomputeAgrees ==
    ASSUME MapTypes, RecordsLinked, NEW j \in DOMAIN jobs,
           NEW frs, DOMAIN frs = DOMAIN fragments, NEW st,
           \A f \in DOMAIN frs : st[f] = frs[f].status
    PROVE  LET r == RecomputeJob(jobs[j], frs)
           IN  /\ r \in JobRecord /\ r.fragmentIDs = Catalog[j]
               /\ r.status = Store!StatusFor(j, st)
               /\ [pending |-> r.pending, ready |-> r.ready,
                   warnings |-> r.warnings, failed |-> r.failed]
                     = Store!CountsOf(j, st)
<1> DEFINE With(S) == Places(j, frs, S)
           Some(S) == \E f \in Store!FragmentsOf(j) : st[f] \in S
           Count(S) == Cardinality(InJob(j, st, S))
           Final == CASE With({"pending", "generating"}) # {} -> "running"
                      [] /\ With({"pending", "generating"}) = {}
                         /\ With({"failed"}) # {} -> "failed"
                      [] /\ With({"pending", "generating"}) \cup With({"failed"}) = {}
                         /\ With({"warning"}) # {} -> "completed_with_warnings"
                      [] OTHER -> "completed"
<1>1. \A S : /\ Cardinality(With(S)) = Count(S) /\ Cardinality(With(S)) \in Nat
             /\ With(S) # {} <=> Some(S)
  <2> TAKE S
  <2> QED
    BY RecomputeCounts
<1>2. jobs[j] \in JobRecord /\ jobs[j].fragmentIDs = Catalog[j]
  BY DEF MapTypes, IsMap, RecordsLinked
<1>3. Some({"pending", "generating", "failed"})
         <=> Some({"pending", "generating"}) \/ Some({"failed"})
  OBVIOUS
<1>4. Final = Store!StatusFor(j, st)
  <2> HIDE DEF With
  <2>1. /\ With({"pending", "generating"}) # {} <=> Some({"pending", "generating"})
        /\ With({"failed"}) # {} <=> Some({"failed"})
        /\ With({"warning"}) # {} <=> Some({"warning"})
    BY <1>1
  <2>2. /\ Store!Unsettled = {"pending", "generating"}
        /\ Store!Unsettled \cup {"failed"} = {"pending", "generating", "failed"}
    BY DEF Store!Unsettled
  <2>3. Store!StatusFor(j, st) =
           CASE Some({"pending", "generating"}) -> "running"
             [] ~Some({"pending", "generating"}) /\ Some({"failed"}) -> "failed"
             [] ~Some({"pending", "generating", "failed"}) /\ Some({"warning"})
                   -> "completed_with_warnings"
             [] OTHER -> "completed"
    BY <2>2 DEF Store!StatusFor
  <2> HIDE DEF Some
  <2> QED
    BY <2>1, <2>3, <1>3
<1>5. Final \in JobStatus
  BY DEF JobStatus, ActiveStatus
<1>6. RecomputeJob(jobs[j], frs) =
        [jobs[j] EXCEPT !.pending = Cardinality(With({"pending", "generating"})),
                        !.ready = Cardinality(With({"ready"})),
                        !.warnings = Cardinality(With({"warning"})),
                        !.failed = Cardinality(With({"failed"})),
                        !.status = Final]
  BY DEF RecomputeJob, Places
<1>7. Store!CountsOf(j, st) =
        [pending |-> Count({"pending", "generating"}), ready |-> Count({"ready"}),
         warnings |-> Count({"warning"}), failed |-> Count({"failed"})]
  BY DEF InJob, Store!CountsOf, Store!Unsettled, Store!Cardinality, Cardinality
<1>8. /\ Cardinality(With({"pending", "generating"})) = Count({"pending", "generating"})
       /\ Cardinality(With({"ready"})) = Count({"ready"})
       /\ Cardinality(With({"warning"})) = Count({"warning"})
       /\ Cardinality(With({"failed"})) = Count({"failed"})
  BY <1>1
<1>9. /\ Count({"pending", "generating"}) \in Nat /\ Count({"ready"}) \in Nat
      /\ Count({"warning"}) \in Nat /\ Count({"failed"}) \in Nat
  BY <1>1
<1> HIDE DEF With, Count, Final
<1>10. RecomputeJob(jobs[j], frs) =
        [jobs[j] EXCEPT !.pending = Count({"pending", "generating"}),
                        !.ready = Count({"ready"}),
                        !.warnings = Count({"warning"}),
                        !.failed = Count({"failed"}), !.status = Final]
  BY <1>6, <1>8
<1> QED
  BY <1>2, <1>4, <1>5, <1>7, <1>10, <1>9 DEF JobRecord

-----------------------------------------------------------------------------
(* The tables after a method.                                              *)

LEMMA StatusHere ==
    ASSUME MapTypes
    PROVE  \A f \in DOMAIN fragments :
              f \in Fragment /\ StatusColumn[f] = fragments[f].status
BY DEF MapTypes, IsMap, StatusColumn, Row

\* A job's status depends on its own fragments only.
LEMMA StatusForSame ==
    ASSUME NEW j, NEW st, NEW su,
           \A f \in Store!FragmentsOf(j) : st[f] = su[f]
    PROVE  Store!StatusFor(j, st) = Store!StatusFor(j, su)
BY DEF Store!StatusFor

\* recomputeJob leaves the job the status the tables would have.
LEMMA StatusAfter ==
    ASSUME MapTypes, RecordsLinked, NEW j \in DOMAIN jobs,
           IsMap(fragments', Fragment, FragmentRecord),
           DOMAIN fragments' = DOMAIN fragments
    PROVE  JobsAfter(j, fragments') =
             [JobsAfter(j, fragments') EXCEPT
                ![j].status = Store!StatusFor(j, StatusColumn')]
<1>1. \A f \in DOMAIN fragments' : StatusColumn'[f] = fragments'[f].status
  BY DEF IsMap, StatusColumn, Row
<1>2. RecomputeJob(jobs[j], fragments').status = Store!StatusFor(j, StatusColumn')
  BY <1>1, RecomputeAgrees
<1>3. RecomputeJob(jobs[j], fragments') \in JobRecord
  BY <1>1, RecomputeAgrees
<1> QED
  BY <1>2, <1>3 DEF JobsAfter, JobRecord

\* recomputeJob, with a status forced on the job afterwards or not, changes the
\* job's row as recomputePostgresJob does.
LEMMA Recomputed ==
    ASSUME MapTypes, RecordsLinked, NEW j \in DOMAIN jobs,
           NEW final \in JobStatus,
           IsMap(fragments', Fragment, FragmentRecord),
           DOMAIN fragments' = DOMAIN fragments,
           jobs' = [JobsAfter(j, fragments') EXCEPT ![j].status = final]
    PROVE  /\ IsMap(jobs', Job, JobRecord)
           /\ DOMAIN jobs' = DOMAIN jobs /\ jobs'[j].status = final
           /\ jobs'[j].fragmentIDs = Catalog[j]
           /\ \A i \in DOMAIN jobs \ {j} : jobs'[i] = jobs[i]
           /\ Store!RecomputeTo(j, StatusColumn', final)
<1> DEFINE r == RecomputeJob(jobs[j], fragments')
<1>1. \A f \in DOMAIN fragments' : StatusColumn'[f] = fragments'[f].status
  BY DEF IsMap, StatusColumn, Row
<1>2. /\ r \in JobRecord /\ r.fragmentIDs = Catalog[j]
      /\ [pending |-> r.pending, ready |-> r.ready,
          warnings |-> r.warnings, failed |-> r.failed]
            = Store!CountsOf(j, StatusColumn')
  BY <1>1, RecomputeAgrees
<1>3. DOMAIN jobs \subseteq Job /\ jobs \in [DOMAIN jobs -> JobRecord]
  BY DEF MapTypes, IsMap
<1>4. jobs' = [jobs EXCEPT ![j] = [r EXCEPT !.status = final]]
  BY <1>3 DEF JobsAfter
<1> HIDE DEF r
<1>5. [r EXCEPT !.status = final] \in JobRecord
  BY <1>2 DEF JobRecord
<1>6. IsMap(jobs', Job, JobRecord) /\ DOMAIN jobs' = DOMAIN jobs
  BY <1>3, <1>4, <1>5 DEF IsMap
<1>7. /\ jobs'[j].status = final /\ jobs'[j].fragmentIDs = Catalog[j]
      /\ [pending |-> jobs'[j].pending, ready |-> jobs'[j].ready,
          warnings |-> jobs'[j].warnings, failed |-> jobs'[j].failed]
            = Store!CountsOf(j, StatusColumn')
  BY <1>2, <1>3, <1>4 DEF JobRecord
<1>8. \A i \in DOMAIN jobs \ {j} : jobs'[i] = jobs[i]
  BY <1>4
<1>9. JobStatusColumn' = [JobStatusColumn EXCEPT ![j] = final]
  BY <1>6, <1>7, <1>8 DEF JobStatusColumn
<1>10. CountColumns' = [CountColumns EXCEPT ![j] = Store!CountsOf(j, StatusColumn')]
  BY <1>6, <1>7, <1>8 DEF CountColumns
<1> QED
  BY <1>6, <1>7, <1>8, <1>9, <1>10 DEF Store!RecomputeTo

\* What recomputes a job at its end keeps the records in order, if the
\* fragments it leaves are.
LEMMA Transaction ==
    ASSUME RecordsInv, NEW j \in DOMAIN jobs, NEW final \in JobStatus,
           final \in ActiveStatus \/ final = Store!StatusFor(j, StatusColumn'),
           jobs' = [JobsAfter(j, fragments') EXCEPT ![j].status = final],
           latest' = latest,
           IsMap(fragments', Fragment, FragmentRecord),
           DOMAIN fragments' = DOMAIN fragments,
           \A f \in DOMAIN fragments : /\ fragments'[f].job = JobOf[f]
                                       /\ RecordFits(fragments'[f]),
           \A f \in DOMAIN fragments : JobOf[f] # j => fragments'[f] = fragments[f]
    PROVE  /\ RecordsInv'
           /\ DOMAIN jobs' = DOMAIN jobs
           /\ Store!RecomputeTo(j, StatusColumn', final)
<1>1. /\ IsMap(jobs', Job, JobRecord)
      /\ DOMAIN jobs' = DOMAIN jobs /\ jobs'[j].status = final
      /\ jobs'[j].fragmentIDs = Catalog[j]
      /\ \A i \in DOMAIN jobs \ {j} : jobs'[i] = jobs[i]
      /\ Store!RecomputeTo(j, StatusColumn', final)
  BY Recomputed DEF RecordsInv
<1>2. MapTypes'
  BY <1>1 DEF RecordsInv, MapTypes
<1>3. RecordsLinked'
  BY <1>1 DEF RecordsInv, RecordsLinked
<1>4. RecordsFit'
  BY DEF RecordsFit, RecordFits, HistoryFits
<1>5. FinalIsHonest'
  <2> SUFFICES ASSUME NEW i \in DOMAIN jobs, i # j, jobs[i].status \notin ActiveStatus
               PROVE  jobs[i].status = Store!StatusFor(i, StatusColumn')
    BY <1>1 DEF FinalIsHonest
  <2>1. ASSUME NEW f \in Store!FragmentsOf(i)
        PROVE  StatusColumn'[f] = StatusColumn[f]
    <3>1. f \in Fragment /\ JobOf[f] = i
      BY <2>1 DEF Store!FragmentsOf
    <3>2. f \in DOMAIN fragments => fragments'[f] = fragments[f]
      BY <3>1
    <3> QED
      BY <3>1, <3>2 DEF StatusColumn, Row
  <2>2. Store!StatusFor(i, StatusColumn') = Store!StatusFor(i, StatusColumn)
    BY <2>1, StatusForSame
  <2> QED
    BY <2>2 DEF RecordsInv, FinalIsHonest
<1> QED
  BY <1>1, <1>2, <1>3, <1>4, <1>5 DEF RecordsInv

-----------------------------------------------------------------------------
(* Methods that change one fragment.                                       *)

RowsSame ==
    UNCHANGED <<StatusColumn, TextColumn, RevisionRows, AudioColumn,
                CodeColumn, AttemptColumn, AttemptRows, ReviewRows>>

\* Tables whose records stay do not change.
LEMMA SameRecords ==
    ASSUME fragments' = fragments
    PROVE  RowsSame
BY DEF RowsSame, StatusColumn, TextColumn, RevisionRows, AudioColumn,
       CodeColumn, AttemptColumn, AttemptRows, ReviewRows, Row

LEMMA SameRewrites ==
    ASSUME rewrites' = rewrites, DOMAIN jobs' = DOMAIN jobs
    PROVE  /\ RewritingRows' = RewritingRows
           /\ RewritesFit => RewritesFit'
BY DEF RewritingRows, RewritesFit, Unfinished, IsMap

\* A method that changes one record of a fragment.
LEMMA OneRecord ==
    ASSUME RecordsInv, NEW f \in DOMAIN fragments, NEW r \in FragmentRecord,
           r.job = JobOf[f], RecordFits(r),
           fragments' = [fragments EXCEPT ![f] = r]
    PROVE  /\ f \in Fragment /\ JobOf[f] \in DOMAIN jobs /\ fragments[f].job = JobOf[f]
           /\ IsMap(fragments', Fragment, FragmentRecord)
           /\ DOMAIN fragments' = DOMAIN fragments
           /\ \A g \in DOMAIN fragments : /\ fragments'[g].job = JobOf[g]
                                          /\ RecordFits(fragments'[g])
           /\ \A g \in DOMAIN fragments :
                 JobOf[g] # JobOf[f] => fragments'[g] = fragments[g]
<1>1. DOMAIN fragments \subseteq Fragment /\ fragments \in [DOMAIN fragments -> FragmentRecord]
  BY DEF RecordsInv, MapTypes, IsMap
<1>2. \A g \in DOMAIN fragments :
         fragments'[g] = IF g = f THEN r ELSE fragments[g]
  BY <1>1
<1>3. \A g \in DOMAIN fragments : fragments[g].job = JobOf[g] /\ RecordFits(fragments[g])
  BY DEF RecordsInv, RecordsLinked, RecordsFit
<1>4. IsMap(fragments', Fragment, FragmentRecord) /\ DOMAIN fragments' = DOMAIN fragments
  BY <1>1 DEF IsMap
<1>5. f \in Fragment /\ JobOf[f] \in DOMAIN jobs
  BY <1>1 DEF RecordsInv, RecordsLinked
<1> QED
  BY <1>2, <1>3, <1>4, <1>5

\* The columns when record r takes the place of fragment f's.
RowBecomes(f, r) ==
    /\ StatusColumn' = [StatusColumn EXCEPT ![f] = r.status]
    /\ TextColumn' = [TextColumn EXCEPT ![f] = r.text]
    /\ RevisionRows' = [RevisionRows EXCEPT ![f] = r.revisions]
    /\ AudioColumn' = [AudioColumn EXCEPT ![f] = r.audio]
    /\ CodeColumn' = [CodeColumn EXCEPT ![f] = r.code]
    /\ AttemptColumn' = [AttemptColumn EXCEPT ![f] = r.attempt]
    /\ AttemptRows' = [AttemptRows EXCEPT ![f] =
                          {OutcomeOf(h) : h \in Range(r.history)}]
    /\ ReviewRows' = [ReviewRows EXCEPT ![f] = Range(r.reviews)]

\* In the tables it changes that fragment's row.
LEMMA OneRow ==
    ASSUME MapTypes, NEW f \in DOMAIN fragments, NEW r,
           fragments' = [fragments EXCEPT ![f] = r]
    PROVE  RowBecomes(f, r)
<1>1. f \in Fragment
  BY DEF MapTypes, IsMap
<1>2. \A g \in Fragment : g \in DOMAIN fragments' <=> g \in DOMAIN fragments
  OBVIOUS
<1>3. fragments'[f] = r /\ \A g \in DOMAIN fragments \ {f} : fragments'[g] = fragments[g]
  OBVIOUS
<1>4. AttemptRows' = [AttemptRows EXCEPT ![f] = {OutcomeOf(h) : h \in Range(r.history)}]
  BY <1>1, <1>2, <1>3 DEF AttemptRows, Row
<1>5. ReviewRows' = [ReviewRows EXCEPT ![f] = Range(r.reviews)]
  BY <1>1, <1>2, <1>3 DEF ReviewRows, Row
<1> QED
  BY <1>1, <1>2, <1>3, <1>4, <1>5
  DEF RowBecomes, StatusColumn, TextColumn, RevisionRows, AudioColumn, CodeColumn,
      AttemptColumn, Row

\* The row of a fragment that is there.
RowIs(f, r) ==
    /\ StatusColumn[f] = r.status
    /\ TextColumn[f] = r.text
    /\ RevisionRows[f] = r.revisions
    /\ AudioColumn[f] = r.audio
    /\ CodeColumn[f] = r.code
    /\ AttemptColumn[f] = r.attempt
    /\ AttemptRows[f] = {OutcomeOf(h) : h \in Range(r.history)}
    /\ ReviewRows[f] = Range(r.reviews)

\* The row of a fragment that is there shows its record.
LEMMA RowHere ==
    ASSUME RecordsInv, NEW f \in DOMAIN fragments
    PROVE  /\ f \in Fragment /\ fragments[f] \in FragmentRecord
           /\ RecordFits(fragments[f])
           /\ JobOf[f] \in Job /\ JobOf[f] \in DOMAIN jobs
           /\ fragments[f].job = JobOf[f]
           /\ Store!Exists(f)
           /\ JobStatusColumn[JobOf[f]] = jobs[JobOf[f]].status
           /\ RowIs(f, fragments[f])
<1>1. /\ f \in Fragment /\ fragments[f] \in FragmentRecord
      /\ JobOf[f] \in DOMAIN jobs /\ fragments[f].job = JobOf[f]
      /\ RecordFits(fragments[f])
  BY DEF RecordsInv, MapTypes, IsMap, RecordsLinked, RecordsFit
<1>2. JobOf[f] \in Job /\ jobs[JobOf[f]] \in JobRecord
  BY <1>1, JobsAssumption DEF RecordsInv, MapTypes, IsMap
<1>3. jobs[JobOf[f]].status # "absent"
  BY <1>2 DEF JobRecord, JobStatus, ActiveStatus
<1>4. JobStatusColumn[JobOf[f]] = jobs[JobOf[f]].status
  BY <1>1, <1>2 DEF JobStatusColumn
<1> QED
  BY <1>1, <1>2, <1>3, <1>4
  DEF RowIs, Store!Exists, StatusColumn, TextColumn, RevisionRows, AudioColumn, CodeColumn,
      AttemptColumn, AttemptRows, ReviewRows, Row

\* Columns whose value stays in the record stay.
LEMMA RowKept ==
    ASSUME NEW f, NEW r, NEW old, RowIs(f, old), RowBecomes(f, r)
    PROVE  /\ r.status = old.status => StatusColumn' = StatusColumn
           /\ r.text = old.text => TextColumn' = TextColumn
           /\ r.revisions = old.revisions => RevisionRows' = RevisionRows
           /\ r.audio = old.audio => AudioColumn' = AudioColumn
           /\ r.code = old.code => CodeColumn' = CodeColumn
           /\ r.attempt = old.attempt => AttemptColumn' = AttemptColumn
           /\ r.history = old.history => AttemptRows' = AttemptRows
           /\ r.reviews = old.reviews => ReviewRows' = ReviewRows
<1>1. ASSUME NEW C, C = [g \in DOMAIN C |-> C[g]], NEW v, C[f] = v
      PROVE  [C EXCEPT ![f] = v] = C
  BY <1>1
<1>2. /\ StatusColumn = [g \in DOMAIN StatusColumn |-> StatusColumn[g]]
      /\ TextColumn = [g \in DOMAIN TextColumn |-> TextColumn[g]]
      /\ RevisionRows = [g \in DOMAIN RevisionRows |-> RevisionRows[g]]
      /\ AudioColumn = [g \in DOMAIN AudioColumn |-> AudioColumn[g]]
      /\ CodeColumn = [g \in DOMAIN CodeColumn |-> CodeColumn[g]]
      /\ AttemptColumn = [g \in DOMAIN AttemptColumn |-> AttemptColumn[g]]
      /\ AttemptRows = [g \in DOMAIN AttemptRows |-> AttemptRows[g]]
      /\ ReviewRows = [g \in DOMAIN ReviewRows |-> ReviewRows[g]]
  BY DEF StatusColumn, TextColumn, RevisionRows, AudioColumn, CodeColumn,
         AttemptColumn, AttemptRows, ReviewRows
<1> QED
  BY <1>1, <1>2 DEF RowIs, RowBecomes

LEMMA StartFragmentStep ==
    ASSUME MapsInv, NEW f \in Fragment, StartFragment(f)
    PROVE  MapsInv' /\ Store!StartFragment(f)
<1>1. /\ f \in DOMAIN fragments /\ fragments[f].status = "pending"
      /\ UNCHANGED <<latest, jobs, rewrites>>
  BY DEF StartFragment
<1>2. fragments[f] \in FragmentRecord /\ RecordFits(fragments[f]) /\ fragments[f].job = JobOf[f]
  BY <1>1, RowHere DEF MapsInv
<1>3. PICK r : r = [fragments[f] EXCEPT !.status = "generating",
                     !.attempt = fragments[f].attempt + 1, !.code = ""]
  OBVIOUS
<1>4. fragments' = [fragments EXCEPT ![f] = r]
  BY <1>1, <1>2, <1>3 DEF StartFragment, FragmentRecord
<1>5. /\ r \in FragmentRecord
      /\ r.job = JobOf[f] /\ r.status = "generating" /\ r.code = ""
      /\ r.attempt = fragments[f].attempt + 1 /\ r.text = fragments[f].text
      /\ r.revisions = fragments[f].revisions /\ r.audio = fragments[f].audio
      /\ r.history = fragments[f].history /\ r.reviews = fragments[f].reviews
  <2>1. fragments[f].attempt + 1 \in Nat
    BY <1>2 DEF FragmentRecord
  <2>2. "generating" \in FragmentStatus /\ "" \in Code
    BY DEF FragmentStatus, Code
  <2> QED
    BY <1>2, <1>3, <2>1, <2>2 DEF FragmentRecord
<1>6. RecordFits(r)
  <2>1. \A k \in DOMAIN r.history : r.history[k].attempt \in Nat
    <3>1. fragments[f].history \in Seq(HistoryRow)
      BY <1>2 DEF FragmentRecord
    <3>2. \A k \in DOMAIN fragments[f].history : fragments[f].history[k] \in HistoryRow
      BY <3>1
    <3> QED
      BY <1>5, <3>2 DEF HistoryRow
  <2>2. fragments[f].attempt \in Nat
    BY <1>2 DEF FragmentRecord
  <2> QED
    <3>1. \A k \in DOMAIN r.history : r.history[k].attempt <= fragments[f].attempt
      BY <1>2, <1>5 DEF RecordFits, HistoryFits
    <3>2. ASSUME NEW k \in DOMAIN r.history
          PROVE  r.history[k].attempt <= r.attempt /\ r.history[k].attempt # r.attempt
      <4> DEFINE a == r.history[k].attempt
      <4>1. a \in Nat /\ a <= fragments[f].attempt
        BY <2>1, <3>1
      <4>2. r.attempt = fragments[f].attempt + 1
        BY <1>5
      <4> HIDE DEF a
      <4>3. a <= r.attempt /\ a # r.attempt
        BY <2>2, <4>1, <4>2
      <4> QED
        BY <4>3 DEF a
    <3> QED
      BY <1>5, <3>2 DEF RecordFits, HistoryFits
<1>7. /\ IsMap(fragments', Fragment, FragmentRecord)
      /\ DOMAIN fragments' = DOMAIN fragments
      /\ \A g \in DOMAIN fragments : /\ fragments'[g].job = JobOf[g]
                                     /\ RecordFits(fragments'[g])
      /\ \A g \in DOMAIN fragments :
            JobOf[g] # JobOf[f] => fragments'[g] = fragments[g]
      /\ JobOf[f] \in DOMAIN jobs
  BY <1>1, <1>4, <1>5, <1>6, OneRecord DEF MapsInv
<1>8. /\ StatusColumn[f] = "pending" /\ StatusColumn[f] \in Store!Unsettled
      /\ f \in Store!FragmentsOf(JobOf[f])
  BY <1>1, RowHere DEF MapsInv, RowIs, Store!Unsettled, Store!FragmentsOf
<1>9. RowBecomes(f, r)
  BY <1>1, <1>4, OneRow DEF MapsInv, RecordsInv
<1>10. StatusColumn' = [StatusColumn EXCEPT ![f] = "generating"]
  BY <1>5, <1>9 DEF RowBecomes
\* The job is not final: one of its fragments was pending.
<1>11. FinalIsHonest'
  <2>1. Store!StatusFor(JobOf[f], StatusColumn) = "running"
    BY <1>8 DEF Store!StatusFor
  <2>2. ASSUME NEW j \in DOMAIN jobs, jobs[j].status \notin ActiveStatus
        PROVE  Store!StatusFor(j, StatusColumn') = Store!StatusFor(j, StatusColumn)
    <3>1. j # JobOf[f]
      BY <2>1, <2>2 DEF MapsInv, RecordsInv, FinalIsHonest, ActiveStatus
    <3>2. \A g \in Store!FragmentsOf(j) : StatusColumn'[g] = StatusColumn[g]
      BY <1>10, <3>1 DEF Store!FragmentsOf, StatusColumn
    <3> QED
      BY <3>2, StatusForSame
  <2> QED
    BY <1>1, <2>2 DEF MapsInv, RecordsInv, FinalIsHonest
<1>12. RecordsInv'
  BY <1>1, <1>7, <1>11
  DEF MapsInv, RecordsInv, MapTypes, RecordsLinked, RecordsFit, RecordFits, HistoryFits, IsMap
<1>13. RewritesFit' /\ RewritingRows' = RewritingRows
  BY <1>1, SameRewrites DEF MapsInv
<1>14. JobStatusColumn' = JobStatusColumn /\ CountColumns' = CountColumns
  BY <1>1 DEF JobStatusColumn, CountColumns
<1> QED
  <2>1. Store!StartFragment(f)
    <3>1. Store!Exists(f) /\ RowIs(f, fragments[f])
      BY <1>1, RowHere DEF MapsInv
    <3>2. /\ AttemptColumn' = [AttemptColumn EXCEPT ![f] = AttemptColumn[f] + 1]
          /\ CodeColumn' = [CodeColumn EXCEPT ![f] = ""]
      BY <1>5, <1>9, <3>1 DEF RowBecomes, RowIs
    <3>3. UNCHANGED <<TextColumn, RevisionRows, AudioColumn, AttemptRows, ReviewRows>>
      BY <1>5, <1>9, <3>1, RowKept
    <3> QED
      BY <1>8, <1>10, <1>13, <1>14, <3>1, <3>2, <3>3 DEF Store!StartFragment
  <2> QED
    BY <1>12, <1>13, <2>1 DEF MapsInv

\* A method that changes one record and recomputes its job.
LEMMA ChangeRecord ==
    ASSUME MapsInv, NEW f \in DOMAIN fragments, NEW r \in FragmentRecord,
           r.job = JobOf[f], RecordFits(r),
           fragments' = [fragments EXCEPT ![f] = r], latest' = latest,
           NEW final \in JobStatus,
           final \in ActiveStatus \/ final = Store!StatusFor(JobOf[f], StatusColumn'),
           jobs' = [JobsAfter(JobOf[f], fragments') EXCEPT ![JobOf[f]].status = final]
    PROVE  /\ RecordsInv' /\ DOMAIN jobs' = DOMAIN jobs
           /\ Store!RecomputeTo(JobOf[f], StatusColumn', final)
           /\ RowBecomes(f, r)
<1>1. /\ JobOf[f] \in DOMAIN jobs
      /\ IsMap(fragments', Fragment, FragmentRecord)
      /\ DOMAIN fragments' = DOMAIN fragments
      /\ \A g \in DOMAIN fragments : /\ fragments'[g].job = JobOf[g]
                                     /\ RecordFits(fragments'[g])
      /\ \A g \in DOMAIN fragments :
            JobOf[g] # JobOf[f] => fragments'[g] = fragments[g]
  BY OneRecord DEF MapsInv
<1>2. RowBecomes(f, r)
  BY OneRow DEF MapsInv, RecordsInv
<1>3. /\ RecordsInv' /\ DOMAIN jobs' = DOMAIN jobs
      /\ Store!RecomputeTo(JobOf[f], StatusColumn', final)
  BY <1>1, Transaction DEF MapsInv
<1> QED
  BY <1>2, <1>3

\* The same, with the status the fragments give the job.
LEMMA ChangeRecordFreely ==
    ASSUME MapsInv, NEW f \in DOMAIN fragments, NEW r \in FragmentRecord,
           r.job = JobOf[f], RecordFits(r),
           fragments' = [fragments EXCEPT ![f] = r], latest' = latest,
           jobs' = JobsAfter(JobOf[f], fragments')
    PROVE  /\ RecordsInv' /\ DOMAIN jobs' = DOMAIN jobs
           /\ Store!Recompute(JobOf[f], StatusColumn')
           /\ RowBecomes(f, r)
<1>1. PICK final : final = Store!StatusFor(JobOf[f], StatusColumn')
  OBVIOUS
<1>2. final \in JobStatus
  BY <1>1 DEF Store!StatusFor, JobStatus, ActiveStatus
<1>3. /\ JobOf[f] \in DOMAIN jobs
      /\ IsMap(fragments', Fragment, FragmentRecord)
      /\ DOMAIN fragments' = DOMAIN fragments
  BY OneRecord DEF MapsInv
<1>4. jobs' = [JobsAfter(JobOf[f], fragments') EXCEPT ![JobOf[f]].status = final]
  BY <1>1, <1>3, StatusAfter DEF MapsInv, RecordsInv
<1>5. /\ RecordsInv' /\ DOMAIN jobs' = DOMAIN jobs
      /\ Store!RecomputeTo(JobOf[f], StatusColumn', final)
      /\ RowBecomes(f, r)
  BY <1>1, <1>2, <1>4, ChangeRecord
<1> QED
  BY <1>1, <1>5 DEF Store!Recompute

\* A history, a list of reviews grow by one element.
LEMMA RangeOfAppend ==
    ASSUME NEW S, NEW s \in Seq(S), NEW x
    PROVE  Range(Append(s, x)) = Range(s) \cup {x}
<1> DEFINE a == Append(s, x)
<1>1. /\ DOMAIN a = 1 .. Len(s) + 1 /\ Len(s) \in Nat
      /\ DOMAIN s = 1 .. Len(s)
      /\ \A k \in 1 .. Len(s) : a[k] = s[k]
      /\ a[Len(s) + 1] = x
  OBVIOUS
<1> HIDE DEF a
<1>2. \A k \in DOMAIN a : k \in DOMAIN s \/ k = Len(s) + 1
  BY <1>1
<1>3. \A k \in DOMAIN s : k \in DOMAIN a
  BY <1>1
<1>4. Len(s) + 1 \in DOMAIN a
  BY <1>1
<1>5. Range(a) = Range(s) \cup {x}
  BY <1>1, <1>2, <1>3, <1>4 DEF Range
<1> QED
  BY <1>5 DEF a

\* The attempts recorded of a history.
LEMMA OutcomeAppended ==
    ASSUME NEW s \in Seq(HistoryRow), NEW x
    PROVE  {OutcomeOf(h) : h \in Range(Append(s, x))}
             = {OutcomeOf(h) : h \in Range(s)} \cup {OutcomeOf(x)}
<1>1. Range(Append(s, x)) = Range(s) \cup {x}
  BY RangeOfAppend
<1> QED
  BY <1>1

\* What an outcome does to the record of its fragment.
LEMMA SettledStep ==
    ASSUME MapsInv, NEW f \in Fragment, NEW o, Settled(f, o),
           o.status \in {"ready", "warning", "failed"}, o.code \in Code,
           o.audio \in Text \cup {NoAudio},
           o.status = "ready" => o.audio # NoAudio
    PROVE  /\ MapsInv'
           /\ Store!Exists(f) /\ StatusColumn[f] = "generating"
           /\ Store!InsertAttempt(f, IF o.status = "warning" THEN o.code ELSE o.status)
           /\ StatusColumn' = [StatusColumn EXCEPT ![f] = o.status]
           /\ CodeColumn' = [CodeColumn EXCEPT ![f] = o.code]
           /\ AudioColumn' = [AudioColumn EXCEPT ![f] = o.audio]
           /\ o.audio = AudioColumn[f] => AudioColumn' = AudioColumn
           /\ Store!Recompute(JobOf[f], StatusColumn')
           /\ UNCHANGED <<RewritingRows, TextColumn, RevisionRows, AttemptColumn,
                          ReviewRows>>
<1>1. PICK old : old = fragments[f]
  OBVIOUS
<1>2. /\ f \in DOMAIN fragments /\ old.status = "generating"
      /\ old \in FragmentRecord /\ old.job = JobOf[f] /\ RecordFits(old)
      /\ Store!Exists(f) /\ RowIs(f, old)
  BY <1>1, RowHere DEF Settled, MapsInv
<1>3. PICK x : x = [attempt |-> old.attempt, status |-> o.status, code |-> o.code]
  OBVIOUS
<1>4. PICK r : r = [old EXCEPT !.status = o.status, !.code = o.code,
                               !.audio = o.audio, !.history = Append(old.history, x)]
  OBVIOUS
<1>5. /\ old.history \in Seq(HistoryRow) /\ old.attempt \in Nat
      /\ x \in HistoryRow
  BY <1>2, <1>3 DEF FragmentRecord, HistoryRow, FragmentStatus
<1>6. Append(old.history, x) \in Seq(HistoryRow)
  BY <1>5
<1>7. /\ r \in FragmentRecord
      /\ r.job = JobOf[f] /\ r.status = o.status /\ r.code = o.code
      /\ r.audio = o.audio /\ r.history = Append(old.history, x)
      /\ r.text = old.text /\ r.revisions = old.revisions
      /\ r.attempt = old.attempt /\ r.reviews = old.reviews
  BY <1>2, <1>4, <1>6 DEF FragmentRecord, FragmentStatus
<1>8. RecordFits(r)
  <2>1. \A k \in DOMAIN r.history :
           \/ k \in DOMAIN old.history /\ r.history[k] = old.history[k]
           \/ r.history[k] = x
    BY <1>5, <1>7
  <2>2. \A k \in DOMAIN old.history : old.history[k].attempt <= old.attempt
    BY <1>2 DEF RecordFits, HistoryFits
  <2>3. x.attempt <= old.attempt
    BY <1>3, <1>5
  <2>4. \A k \in DOMAIN r.history : r.history[k].attempt <= r.attempt
    BY <1>7, <2>1, <2>2, <2>3
  <2> QED
    BY <1>7, <2>4 DEF RecordFits, HistoryFits
<1>9. /\ fragments' = [fragments EXCEPT ![f] = r]
      /\ jobs' = JobsAfter(JobOf[f], fragments')
      /\ UNCHANGED <<latest, rewrites>>
  <2>1. SnapshotAttempt([old EXCEPT !.status = o.status, !.code = o.code,
                                    !.audio = o.audio]) = r
    BY <1>2, <1>3, <1>4 DEF SnapshotAttempt, FragmentRecord
  <2> QED
    BY <1>1, <1>2, <2>1 DEF Settled
<1>10. /\ RecordsInv' /\ DOMAIN jobs' = DOMAIN jobs
       /\ Store!Recompute(JobOf[f], StatusColumn')
       /\ RowBecomes(f, r)
  BY <1>2, <1>7, <1>8, <1>9, ChangeRecordFreely
<1>11. RewritesFit' /\ RewritingRows' = RewritingRows
  BY <1>9, <1>10, SameRewrites DEF MapsInv
<1>12. Store!InsertAttempt(f, IF o.status = "warning" THEN o.code ELSE o.status)
  <2>1. AttemptRows' = [AttemptRows EXCEPT ![f] = @ \cup {OutcomeOf(x)}]
    <3>1. {OutcomeOf(h) : h \in Range(r.history)} = AttemptRows[f] \cup {OutcomeOf(x)}
      BY <1>2, <1>5, <1>7, OutcomeAppended DEF RowIs
    <3> QED
      BY <1>10, <3>1 DEF RowBecomes
  <2>2. OutcomeOf(x) = [attempt |-> AttemptColumn[f],
                        outcome |-> IF o.status = "warning" THEN o.code ELSE o.status]
    BY <1>2, <1>3 DEF OutcomeOf, RowIs
  <2>3. \A a \in AttemptRows[f] : a.attempt # AttemptColumn[f]
    <3>1. \A h \in Range(old.history) : h.attempt # old.attempt
      BY <1>2 DEF Range, RecordFits, HistoryFits
    <3>2. \A h : OutcomeOf(h).attempt = h.attempt
      BY DEF OutcomeOf
    <3> QED
      BY <1>2, <3>1, <3>2 DEF RowIs
  <2> QED
    BY <2>1, <2>2, <2>3 DEF Store!InsertAttempt
<1>13. UNCHANGED <<TextColumn, RevisionRows, AttemptColumn, ReviewRows>>
       /\ (o.audio = AudioColumn[f] => AudioColumn' = AudioColumn)
  <2>1. o.audio = AudioColumn[f] => r.audio = old.audio
    BY <1>2, <1>7 DEF RowIs
  <2> QED
    BY <1>2, <1>7, <1>10, <2>1, RowKept
<1>14. StatusColumn[f] = "generating"
  BY <1>2 DEF RowIs
<1> QED
  BY <1>2, <1>7, <1>10, <1>11, <1>12, <1>13, <1>14 DEF RowBecomes, MapsInv

LEMMA CompleteFragmentStep ==
    ASSUME MapsInv, NEW f \in Fragment, NEW t \in Text, NEW c \in {""} \cup Codes,
           CompleteFragment(f, t, c)
    PROVE  MapsInv' /\ Store!CompleteFragment(f, t, c)
<1>1. PICK o : o = [status |-> IF c = "" THEN "ready" ELSE "warning",
                    code |-> c, audio |-> t]
  OBVIOUS
<1>2. /\ Settled(f, o) /\ o.audio = t /\ o.code = c
      /\ o.status = IF c = "" THEN "ready" ELSE "warning"
  BY <1>1 DEF CompleteFragment
<1>3. c \in Code /\ t # NoAudio
  BY CodesAssumption, TextAssumption DEF Code
<1>4. (IF o.status = "warning" THEN o.code ELSE o.status)
         = IF c = "" THEN "ready" ELSE c
  BY <1>2
<1>5. /\ MapsInv'
      /\ Store!Exists(f) /\ StatusColumn[f] = "generating"
      /\ Store!InsertAttempt(f, IF o.status = "warning" THEN o.code ELSE o.status)
      /\ StatusColumn' = [StatusColumn EXCEPT ![f] = o.status]
      /\ CodeColumn' = [CodeColumn EXCEPT ![f] = o.code]
      /\ AudioColumn' = [AudioColumn EXCEPT ![f] = o.audio]
      /\ Store!Recompute(JobOf[f], StatusColumn')
      /\ UNCHANGED <<RewritingRows, TextColumn, RevisionRows, AttemptColumn,
                     ReviewRows>>
  BY <1>2, <1>3, SettledStep
<1> QED
  BY <1>2, <1>4, <1>5 DEF Store!CompleteFragment

LEMMA FailFragmentStep ==
    ASSUME MapsInv, NEW f \in Fragment, FailFragment(f)
    PROVE  MapsInv' /\ Store!FailFragment(f)
<1>1. PICK o : o = [status |-> "failed", code |-> "", audio |-> fragments[f].audio]
  OBVIOUS
<1>2. /\ Settled(f, o) /\ o.audio = fragments[f].audio /\ o.code = ""
      /\ o.status = "failed" /\ f \in DOMAIN fragments
  BY <1>1 DEF FailFragment
<1>3. /\ fragments[f] \in FragmentRecord /\ RowIs(f, fragments[f])
  BY <1>2, RowHere DEF MapsInv
<1>4. "" \in Code /\ o.audio \in Text \cup {NoAudio} /\ o.audio = AudioColumn[f]
  BY <1>2, <1>3 DEF Code, RowIs, FragmentRecord
<1>5. /\ MapsInv'
      /\ Store!Exists(f) /\ StatusColumn[f] = "generating"
      /\ Store!InsertAttempt(f, IF o.status = "warning" THEN o.code ELSE o.status)
      /\ StatusColumn' = [StatusColumn EXCEPT ![f] = o.status]
      /\ CodeColumn' = [CodeColumn EXCEPT ![f] = o.code]
      /\ o.audio = AudioColumn[f] => AudioColumn' = AudioColumn
      /\ Store!Recompute(JobOf[f], StatusColumn')
      /\ UNCHANGED <<RewritingRows, TextColumn, RevisionRows, AttemptColumn,
                     ReviewRows>>
  BY <1>2, <1>4, SettledStep
<1> QED
  BY <1>2, <1>4, <1>5 DEF Store!FailFragment

LEMMA AutomaticRetryStep ==
    ASSUME MapsInv, NEW f \in Fragment, PrepareAutomaticWarningRetry(f)
    PROVE  MapsInv' /\ Store!PrepareAutomaticWarningRetry(f)
<1>1. PICK old : old = fragments[f]
  OBVIOUS
<1>2. /\ f \in DOMAIN fragments /\ old.status = "warning" /\ old.code \in RetryCode
      /\ old \in FragmentRecord /\ old.job = JobOf[f] /\ RecordFits(old)
      /\ Store!Exists(f) /\ RowIs(f, old)
      /\ JobOf[f] \in DOMAIN jobs
  BY <1>1, RowHere DEF PrepareAutomaticWarningRetry, MapsInv
<1>3. PICK r : r = [old EXCEPT !.status = "pending", !.code = ""]
  OBVIOUS
<1>4. /\ r \in FragmentRecord
      /\ r.job = JobOf[f] /\ r.status = "pending" /\ r.code = ""
      /\ r.text = old.text /\ r.revisions = old.revisions /\ r.audio = old.audio
      /\ r.attempt = old.attempt /\ r.history = old.history /\ r.reviews = old.reviews
  BY <1>2, <1>3 DEF FragmentRecord, FragmentStatus, Code
<1>5. RecordFits(r)
  BY <1>2, <1>4 DEF RecordFits, HistoryFits
<1>6. /\ fragments' = [fragments EXCEPT ![f] = r]
      /\ jobs' = [JobsAfter(JobOf[f], fragments') EXCEPT ![JobOf[f]].status = "running"]
      /\ UNCHANGED <<latest, rewrites>>
  BY <1>1, <1>2, <1>3 DEF PrepareAutomaticWarningRetry, FragmentRecord
<1>7. "running" \in JobStatus /\ "running" \in ActiveStatus
  BY DEF JobStatus, ActiveStatus
<1>8. /\ RecordsInv' /\ DOMAIN jobs' = DOMAIN jobs
      /\ Store!RecomputeTo(JobOf[f], StatusColumn', "running")
      /\ RowBecomes(f, r)
  BY <1>2, <1>4, <1>5, <1>6, <1>7, ChangeRecord
<1>9. RewritesFit' /\ RewritingRows' = RewritingRows
  BY <1>6, <1>8, SameRewrites DEF MapsInv
<1>10. UNCHANGED <<TextColumn, RevisionRows, AudioColumn, AttemptColumn, AttemptRows,
                   ReviewRows>>
  BY <1>2, <1>4, <1>8, RowKept
<1>11. StatusColumn[f] = "warning" /\ CodeColumn[f] \in Store!ValidationCode
  BY <1>2 DEF RowIs, RetryCode, Store!ValidationCode
<1> QED
  BY <1>2, <1>4, <1>8, <1>9, <1>10, <1>11
  DEF Store!PrepareAutomaticWarningRetry, RowBecomes, MapsInv

-----------------------------------------------------------------------------
(* Edits, restored texts and approvals.                                    *)

\* A new revision.
LEMMA RetextedRecord ==
    ASSUME NEW old \in FragmentRecord, RecordFits(old), NEW t \in Text,
           NEW st \in {"pending", "warning"}, NEW c \in Code,
           NEW r, r = Retexted(old, t, st, c)
    PROVE  /\ r \in FragmentRecord /\ RecordFits(r)
           /\ r.job = old.job /\ r.status = st /\ r.code = c /\ r.text = t
           /\ r.revisions = Append(old.revisions, t) /\ r.audio = NoAudio
           /\ r.attempt = old.attempt /\ r.history = old.history
           /\ r.reviews = old.reviews
<1>1. Append(old.revisions, t) \in Seq(Text)
  BY DEF FragmentRecord
<1>2. /\ r \in FragmentRecord
      /\ r.job = old.job /\ r.status = st /\ r.code = c /\ r.text = t
      /\ r.revisions = Append(old.revisions, t) /\ r.audio = NoAudio
      /\ r.attempt = old.attempt /\ r.history = old.history
      /\ r.reviews = old.reviews
  BY <1>1 DEF Retexted, FragmentRecord, FragmentStatus
<1> QED
  BY <1>2 DEF RecordFits, HistoryFits

\* It is SetText of the tables.
LEMMA RetextedRow ==
    ASSUME NEW f, NEW old, NEW r, NEW t, RowIs(f, old), RowBecomes(f, r),
           r.text = t, r.revisions = Append(old.revisions, t), r.audio = NoAudio,
           r.attempt = old.attempt, r.history = old.history, r.reviews = old.reviews
    PROVE  /\ Store!SetText(f, t)
           /\ UNCHANGED <<AttemptColumn, AttemptRows, ReviewRows>>
<1>1. UNCHANGED <<AttemptColumn, AttemptRows, ReviewRows>>
  BY RowKept
<1>2. RevisionRows' = [RevisionRows EXCEPT ![f] = Append(RevisionRows[f], t)]
  BY DEF RowIs, RowBecomes
<1> QED
  BY <1>1, <1>2 DEF RowBecomes, Store!SetText

LEMMA EditFragmentStep ==
    ASSUME MapsInv, NEW f \in Fragment, NEW t \in Text, EditFragment(f, t)
    PROVE  MapsInv' /\ Store!EditFragment(f, t)
<1>1. PICK old : old = fragments[f]
  OBVIOUS
<1>2. /\ f \in DOMAIN fragments /\ old.status \in Retryable
      /\ old \in FragmentRecord /\ old.job = JobOf[f] /\ RecordFits(old)
      /\ Store!Exists(f) /\ RowIs(f, old)
  BY <1>1, RowHere DEF EditFragment, MapsInv
<1>3. PICK r : r = Retexted(old, t, "warning", "text_edited")
  OBVIOUS
<1>4. "text_edited" \in Code
  BY DEF Code
<1>5. /\ r \in FragmentRecord /\ RecordFits(r)
      /\ r.job = JobOf[f] /\ r.status = "warning" /\ r.code = "text_edited"
      /\ r.text = t /\ r.revisions = Append(old.revisions, t) /\ r.audio = NoAudio
      /\ r.attempt = old.attempt /\ r.history = old.history /\ r.reviews = old.reviews
  BY <1>2, <1>3, <1>4, RetextedRecord
<1>6. /\ fragments' = [fragments EXCEPT ![f] = r]
      /\ jobs' = JobsAfter(JobOf[f], fragments')
      /\ UNCHANGED <<latest, rewrites>>
  BY <1>1, <1>2, <1>3 DEF EditFragment
<1>7. /\ RecordsInv' /\ DOMAIN jobs' = DOMAIN jobs
      /\ Store!Recompute(JobOf[f], StatusColumn')
      /\ RowBecomes(f, r)
  BY <1>2, <1>5, <1>6, ChangeRecordFreely
<1>8. RewritesFit' /\ RewritingRows' = RewritingRows
  BY <1>6, <1>7, SameRewrites DEF MapsInv
<1>9. Store!SetText(f, t) /\ UNCHANGED <<AttemptColumn, AttemptRows, ReviewRows>>
  BY <1>2, <1>5, <1>7, RetextedRow
<1>10. StatusColumn[f] \in Store!Retryable
  BY <1>2 DEF RowIs, Retryable, Store!Retryable
<1> QED
  BY <1>2, <1>5, <1>7, <1>8, <1>9, <1>10
  DEF Store!EditFragment, RowBecomes, MapsInv

LEMMA RestoreStep ==
    ASSUME MapsInv, NEW f \in Fragment, NEW n, RestoreFragmentRevision(f, n)
    PROVE  /\ MapsInv' /\ Store!RestoreFragmentRevision(f, n)
           /\ n \in DOMAIN RevisionRows[f]
<1>1. PICK old : old = fragments[f]
  OBVIOUS
<1>2. /\ f \in DOMAIN fragments /\ old.status # "generating"
      /\ n \in DOMAIN old.revisions
      /\ old \in FragmentRecord /\ old.job = JobOf[f] /\ RecordFits(old)
      /\ Store!Exists(f) /\ RowIs(f, old)
      /\ JobStatusColumn[JobOf[f]] = jobs[JobOf[f]].status
      /\ JobOf[f] \in DOMAIN jobs
  BY <1>1, RowHere DEF RestoreFragmentRevision, MapsInv
<1>3. PICK t : t = old.revisions[n]
  OBVIOUS
<1>4. t \in Text
  <2>1. old.revisions \in Seq(Text)
    BY <1>2 DEF FragmentRecord
  <2> QED
    BY <1>2, <1>3, <2>1
<1>5. PICK st : st = IF old.status = "pending" THEN "pending" ELSE "warning"
  OBVIOUS
<1>6. PICK c : c = IF old.status = "pending" THEN "" ELSE "text_restored"
  OBVIOUS
<1>7. st \in {"pending", "warning"} /\ c \in Code
  BY <1>5, <1>6 DEF Code
<1>8. PICK r : r = Retexted(old, t, st, c)
  OBVIOUS
<1>9. /\ r \in FragmentRecord /\ RecordFits(r)
      /\ r.job = JobOf[f] /\ r.status = st /\ r.code = c
      /\ r.text = t /\ r.revisions = Append(old.revisions, t) /\ r.audio = NoAudio
      /\ r.attempt = old.attempt /\ r.history = old.history /\ r.reviews = old.reviews
  BY <1>2, <1>4, <1>7, <1>8, RetextedRecord
<1>10. PICK keeps \in BOOLEAN :
         keeps <=> jobs[JobOf[f]].status = "queued" /\ old.status = "pending"
  OBVIOUS
<1>11. /\ fragments' = [fragments EXCEPT ![f] = r]
       /\ keeps => jobs' = [JobsAfter(JobOf[f], fragments') EXCEPT
                               ![JobOf[f]].status = "queued"]
       /\ ~keeps => jobs' = JobsAfter(JobOf[f], fragments')
       /\ UNCHANGED <<latest, rewrites>>
  BY <1>1, <1>2, <1>3, <1>5, <1>6, <1>8, <1>10 DEF RestoreFragmentRevision
<1>12. /\ RecordsInv' /\ DOMAIN jobs' = DOMAIN jobs /\ RowBecomes(f, r)
       /\ Store!RecomputeTo(JobOf[f], StatusColumn',
             IF keeps THEN "queued" ELSE Store!StatusFor(JobOf[f], StatusColumn'))
  <2>1. CASE keeps
    <3>1. "queued" \in JobStatus /\ "queued" \in ActiveStatus
      BY DEF JobStatus, ActiveStatus
    <3>2. /\ RecordsInv' /\ DOMAIN jobs' = DOMAIN jobs
          /\ Store!RecomputeTo(JobOf[f], StatusColumn', "queued")
          /\ RowBecomes(f, r)
      BY <1>2, <1>9, <1>11, <2>1, <3>1, ChangeRecord
    <3> QED
      BY <2>1, <3>2
  <2>2. CASE ~keeps
    <3>1. /\ RecordsInv' /\ DOMAIN jobs' = DOMAIN jobs
          /\ Store!Recompute(JobOf[f], StatusColumn')
          /\ RowBecomes(f, r)
      BY <1>2, <1>9, <1>11, <2>2, ChangeRecordFreely
    <3> QED
      BY <2>2, <3>1 DEF Store!Recompute
  <2> QED
    BY <2>1, <2>2
<1>13. RewritesFit' /\ RewritingRows' = RewritingRows
  BY <1>11, <1>12, SameRewrites DEF MapsInv
<1>14. Store!SetText(f, t) /\ UNCHANGED <<AttemptColumn, AttemptRows, ReviewRows>>
  BY <1>2, <1>9, <1>12, RetextedRow
<1>15. /\ StatusColumn[f] = old.status /\ RevisionRows[f] = old.revisions
       /\ StatusColumn' = [StatusColumn EXCEPT ![f] = Store!RestoredStatus(@)]
       /\ CodeColumn' = [CodeColumn EXCEPT ![f] = Store!RestoredCode(StatusColumn[f])]
  BY <1>2, <1>5, <1>6, <1>9, <1>12
  DEF RowIs, RowBecomes, Store!RestoredStatus, Store!RestoredCode
<1>16. keeps <=> JobStatusColumn[JobOf[f]] = "queued" /\ StatusColumn[f] = "pending"
  BY <1>2, <1>10, <1>15
<1>17. Store!RestoreFragmentRevision(f, n)
  BY <1>2, <1>3, <1>12, <1>13, <1>14, <1>15, <1>16 DEF Store!RestoreFragmentRevision
<1> QED
  BY <1>2, <1>12, <1>13, <1>15, <1>17 DEF MapsInv

LEMMA ApproveFragmentStep ==
    ASSUME MapsInv, NEW f \in Fragment, ApproveFragment(f)
    PROVE  MapsInv' /\ Store!ApproveFragment(f)
<1>1. PICK old : old = fragments[f]
  OBVIOUS
<1>2. /\ f \in DOMAIN fragments /\ old.status = "warning" /\ old.audio # NoAudio
      /\ old \in FragmentRecord /\ old.job = JobOf[f] /\ RecordFits(old)
      /\ Store!Exists(f) /\ RowIs(f, old)
  BY <1>1, RowHere DEF ApproveFragment, MapsInv
<1>3. PICK r : r = [old EXCEPT !.status = "ready", !.code = "",
                               !.reviews = Append(old.reviews, old.attempt)]
  OBVIOUS
<1>4. old.reviews \in Seq(Nat) /\ Append(old.reviews, old.attempt) \in Seq(Nat)
  BY <1>2 DEF FragmentRecord
<1>5. /\ r \in FragmentRecord
      /\ r.job = JobOf[f] /\ r.status = "ready" /\ r.code = ""
      /\ r.text = old.text /\ r.revisions = old.revisions /\ r.audio = old.audio
      /\ r.attempt = old.attempt /\ r.history = old.history
      /\ r.reviews = Append(old.reviews, old.attempt)
  BY <1>2, <1>3, <1>4 DEF FragmentRecord, FragmentStatus, Code
<1>6. RecordFits(r)
  BY <1>2, <1>5 DEF RecordFits, HistoryFits
<1>7. /\ fragments' = [fragments EXCEPT ![f] = r]
      /\ jobs' = JobsAfter(JobOf[f], fragments')
      /\ UNCHANGED <<latest, rewrites>>
  BY <1>1, <1>2, <1>3 DEF ApproveFragment, FragmentRecord
<1>8. /\ RecordsInv' /\ DOMAIN jobs' = DOMAIN jobs
      /\ Store!Recompute(JobOf[f], StatusColumn')
      /\ RowBecomes(f, r)
  BY <1>2, <1>5, <1>6, <1>7, ChangeRecordFreely
<1>9. RewritesFit' /\ RewritingRows' = RewritingRows
  BY <1>7, <1>8, SameRewrites DEF MapsInv
<1>10. UNCHANGED <<TextColumn, RevisionRows, AudioColumn, AttemptColumn, AttemptRows>>
  BY <1>2, <1>5, <1>8, RowKept
<1>11. ReviewRows' = [ReviewRows EXCEPT ![f] = @ \cup {AttemptColumn[f]}]
  <2>1. Range(r.reviews) = Range(old.reviews) \cup {old.attempt}
    BY <1>4, <1>5, RangeOfAppend
  <2>2. ReviewRows[f] = Range(old.reviews) /\ AttemptColumn[f] = old.attempt
    BY <1>2 DEF RowIs
  <2> QED
    BY <1>8, <2>1, <2>2 DEF RowBecomes
<1>12. StatusColumn[f] = "warning" /\ AudioColumn[f] # NoAudio
  BY <1>2 DEF RowIs
<1> QED
  BY <1>2, <1>5, <1>8, <1>9, <1>10, <1>11, <1>12
  DEF Store!ApproveFragment, RowBecomes, MapsInv

-----------------------------------------------------------------------------
(* Jobs that come and go.                                                  *)

\* The counters of a new job.
LEMMA FreshCounts ==
    ASSUME NEW j \in Job
    PROVE  /\ Store!CountsOf(j, [f \in Fragment |-> "pending"])
                 = [pending |-> Len(Catalog[j]), ready |-> 0, warnings |-> 0,
                    failed |-> 0]
           /\ Len(Catalog[j]) \in Nat
<1> DEFINE st == [f \in Fragment |-> "pending"]
           Count(S) == Cardinality({f \in Store!FragmentsOf(j) : st[f] \in S})
<1>1. Catalog[j] \in Seq(Fragment)
  BY CatalogAssumption
<1>2. DOMAIN Catalog[j] = 1 .. Len(Catalog[j]) /\ Len(Catalog[j]) \in Nat
  BY <1>1
<1>3. Cardinality(Store!FragmentsOf(j)) = Len(Catalog[j])
  <2>1. Cardinality({k \in DOMAIN Catalog[j] : Catalog[j][k] \in Fragment})
          = Cardinality({f \in Store!FragmentsOf(j) : f \in Fragment})
    BY CountByPlace
  <2>2. {k \in DOMAIN Catalog[j] : Catalog[j][k] \in Fragment} = 1 .. Len(Catalog[j])
    BY <1>1, <1>2
  <2>3. {f \in Store!FragmentsOf(j) : f \in Fragment} = Store!FragmentsOf(j)
    BY DEF Store!FragmentsOf
  <2>4. Cardinality(1 .. Len(Catalog[j])) = Len(Catalog[j])
    BY <1>2, FS_Interval
  <2> QED
    BY <2>1, <2>2, <2>3, <2>4
<1>4. \A f \in Store!FragmentsOf(j) : st[f] = "pending"
  BY DEF Store!FragmentsOf
<1>5. Count({"pending", "generating"}) = Len(Catalog[j])
  <2>1. {f \in Store!FragmentsOf(j) : st[f] \in {"pending", "generating"}}
           = Store!FragmentsOf(j)
    BY <1>4
  <2> QED
    BY <1>3, <2>1
<1>6. Count({"ready"}) = 0 /\ Count({"warning"}) = 0 /\ Count({"failed"}) = 0
  <2>1. /\ {f \in Store!FragmentsOf(j) : st[f] \in {"ready"}} = {}
        /\ {f \in Store!FragmentsOf(j) : st[f] \in {"warning"}} = {}
        /\ {f \in Store!FragmentsOf(j) : st[f] \in {"failed"}} = {}
    BY <1>4
  <2> QED
    BY <2>1, FS_EmptySet
<1>7. Store!CountsOf(j, st) =
        [pending |-> Count({"pending", "generating"}), ready |-> Count({"ready"}),
         warnings |-> Count({"warning"}), failed |-> Count({"failed"})]
  BY DEF Store!CountsOf, Store!Unsettled, Store!Cardinality, Cardinality
<1> QED
  BY <1>2, <1>5, <1>6, <1>7

\* The record createJob makes.
FreshRecord(f) ==
    [job |-> JobOf[f], status |-> "pending", text |-> Source[f], code |-> "",
     audio |-> NoAudio, attempt |-> 0, history |-> <<>>,
     revisions |-> <<Source[f]>>, reviews |-> <<>>]

LEMMA FreshRecordType ==
    ASSUME NEW f \in Fragment
    PROVE  FreshRecord(f) \in FragmentRecord /\ RecordFits(FreshRecord(f))
BY JobsAssumption, TextAssumption
DEF FreshRecord, FragmentRecord, FragmentStatus, Code, RecordFits, HistoryFits

\* The columns when a job's fragments have new records or none.
LEMMA FreshColumns ==
    ASSUME NEW j,
           \A f \in Fragment \ Store!FragmentsOf(j) :
              /\ f \in DOMAIN fragments' <=> f \in DOMAIN fragments
              /\ f \in DOMAIN fragments => fragments'[f] = fragments[f],
           \A f \in Store!FragmentsOf(j) :
              f \in DOMAIN fragments' => fragments'[f] = FreshRecord(f)
    PROVE  /\ StatusColumn' = Store!Inserted(j, StatusColumn, [f \in Fragment |-> "pending"])
           /\ TextColumn' = Store!Inserted(j, TextColumn, Source)
           /\ RevisionRows' = Store!Inserted(j, RevisionRows,
                                             [f \in Fragment |-> <<Source[f]>>])
           /\ AudioColumn' = Store!Inserted(j, AudioColumn, [f \in Fragment |-> NoAudio])
           /\ CodeColumn' = Store!Inserted(j, CodeColumn, [f \in Fragment |-> ""])
           /\ AttemptColumn' = Store!Inserted(j, AttemptColumn, [f \in Fragment |-> 0])
           /\ AttemptRows' = Store!Inserted(j, AttemptRows, [f \in Fragment |-> {}])
           /\ ReviewRows' = Store!Inserted(j, ReviewRows, [f \in Fragment |-> {}])
<1> DEFINE Mine == Store!FragmentsOf(j)
<1>1. \A f \in Fragment : f \in Mine <=> JobOf[f] = j
  BY DEF Store!FragmentsOf
<1>2. ASSUME NEW f \in Mine
      PROVE  /\ f \in Fragment
             /\ Row(f, "status", "pending")' = "pending"
             /\ Row(f, "text", Source[f])' = Source[f]
             /\ Row(f, "revisions", <<Source[f]>>)' = <<Source[f]>>
             /\ Row(f, "audio", NoAudio)' = NoAudio
             /\ Row(f, "code", "")' = ""
             /\ Row(f, "attempt", 0)' = 0
             /\ Row(f, "history", <<>>)' = <<>>
             /\ Row(f, "reviews", <<>>)' = <<>>
  <2>1. f \in Fragment
    BY <1>2 DEF Store!FragmentsOf
  <2>2. CASE f \in DOMAIN fragments'
    <3>1. fragments'[f] = FreshRecord(f)
      BY <1>2, <2>2
    <3>2. PICK r : r = FreshRecord(f)
      OBVIOUS
    <3>3. /\ r.status = "pending" /\ r.text = Source[f] /\ r.code = ""
          /\ r.revisions = <<Source[f]>> /\ r.audio = NoAudio
          /\ r.attempt = 0 /\ r.history = <<>> /\ r.reviews = <<>>
      BY <3>2 DEF FreshRecord
    <3> QED
      BY <2>1, <2>2, <3>1, <3>2, <3>3 DEF Row
  <2>3. CASE f \notin DOMAIN fragments'
    BY <2>1, <2>3 DEF Row
  <2> QED
    BY <2>2, <2>3
<1>3. ASSUME NEW f \in Fragment \ Mine
      PROVE  /\ Row(f, "status", "pending")' = Row(f, "status", "pending")
             /\ Row(f, "text", Source[f])' = Row(f, "text", Source[f])
             /\ Row(f, "revisions", <<Source[f]>>)' = Row(f, "revisions", <<Source[f]>>)
             /\ Row(f, "audio", NoAudio)' = Row(f, "audio", NoAudio)
             /\ Row(f, "code", "")' = Row(f, "code", "")
             /\ Row(f, "attempt", 0)' = Row(f, "attempt", 0)
             /\ Row(f, "history", <<>>)' = Row(f, "history", <<>>)
             /\ Row(f, "reviews", <<>>)' = Row(f, "reviews", <<>>)
  BY <1>3 DEF Row
<1>4. Range(<<>>) = {}
  BY DEF Range
<1>5. /\ StatusColumn' = Store!Inserted(j, StatusColumn, [f \in Fragment |-> "pending"])
      /\ TextColumn' = Store!Inserted(j, TextColumn, Source)
      /\ RevisionRows' = Store!Inserted(j, RevisionRows,
                                        [f \in Fragment |-> <<Source[f]>>])
  BY <1>1, <1>2, <1>3 DEF StatusColumn, TextColumn, RevisionRows, Store!Inserted
<1>6. /\ AudioColumn' = Store!Inserted(j, AudioColumn, [f \in Fragment |-> NoAudio])
      /\ CodeColumn' = Store!Inserted(j, CodeColumn, [f \in Fragment |-> ""])
      /\ AttemptColumn' = Store!Inserted(j, AttemptColumn, [f \in Fragment |-> 0])
  BY <1>1, <1>2, <1>3 DEF AudioColumn, CodeColumn, AttemptColumn, Store!Inserted
<1>7. AttemptRows' = Store!Inserted(j, AttemptRows, [f \in Fragment |-> {}])
  BY <1>1, <1>2, <1>3, <1>4 DEF AttemptRows, Store!Inserted
<1>8. ReviewRows' = Store!Inserted(j, ReviewRows, [f \in Fragment |-> {}])
  BY <1>1, <1>2, <1>3, <1>4 DEF ReviewRows, Store!Inserted
<1> QED
  BY <1>5, <1>6, <1>7, <1>8

\* What a job that appears or disappears leaves of the others.
LEMMA OthersHonest ==
    ASSUME FinalIsHonest, NEW j,
           \A f \in Fragment \ Store!FragmentsOf(j) :
              /\ f \in DOMAIN fragments' <=> f \in DOMAIN fragments
              /\ f \in DOMAIN fragments => fragments'[f] = fragments[f],
           \A i \in DOMAIN jobs' : \/ i \in DOMAIN jobs \ {j} /\ jobs'[i] = jobs[i]
                                   \/ jobs'[i].status \in ActiveStatus
    PROVE  FinalIsHonest'
<1> SUFFICES ASSUME NEW i \in DOMAIN jobs \ {j}, jobs[i].status \notin ActiveStatus
             PROVE  jobs[i].status = Store!StatusFor(i, StatusColumn')
  BY DEF FinalIsHonest
<1>1. ASSUME NEW f \in Store!FragmentsOf(i)
      PROVE  StatusColumn'[f] = StatusColumn[f]
  <2>1. f \in Fragment \ Store!FragmentsOf(j)
    BY <1>1 DEF Store!FragmentsOf
  <2> QED
    BY <2>1 DEF StatusColumn, Row
<1>2. Store!StatusFor(i, StatusColumn') = Store!StatusFor(i, StatusColumn)
  BY <1>1, StatusForSame
<1> QED
  BY <1>2 DEF FinalIsHonest

LEMMA CreateJobStep ==
    ASSUME MapsInv, NEW j \in Job, CreateJob(j)
    PROVE  MapsInv' /\ Store!CreateJob(j)
<1>1. PICK made : made = [status |-> "queued", pending |-> Len(Catalog[j]), ready |-> 0,
                          warnings |-> 0, failed |-> 0, fragmentIDs |-> Catalog[j]]
  OBVIOUS
<1>2. /\ j \notin DOMAIN jobs
      /\ \A r \in DOMAIN rewrites : rewrites[r].job # j
      /\ jobs' = Added(jobs, [x \in {j} |-> made])
      /\ latest' = [latest EXCEPT ![BookOf[j]] = j]
      /\ rewrites' = rewrites
  BY <1>1 DEF CreateJob
<1>3. /\ Catalog[j] \in Seq(Fragment) /\ Range(Catalog[j]) = Store!FragmentsOf(j)
      /\ Len(Catalog[j]) \in Nat
  BY CatalogAssumption, FreshCounts DEF Store!FragmentsOf
<1>4. fragments' = Added(fragments, [f \in Store!FragmentsOf(j) |-> FreshRecord(f)])
  <2>1. [f \in Range(Catalog[j]) |->
          [job |-> j, status |-> "pending", text |-> Source[f], code |-> "",
           audio |-> NoAudio, attempt |-> 0, history |-> <<>>,
           revisions |-> <<Source[f]>>, reviews |-> <<>>]]
          = [f \in Store!FragmentsOf(j) |-> FreshRecord(f)]
    BY <1>3 DEF FreshRecord, Store!FragmentsOf
  <2> QED
    BY <2>1 DEF CreateJob
<1>5. /\ made \in JobRecord /\ made.status = "queued" /\ made.fragmentIDs = Catalog[j]
      /\ made.pending = Len(Catalog[j]) /\ made.ready = 0 /\ made.warnings = 0
      /\ made.failed = 0
  BY <1>1, <1>3 DEF JobRecord, JobStatus, ActiveStatus
<1>6. /\ DOMAIN jobs' = DOMAIN jobs \cup {j} /\ jobs'[j] = made
      /\ \A i \in DOMAIN jobs : jobs'[i] = jobs[i]
  BY <1>2 DEF Added
<1>7. /\ \A f : f \in DOMAIN fragments' <=>
                   f \in DOMAIN fragments \/ f \in Store!FragmentsOf(j)
      /\ \A f \in Store!FragmentsOf(j) : fragments'[f] = FreshRecord(f)
      /\ \A f \in DOMAIN fragments \ Store!FragmentsOf(j) : fragments'[f] = fragments[f]
  BY <1>4 DEF Added
<1>8. /\ DOMAIN jobs \subseteq Job /\ \A i \in DOMAIN jobs : jobs[i] \in JobRecord
      /\ DOMAIN fragments \subseteq Fragment
      /\ \A f \in DOMAIN fragments : fragments[f] \in FragmentRecord
  BY DEF MapsInv, RecordsInv, MapTypes, IsMap
<1>9. MapTypes'
  <2>1. IsMap(jobs', Job, JobRecord)
    <3>1. jobs' = [i \in DOMAIN jobs' |-> jobs'[i]]
      BY <1>2 DEF Added
    <3> QED
      BY <1>5, <1>6, <1>8, <3>1 DEF IsMap
  <2>2. IsMap(fragments', Fragment, FragmentRecord)
    <3>1. fragments' = [f \in DOMAIN fragments' |-> fragments'[f]]
      BY <1>4 DEF Added
    <3>2. \A f \in Store!FragmentsOf(j) : f \in Fragment /\ FreshRecord(f) \in FragmentRecord
      BY FreshRecordType DEF Store!FragmentsOf
    <3> QED
      BY <1>7, <1>8, <3>1, <3>2 DEF IsMap
  <2> QED
    BY <1>2, <2>1, <2>2 DEF MapsInv, RecordsInv, MapTypes
<1>10. RecordsLinked'
  <2>1. \A f \in Fragment : f \in DOMAIN fragments' <=> JobOf[f] \in DOMAIN jobs'
    BY <1>6, <1>7 DEF MapsInv, RecordsInv, RecordsLinked, Store!FragmentsOf
  <2>2. \A f \in DOMAIN fragments' : fragments'[f].job = JobOf[f]
    <3>1. \A f \in Store!FragmentsOf(j) : fragments'[f].job = JobOf[f]
      <4>1. \A f : FreshRecord(f).job = JobOf[f]
        BY DEF FreshRecord
      <4> QED
        BY <1>7, <4>1
    <3>2. \A f \in DOMAIN fragments \ Store!FragmentsOf(j) : fragments'[f].job = JobOf[f]
      BY <1>7 DEF MapsInv, RecordsInv, RecordsLinked
    <3> QED
      BY <1>7, <3>1, <3>2
  <2>3. \A i \in DOMAIN jobs' : jobs'[i].fragmentIDs = Catalog[i]
    BY <1>5, <1>6 DEF MapsInv, RecordsInv, RecordsLinked
  <2>4. \A b \in Book : latest'[b] # NoJob =>
           latest'[b] \in DOMAIN jobs' /\ BookOf[latest'[b]] = b
    BY <1>2, <1>6, BookAssumption DEF MapsInv, RecordsInv, RecordsLinked, MapTypes
  <2> QED
    BY <2>1, <2>2, <2>3, <2>4 DEF RecordsLinked
<1>11. RecordsFit'
  <2>1. \A f \in Store!FragmentsOf(j) : RecordFits(FreshRecord(f))
    BY FreshRecordType DEF Store!FragmentsOf
  <2>2. \A f \in DOMAIN fragments' : RecordFits(fragments'[f])
    BY <1>7, <2>1 DEF MapsInv, RecordsInv, RecordsFit
  <2> QED
    BY <2>2 DEF RecordsFit, RecordFits, HistoryFits
<1>12. FinalIsHonest'
  <2>1. \A i \in DOMAIN jobs' : \/ i \in DOMAIN jobs \ {j} /\ jobs'[i] = jobs[i]
                                \/ jobs'[i].status \in ActiveStatus
    BY <1>2, <1>5, <1>6 DEF ActiveStatus
  <2> QED
    BY <1>7, <2>1, OthersHonest DEF MapsInv, RecordsInv
<1>13. RewritesFit'
  BY <1>2 DEF MapsInv, RewritesFit, Unfinished, IsMap
<1>14. Store!FreshRows(j)
  <2>1. CountColumns' = [CountColumns EXCEPT
                            ![j] = Store!CountsOf(j, [f \in Fragment |-> "pending"])]
    BY <1>2, <1>5, <1>6, FreshCounts DEF CountColumns
  <2>2. RewritingRows' = [RewritingRows EXCEPT ![j] = {}]
    <3>1. \A r : Unfinished(r)' = Unfinished(r)
      BY <1>2 DEF Unfinished
    <3>2. {r \in DOMAIN rewrites : rewrites[r].job = j} = {}
      BY <1>2
    <3>3. RewritingRows'[j] = {}
      <4>1. {r \in DOMAIN rewrites' : rewrites'[r].job = j} = {}
        BY <1>2, <3>2
      <4> QED
        BY <1>6, <4>1 DEF RewritingRows
    <3>4. \A i \in Job \ {j} : RewritingRows'[i] = RewritingRows[i]
      <4>1. PICK U : U = [r \in DOMAIN rewrites |-> Unfinished(r)]
        OBVIOUS
      <4>2. rewrites' = rewrites
        BY <1>2
      <4>3. \A i \in Job : RewritingRows[i] =
               IF i \in DOMAIN jobs
               THEN UNION {U[r] : r \in {x \in DOMAIN rewrites :
                                            rewrites[x].job = i}}
               ELSE {}
        BY <4>1 DEF RewritingRows
      <4>4. \A i \in Job : RewritingRows'[i] =
               IF i \in DOMAIN jobs'
               THEN UNION {U[r] : r \in {x \in DOMAIN rewrites :
                                            rewrites[x].job = i}}
               ELSE {}
        BY <3>1, <4>1, <4>2 DEF RewritingRows
      <4>5. \A i \in Job \ {j} : i \in DOMAIN jobs' <=> i \in DOMAIN jobs
        BY <1>2, <1>6
      <4> QED
        BY <4>3, <4>4, <4>5
    <3> QED
      BY <3>3, <3>4 DEF RewritingRows
  <2>3. /\ StatusColumn' = Store!Inserted(j, StatusColumn, [f \in Fragment |-> "pending"])
        /\ TextColumn' = Store!Inserted(j, TextColumn, Source)
        /\ RevisionRows' = Store!Inserted(j, RevisionRows,
                                          [f \in Fragment |-> <<Source[f]>>])
        /\ AudioColumn' = Store!Inserted(j, AudioColumn, [f \in Fragment |-> NoAudio])
        /\ CodeColumn' = Store!Inserted(j, CodeColumn, [f \in Fragment |-> ""])
        /\ AttemptColumn' = Store!Inserted(j, AttemptColumn, [f \in Fragment |-> 0])
        /\ AttemptRows' = Store!Inserted(j, AttemptRows, [f \in Fragment |-> {}])
        /\ ReviewRows' = Store!Inserted(j, ReviewRows, [f \in Fragment |-> {}])
    BY <1>7, FreshColumns
  <2> QED
    BY <2>1, <2>2, <2>3 DEF Store!FreshRows
<1>15. JobStatusColumn[j] = "absent"
       /\ JobStatusColumn' = [JobStatusColumn EXCEPT ![j] = "queued"]
  BY <1>2, <1>5, <1>6 DEF JobStatusColumn
<1> QED
  BY <1>9, <1>10, <1>11, <1>12, <1>13, <1>14, <1>15
  DEF Store!CreateJob, MapsInv, RecordsInv

LEMMA DeleteJobStep ==
    ASSUME MapsInv, NEW j \in Job, DeleteJob(j)
    PROVE  MapsInv' /\ Store!DeleteJob(j)
<1>1. Range(Catalog[j]) = Store!FragmentsOf(j)
  BY CatalogAssumption DEF Store!FragmentsOf
<1>2. /\ j \in DOMAIN jobs
      /\ jobs[j].fragmentIDs = Catalog[j]
      /\ jobs' = Removed(jobs, {j})
      /\ latest' = [latest EXCEPT ![BookOf[j]] = IF @ = j THEN NoJob ELSE @]
      /\ rewrites' = rewrites
  BY DEF DeleteJob, MapsInv, RecordsInv, RecordsLinked
<1>3. fragments' = Removed(fragments, Store!FragmentsOf(j))
  BY <1>1, <1>2 DEF DeleteJob
<1>4. /\ DOMAIN jobs' = DOMAIN jobs \ {j}
      /\ \A i \in DOMAIN jobs' : jobs'[i] = jobs[i]
  BY <1>2 DEF Removed, Restrict
<1>5. /\ DOMAIN fragments' = DOMAIN fragments \ Store!FragmentsOf(j)
      /\ \A f \in DOMAIN fragments' : fragments'[f] = fragments[f]
  BY <1>3 DEF Removed, Restrict
<1>6. /\ DOMAIN jobs \subseteq Job /\ \A i \in DOMAIN jobs : jobs[i] \in JobRecord
      /\ DOMAIN fragments \subseteq Fragment
      /\ \A f \in DOMAIN fragments : fragments[f] \in FragmentRecord
      /\ latest \in [Book -> Job \cup {NoJob}]
  BY DEF MapsInv, RecordsInv, MapTypes, IsMap
<1>7. MapTypes'
  <2>1. IsMap(jobs', Job, JobRecord)
    <3>1. jobs' = [i \in DOMAIN jobs' |-> jobs'[i]]
      BY <1>2 DEF Removed, Restrict
    <3> QED
      BY <1>4, <1>6, <3>1 DEF IsMap
  <2>2. IsMap(fragments', Fragment, FragmentRecord)
    <3>1. fragments' = [f \in DOMAIN fragments' |-> fragments'[f]]
      BY <1>3 DEF Removed, Restrict
    <3> QED
      BY <1>5, <1>6, <3>1 DEF IsMap
  <2> QED
    BY <1>2, <1>6, <2>1, <2>2 DEF MapTypes
<1>8. RecordsLinked'
  <2>1. \A f \in Fragment : f \in DOMAIN fragments' <=> JobOf[f] \in DOMAIN jobs'
    BY <1>4, <1>5 DEF MapsInv, RecordsInv, RecordsLinked, Store!FragmentsOf
  <2>2. \A f \in DOMAIN fragments' : fragments'[f].job = JobOf[f]
    BY <1>5 DEF MapsInv, RecordsInv, RecordsLinked
  <2>3. \A i \in DOMAIN jobs' : jobs'[i].fragmentIDs = Catalog[i]
    BY <1>4 DEF MapsInv, RecordsInv, RecordsLinked
  <2>4. ASSUME NEW b \in Book, latest'[b] # NoJob
        PROVE  latest'[b] \in DOMAIN jobs' /\ BookOf[latest'[b]] = b
    <3>1. latest'[b] = latest[b]
      BY <1>2, <1>6, <2>4
    <3>2. latest[b] \in DOMAIN jobs /\ BookOf[latest[b]] = b
      BY <2>4, <3>1 DEF MapsInv, RecordsInv, RecordsLinked
    <3>3. latest[b] # j
      BY <1>2, <1>6, <2>4, <3>1, <3>2
    <3> QED
      BY <1>4, <3>1, <3>2, <3>3
  <2> QED
    BY <2>1, <2>2, <2>3, <2>4 DEF RecordsLinked
<1>9. RecordsFit'
  <2>1. \A f \in DOMAIN fragments' : RecordFits(fragments'[f])
    BY <1>5 DEF MapsInv, RecordsInv, RecordsFit
  <2> QED
    BY <2>1 DEF RecordsFit, RecordFits, HistoryFits
<1>10. FinalIsHonest'
  BY <1>4, <1>5, OthersHonest DEF MapsInv, RecordsInv
<1>11. RewritesFit'
  BY <1>2 DEF MapsInv, RewritesFit, Unfinished, IsMap
<1>12. Store!FreshRows(j)
  <2>1. CountColumns' = [CountColumns EXCEPT
                            ![j] = Store!CountsOf(j, [f \in Fragment |-> "pending"])]
    BY <1>2, <1>4, FreshCounts DEF CountColumns
  <2>2. RewritingRows' = [RewritingRows EXCEPT ![j] = {}]
    <3>1. \A r : Unfinished(r)' = Unfinished(r)
      BY <1>2 DEF Unfinished
    <3> QED
      BY <1>2, <1>4, <3>1 DEF RewritingRows
  <2>3. /\ StatusColumn' = Store!Inserted(j, StatusColumn, [f \in Fragment |-> "pending"])
        /\ TextColumn' = Store!Inserted(j, TextColumn, Source)
        /\ RevisionRows' = Store!Inserted(j, RevisionRows,
                                          [f \in Fragment |-> <<Source[f]>>])
        /\ AudioColumn' = Store!Inserted(j, AudioColumn, [f \in Fragment |-> NoAudio])
        /\ CodeColumn' = Store!Inserted(j, CodeColumn, [f \in Fragment |-> ""])
        /\ AttemptColumn' = Store!Inserted(j, AttemptColumn, [f \in Fragment |-> 0])
        /\ AttemptRows' = Store!Inserted(j, AttemptRows, [f \in Fragment |-> {}])
        /\ ReviewRows' = Store!Inserted(j, ReviewRows, [f \in Fragment |-> {}])
    BY <1>5, FreshColumns
  <2> QED
    BY <2>1, <2>2, <2>3 DEF Store!FreshRows
<1>13. JobStatusColumn' = [JobStatusColumn EXCEPT ![j] = "absent"]
  BY <1>4 DEF JobStatusColumn
<1> QED
  BY <1>7, <1>8, <1>9, <1>10, <1>11, <1>12, <1>13
  DEF Store!DeleteJob, MapsInv, RecordsInv

\* The methods on jobs and their retries.
LEMMA StartTaskStep ==
    ASSUME MapsInv, NEW j \in Job, StartTask(j)
    PROVE  MapsInv' /\ Store!StartTask(j)
<1>1. /\ j \in DOMAIN jobs /\ jobs' = [jobs EXCEPT ![j].status = "running"]
      /\ UNCHANGED <<latest, fragments, rewrites>>
  BY DEF StartTask
<1>2. DOMAIN jobs \subseteq Job /\ jobs \in [DOMAIN jobs -> JobRecord]
  BY DEF MapsInv, RecordsInv, MapTypes, IsMap
<1>3. PICK r : r = [jobs[j] EXCEPT !.status = "running"]
  OBVIOUS
<1>4. /\ r \in JobRecord /\ r.status = "running"
      /\ r.fragmentIDs = jobs[j].fragmentIDs /\ r.pending = jobs[j].pending
      /\ r.ready = jobs[j].ready /\ r.warnings = jobs[j].warnings
      /\ r.failed = jobs[j].failed
  BY <1>1, <1>2, <1>3 DEF JobRecord, JobStatus, ActiveStatus
<1>5. jobs' = [jobs EXCEPT ![j] = r]
  BY <1>1, <1>2, <1>3 DEF JobRecord
<1>6. /\ DOMAIN jobs' = DOMAIN jobs /\ jobs'[j] = r
      /\ \A i \in DOMAIN jobs \ {j} : jobs'[i] = jobs[i]
  BY <1>1, <1>5
<1>7. MapTypes'
  <2>1. IsMap(jobs', Job, JobRecord)
    BY <1>1, <1>2, <1>4, <1>5 DEF IsMap
  <2> QED
    BY <1>1, <2>1 DEF MapsInv, RecordsInv, MapTypes
<1>8. RecordsLinked'
  BY <1>1, <1>4, <1>6 DEF MapsInv, RecordsInv, RecordsLinked
<1>9. RecordsFit'
  BY <1>1 DEF MapsInv, RecordsInv, RecordsFit, RecordFits, HistoryFits
<1>10. RowsSame
  BY <1>1, SameRecords
<1>11. FinalIsHonest'
  <2>1. \A i \in DOMAIN jobs' : \/ i \in DOMAIN jobs \ {j} /\ jobs'[i] = jobs[i]
                                \/ jobs'[i].status \in ActiveStatus
    BY <1>4, <1>6 DEF ActiveStatus
  <2> QED
    BY <1>1, <2>1, OthersHonest DEF MapsInv, RecordsInv
<1>12. RewritesFit' /\ RewritingRows' = RewritingRows
  BY <1>1, <1>6, SameRewrites DEF MapsInv
<1>13. /\ JobStatusColumn[j] # "absent"
       /\ JobStatusColumn' = [JobStatusColumn EXCEPT ![j] = "running"]
       /\ CountColumns' = CountColumns
  <2>1. j \in Job /\ jobs[j].status # "absent"
    BY <1>1, <1>2 DEF JobRecord, JobStatus, ActiveStatus
  <2>2. JobStatusColumn' = [JobStatusColumn EXCEPT ![j] = "running"]
    <3>1. \A i \in Job : JobStatusColumn'[i] =
             IF i = j THEN "running" ELSE JobStatusColumn[i]
      BY <1>1, <1>4, <1>6 DEF JobStatusColumn
    <3> QED
      BY <2>1, <3>1 DEF JobStatusColumn
  <2>3. CountColumns' = CountColumns
    <3>1. \A i \in DOMAIN jobs :
             /\ jobs'[i].pending = jobs[i].pending
             /\ jobs'[i].ready = jobs[i].ready
             /\ jobs'[i].warnings = jobs[i].warnings
             /\ jobs'[i].failed = jobs[i].failed
      BY <1>1, <1>4, <1>6
    <3> QED
      BY <1>6, <3>1 DEF CountColumns
  <2> QED
    BY <1>1, <2>1, <2>2, <2>3 DEF JobStatusColumn
<1> QED
  BY <1>7, <1>8, <1>9, <1>10, <1>11, <1>12, <1>13
  DEF Store!StartTask, RowsSame, MapsInv, RecordsInv

\* A job that is there shows a status.
LEMMA JobHere ==
    ASSUME RecordsInv, NEW j \in DOMAIN jobs
    PROVE  /\ j \in Job /\ jobs[j] \in JobRecord
           /\ JobStatusColumn[j] = jobs[j].status /\ JobStatusColumn[j] # "absent"
           /\ \A f \in Store!FragmentsOf(j) : f \in Fragment /\ f \in DOMAIN fragments
           /\ Range(Catalog[j]) = Store!FragmentsOf(j)
BY CatalogAssumption
DEF RecordsInv, MapTypes, IsMap, RecordsLinked, JobStatusColumn, JobRecord, JobStatus,
    ActiveStatus, Store!FragmentsOf

LEMMA FinishTaskStep ==
    ASSUME MapsInv, NEW j \in Job, FinishTask(j)
    PROVE  MapsInv' /\ Store!FinishTask(j)
<1>1. /\ j \in DOMAIN jobs /\ jobs' = JobsAfter(j, fragments')
      /\ UNCHANGED <<latest, fragments, rewrites>>
  BY DEF FinishTask
<1>2. PICK final : final = Store!StatusFor(j, StatusColumn')
  OBVIOUS
<1>3. final \in JobStatus
  BY <1>2 DEF Store!StatusFor, JobStatus, ActiveStatus
<1>4. /\ IsMap(fragments', Fragment, FragmentRecord)
      /\ DOMAIN fragments' = DOMAIN fragments
      /\ \A f \in DOMAIN fragments : /\ fragments'[f].job = JobOf[f]
                                     /\ RecordFits(fragments'[f])
  BY <1>1 DEF MapsInv, RecordsInv, MapTypes, RecordsLinked, RecordsFit
<1>5. jobs' = [JobsAfter(j, fragments') EXCEPT ![j].status = final]
  BY <1>1, <1>2, <1>4, StatusAfter DEF MapsInv, RecordsInv
<1>6. /\ RecordsInv' /\ DOMAIN jobs' = DOMAIN jobs
      /\ Store!RecomputeTo(j, StatusColumn', final)
  BY <1>1, <1>2, <1>3, <1>4, <1>5, Transaction DEF MapsInv
<1>7. RewritesFit' /\ RewritingRows' = RewritingRows
  BY <1>1, <1>6, SameRewrites DEF MapsInv
<1>8. RowsSame /\ JobStatusColumn[j] # "absent"
  BY <1>1, SameRecords, JobHere DEF MapsInv
<1>9. Store!Recompute(j, StatusColumn)
  BY <1>2, <1>6, <1>8 DEF RowsSame, Store!Recompute
<1> QED
  BY <1>6, <1>7, <1>8, <1>9 DEF Store!FinishTask, RowsSame, MapsInv

\* The statuses WithStatus gives the fragments of a job.
LEMMA StatusesGiven ==
    ASSUME MapsInv, NEW j \in DOMAIN jobs, NEW S,
           \A f \in S : f \in DOMAIN fragments /\ JobOf[f] = j,
           NEW st, \A f \in S : st[f] \in {"pending", "warning", "failed"},
           fragments' = WithStatus(S, st)
    PROVE  /\ IsMap(fragments', Fragment, FragmentRecord)
           /\ DOMAIN fragments' = DOMAIN fragments
           /\ \A f \in DOMAIN fragments : /\ fragments'[f].job = JobOf[f]
                                          /\ RecordFits(fragments'[f])
           /\ \A f \in DOMAIN fragments :
                 JobOf[f] # j => fragments'[f] = fragments[f]
           /\ StatusColumn' = [f \in Fragment |-> IF f \in S THEN st[f]
                                                  ELSE StatusColumn[f]]
           /\ UNCHANGED <<TextColumn, RevisionRows, AudioColumn, CodeColumn,
                          AttemptColumn, AttemptRows, ReviewRows>>
<1>1. /\ DOMAIN fragments' = DOMAIN fragments
      /\ fragments' = [f \in DOMAIN fragments |-> fragments'[f]]
      /\ \A f \in DOMAIN fragments :
            fragments'[f] = IF f \in S THEN [fragments[f] EXCEPT !.status = st[f]]
                            ELSE fragments[f]
  BY DEF WithStatus
<1>2. ASSUME NEW f \in DOMAIN fragments
      PROVE  /\ f \in Fragment /\ fragments[f] \in FragmentRecord
             /\ RecordFits(fragments[f]) /\ fragments[f].job = JobOf[f]
  BY RowHere DEF MapsInv
<1>3. ASSUME NEW f \in DOMAIN fragments
      PROVE  LET r == fragments'[f]
                 old == fragments[f]
             IN  /\ r \in FragmentRecord /\ r.job = JobOf[f] /\ RecordFits(r)
                 /\ r.status = IF f \in S THEN st[f] ELSE old.status
                 /\ r.text = old.text /\ r.revisions = old.revisions
                 /\ r.audio = old.audio /\ r.code = old.code
                 /\ r.attempt = old.attempt /\ r.history = old.history
                 /\ r.reviews = old.reviews
  <2>1. PICK r : r = fragments'[f]
    OBVIOUS
  <2>2. PICK old : old = fragments[f]
    OBVIOUS
  <2>3. old \in FragmentRecord /\ RecordFits(old) /\ old.job = JobOf[f]
    BY <1>2, <2>2
  <2>4. CASE f \in S
    <3>1. r = [old EXCEPT !.status = st[f]]
      BY <1>1, <2>1, <2>2, <2>4
    <3>2. st[f] \in {"pending", "warning", "failed"} /\ st[f] \in FragmentStatus
      BY <2>4 DEF FragmentStatus
    <3>3. /\ r \in FragmentRecord /\ r.job = JobOf[f] /\ r.status = st[f]
          /\ r.text = old.text /\ r.revisions = old.revisions
          /\ r.audio = old.audio /\ r.code = old.code
          /\ r.attempt = old.attempt /\ r.history = old.history
          /\ r.reviews = old.reviews
      BY <2>3, <3>1, <3>2 DEF FragmentRecord
    <3>4. RecordFits(r)
      BY <2>3, <3>2, <3>3 DEF RecordFits, HistoryFits
    <3> QED
      BY <2>1, <2>2, <2>4, <3>3, <3>4
  <2>5. CASE f \notin S
    BY <1>1, <2>1, <2>2, <2>3, <2>5
  <2> QED
    BY <2>4, <2>5
<1>4. IsMap(fragments', Fragment, FragmentRecord)
  BY <1>1, <1>2, <1>3 DEF IsMap
<1>5. StatusColumn' = [f \in Fragment |-> IF f \in S THEN st[f] ELSE StatusColumn[f]]
  BY <1>1, <1>3 DEF StatusColumn, Row
<1>6. UNCHANGED <<TextColumn, RevisionRows, AudioColumn, CodeColumn, AttemptColumn>>
  BY <1>1, <1>3 DEF TextColumn, RevisionRows, AudioColumn, CodeColumn, AttemptColumn, Row
<1>7. UNCHANGED <<AttemptRows, ReviewRows>>
  <2>1. \A f \in Fragment : Row(f, "history", <<>>)' = Row(f, "history", <<>>)
    BY <1>1, <1>3 DEF Row
  <2>2. \A f \in Fragment : Row(f, "reviews", <<>>)' = Row(f, "reviews", <<>>)
    BY <1>1, <1>3 DEF Row
  <2> QED
    BY <2>1, <2>2 DEF AttemptRows, ReviewRows
<1>8. \A f \in DOMAIN fragments : JobOf[f] # j => fragments'[f] = fragments[f]
  BY <1>1
<1> QED
  BY <1>1, <1>3, <1>4, <1>5, <1>6, <1>7, <1>8

\* A job without an active rewrite task has no fragment to rewrite.
LEMMA NoneUnfinished ==
    ASSUME RewritesFit, NEW j, ~HasActiveRewrite(j)
    PROVE  \A r \in DOMAIN rewrites : rewrites[r].job = j => Unfinished(r) = {}
BY DEF RewritesFit, HasActiveRewrite

LEMMA PrepareRetryStep ==
    ASSUME MapsInv, NEW j \in Job, NEW S, PrepareRetry(j, S)
    PROVE  MapsInv' /\ Store!PrepareRetry(j, S)
<1>1. /\ j \in DOMAIN jobs /\ jobs[j].status \notin ActiveStatus
      /\ S # {} /\ ~HasActiveRewrite(j)
      /\ \A f \in S : /\ f \in DOMAIN fragments /\ fragments[f].job = j
                      /\ fragments[f].status \in Retryable
      /\ fragments' = WithStatus(S, [f \in S |-> "pending"])
      /\ jobs' = [JobsAfter(j, fragments') EXCEPT ![j].status = "queued"]
      /\ UNCHANGED <<latest, rewrites>>
  BY DEF PrepareRetry
<1>2. PICK st : st = [f \in S |-> "pending"]
  OBVIOUS
<1>3. fragments' = WithStatus(S, st)
  BY <1>1, <1>2
<1>4. \A f \in S : /\ f \in DOMAIN fragments /\ JobOf[f] = j
                   /\ st[f] \in {"pending", "warning", "failed"}
  BY <1>1, <1>2 DEF MapsInv, RecordsInv, RecordsLinked
<1>5. /\ IsMap(fragments', Fragment, FragmentRecord)
      /\ DOMAIN fragments' = DOMAIN fragments
      /\ \A f \in DOMAIN fragments : /\ fragments'[f].job = JobOf[f]
                                     /\ RecordFits(fragments'[f])
      /\ \A f \in DOMAIN fragments :
            JobOf[f] # j => fragments'[f] = fragments[f]
      /\ StatusColumn' = [f \in Fragment |-> IF f \in S THEN st[f] ELSE StatusColumn[f]]
      /\ UNCHANGED <<TextColumn, RevisionRows, AudioColumn, CodeColumn,
                     AttemptColumn, AttemptRows, ReviewRows>>
  BY <1>3, <1>1, <1>4, StatusesGiven
<1>6. "queued" \in JobStatus /\ "queued" \in ActiveStatus
  BY DEF JobStatus, ActiveStatus
<1>7. /\ RecordsInv' /\ DOMAIN jobs' = DOMAIN jobs
      /\ Store!RecomputeTo(j, StatusColumn', "queued")
  BY <1>1, <1>5, <1>6, Transaction DEF MapsInv
<1>8. RewritesFit' /\ RewritingRows' = RewritingRows
  BY <1>1, <1>7, SameRewrites DEF MapsInv
<1>9. RewritingRows[j] = {}
  <2>1. \A r \in DOMAIN rewrites : rewrites[r].job = j => Unfinished(r) = {}
    BY <1>1, NoneUnfinished DEF MapsInv
  <2> QED
    BY <2>1 DEF RewritingRows
<1>10. JobStatusColumn[j] # "absent" /\ ~Store!Active(j)
  BY <1>1, JobHere DEF MapsInv, Store!Active, ActiveStatus
<1>11. S \subseteq Store!FragmentsOf(j) /\ \A f \in S : StatusColumn[f] \in Store!Retryable
  BY <1>1, <1>4, RowHere DEF MapsInv, RowIs, Retryable, Store!Retryable, Store!FragmentsOf
<1>12. StatusColumn' = [f \in Fragment |-> IF f \in S THEN "pending" ELSE StatusColumn[f]]
  BY <1>2, <1>5
<1> QED
  BY <1>1, <1>5, <1>7, <1>8, <1>9, <1>10, <1>11, <1>12 DEF Store!PrepareRetry, MapsInv

LEMMA CancelRetryStep ==
    ASSUME MapsInv, NEW j \in Job, NEW S \in SUBSET Store!FragmentsOf(j),
           NEW previous \in [S -> Retryable], CancelRetry(j, previous)
    PROVE  MapsInv' /\ Store!CancelRetry(j, previous)
<1>1. PICK P : P = {f \in DOMAIN previous \cap DOMAIN fragments :
                       fragments[f].status = "pending"}
  OBVIOUS
<1>2. /\ j \in DOMAIN jobs
      /\ fragments' = WithStatus(P, previous)
      /\ jobs' = JobsAfter(j, fragments')
      /\ UNCHANGED <<latest, rewrites>>
  BY <1>1 DEF CancelRetry
<1>3. \A f \in P : /\ f \in DOMAIN fragments /\ JobOf[f] = j
                   /\ previous[f] \in {"pending", "warning", "failed"}
  BY <1>1 DEF Retryable, Store!FragmentsOf
<1>4. /\ IsMap(fragments', Fragment, FragmentRecord)
      /\ DOMAIN fragments' = DOMAIN fragments
      /\ \A f \in DOMAIN fragments : /\ fragments'[f].job = JobOf[f]
                                     /\ RecordFits(fragments'[f])
      /\ \A f \in DOMAIN fragments :
            JobOf[f] # j => fragments'[f] = fragments[f]
      /\ StatusColumn' = [f \in Fragment |-> IF f \in P THEN previous[f]
                                             ELSE StatusColumn[f]]
      /\ UNCHANGED <<TextColumn, RevisionRows, AudioColumn, CodeColumn,
                     AttemptColumn, AttemptRows, ReviewRows>>
  BY <1>2, <1>3, StatusesGiven
<1>5. PICK final : final = Store!StatusFor(j, StatusColumn')
  OBVIOUS
<1>6. final \in JobStatus
  BY <1>5 DEF Store!StatusFor, JobStatus, ActiveStatus
<1>7. jobs' = [JobsAfter(j, fragments') EXCEPT ![j].status = final]
  BY <1>2, <1>4, <1>5, StatusAfter DEF MapsInv, RecordsInv
<1>8. /\ RecordsInv' /\ DOMAIN jobs' = DOMAIN jobs
      /\ Store!RecomputeTo(j, StatusColumn', final)
  BY <1>2, <1>4, <1>5, <1>6, <1>7, Transaction DEF MapsInv
<1>9. RewritesFit' /\ RewritingRows' = RewritingRows
  BY <1>2, <1>8, SameRewrites DEF MapsInv
<1>10. JobStatusColumn[j] # "absent"
  BY <1>2, JobHere DEF MapsInv
<1>11. \A f \in Fragment : f \in P <=> /\ f \in DOMAIN previous /\ JobOf[f] = j
                                       /\ StatusColumn[f] = "pending"
  <2>1. ASSUME NEW f \in Fragment, f \in DOMAIN previous
        PROVE  /\ JobOf[f] = j /\ f \in DOMAIN fragments
               /\ StatusColumn[f] = fragments[f].status
    <3>1. f \in Store!FragmentsOf(j)
      BY <2>1
    <3>2. JobOf[f] = j /\ f \in DOMAIN fragments
      BY <1>2, <3>1, JobHere DEF MapsInv, Store!FragmentsOf
    <3> QED
      BY <3>2, RowHere DEF MapsInv, RowIs
  <2> QED
    BY <1>1, <2>1
<1>12. StatusColumn' = [f \in Fragment |->
                          IF /\ f \in DOMAIN previous /\ JobOf[f] = j
                             /\ StatusColumn[f] = "pending"
                          THEN previous[f] ELSE StatusColumn[f]]
  BY <1>4, <1>11
<1>13. Store!Recompute(j, StatusColumn')
  BY <1>5, <1>8 DEF Store!Recompute
<1> QED
  BY <1>4, <1>8, <1>9, <1>10, <1>12, <1>13 DEF Store!CancelRetry, MapsInv

-----------------------------------------------------------------------------
(* Rewrite tasks.                                                          *)

\* The tables when only the rewrite tasks have changed.
LEMMA RecordsSame ==
    ASSUME RecordsInv, UNCHANGED <<latest, jobs, fragments>>
    PROVE  /\ RecordsInv' /\ RowsSame
           /\ JobStatusColumn' = JobStatusColumn /\ CountColumns' = CountColumns
<1>1. RowsSame
  BY SameRecords
<1>2. FinalIsHonest'
  BY <1>1 DEF RecordsInv, FinalIsHonest, RowsSame
<1>3. MapTypes' /\ RecordsLinked' /\ RecordsFit'
  BY DEF RecordsInv, MapTypes, RecordsLinked, RecordsFit, RecordFits, HistoryFits, IsMap
<1> QED
  BY <1>1, <1>2, <1>3 DEF RecordsInv, JobStatusColumn, CountColumns

\* The fragments a task has still to rewrite.
Open(w) == {f \in DOMAIN w.child : w.child[f] \in {"queued", "running"}}

\* The record of a task is active while it has some.
TaskFits(w) ==
    /\ w \in RewriteRecord
    /\ DOMAIN w.child \subseteq Store!FragmentsOf(w.job)
    /\ Open(w) # {} => w.status \in ActiveStatus

\* A task whose record changes, of a job that no other open task is about.
LEMMA TaskChanges ==
    ASSUME RewritesFit, NEW r \in DOMAIN rewrites, NEW w, TaskFits(w),
           w.job = rewrites[r].job, Open(w) \subseteq Unfinished(r),
           rewrites' = [rewrites EXCEPT ![r] = w]
    PROVE  /\ RewritesFit'
           /\ Unfinished(r)' = Open(w)
           /\ \A s \in DOMAIN rewrites \ {r} : Unfinished(s)' = Unfinished(s)
<1>1. IsMap(rewrites, Rewrite, RewriteRecord)
  BY DEF RewritesFit
<1>2. /\ DOMAIN rewrites' = DOMAIN rewrites /\ rewrites'[r] = w
      /\ \A s \in DOMAIN rewrites \ {r} : rewrites'[s] = rewrites[s]
  BY <1>1 DEF IsMap
<1>3. IsMap(rewrites', Rewrite, RewriteRecord)
  BY <1>1 DEF IsMap, TaskFits
<1>4. /\ Unfinished(r)' = Open(w)
      /\ \A s \in DOMAIN rewrites \ {r} : Unfinished(s)' = Unfinished(s)
  BY <1>2 DEF Unfinished, Open
<1>5. ASSUME NEW s \in DOMAIN rewrites
      PROVE  /\ DOMAIN rewrites'[s].child \subseteq Store!FragmentsOf(rewrites'[s].job)
             /\ Unfinished(s)' # {} => rewrites'[s].status \in ActiveStatus
  BY <1>2, <1>4 DEF RewritesFit, TaskFits
<1>6. ASSUME NEW s \in DOMAIN rewrites, NEW t \in DOMAIN rewrites, s # t,
             rewrites'[s].job = rewrites'[t].job
      PROVE  Unfinished(s)' = {} \/ Unfinished(t)' = {}
  <2>1. rewrites[s].job = rewrites[t].job
    BY <1>2, <1>6
  <2>2. Unfinished(s) = {} \/ Unfinished(t) = {}
    BY <1>6, <2>1 DEF RewritesFit
  <2>3. Unfinished(s)' \subseteq Unfinished(s) /\ Unfinished(t)' \subseteq Unfinished(t)
    BY <1>4
  <2> QED
    BY <2>2, <2>3
<1> QED
  BY <1>2, <1>3, <1>4, <1>5, <1>6 DEF RewritesFit

\* The rows of the job that an open task has still to rewrite.
LEMMA OpenRows ==
    ASSUME RewritesFit, NEW r \in DOMAIN rewrites, rewrites[r].job \in DOMAIN jobs,
           Unfinished(r) # {}, rewrites[r].job \in Job
    PROVE  RewritingRows[rewrites[r].job] = Unfinished(r)
<1>1. \A s \in DOMAIN rewrites : s # r /\ rewrites[s].job = rewrites[r].job
         => Unfinished(s) = {}
  BY DEF RewritesFit
<1> QED
  BY <1>1 DEF RewritingRows

\* One fragment fewer is unfinished, or none.
LEMMA RowsAfter ==
    ASSUME RewritesFit, NEW r \in DOMAIN rewrites, rewrites[r].job \in Job,
           NEW F, F \subseteq Unfinished(r), DOMAIN jobs' = DOMAIN jobs,
           DOMAIN rewrites' = DOMAIN rewrites,
           \A s \in DOMAIN rewrites : rewrites'[s].job = rewrites[s].job,
           Unfinished(r)' = Unfinished(r) \ F,
           \A s \in DOMAIN rewrites \ {r} : Unfinished(s)' = Unfinished(s)
    PROVE  RewritingRows' =
             IF rewrites[r].job \in DOMAIN jobs
             THEN [RewritingRows EXCEPT ![rewrites[r].job] = @ \ F]
             ELSE RewritingRows
<1>1. PICK j : j = rewrites[r].job
  OBVIOUS
<1>2. PICK U : U = [s \in DOMAIN rewrites |-> Unfinished(s)]
  OBVIOUS
<1>3. PICK V : V = [s \in DOMAIN rewrites |-> Unfinished(s)']
  OBVIOUS
<1>4. PICK Of : Of = [i \in Job |-> {s \in DOMAIN rewrites : rewrites[s].job = i}]
  OBVIOUS
<1>5. /\ j \in Job /\ r \in Of[j] /\ F \subseteq U[r] /\ V[r] = U[r] \ F
      /\ \A s \in DOMAIN rewrites \ {r} : V[s] = U[s]
      /\ \A i \in Job : Of[i] \subseteq DOMAIN rewrites
      /\ \A i \in Job \ {j} : r \notin Of[i]
  BY <1>1, <1>2, <1>3, <1>4
<1>6. \A s \in Of[j] : s # r => U[s] = {} \/ U[r] = {}
  BY <1>1, <1>2, <1>4 DEF RewritesFit
<1>7. PICK Old : Old = RewritingRows
  OBVIOUS
<1>8. PICK New : New = RewritingRows'
  OBVIOUS
<1>9. Old = [i \in Job |-> IF i \in DOMAIN jobs
                           THEN UNION {U[s] : s \in Of[i]} ELSE {}]
  <2>1. \A i \in Job : {s \in DOMAIN rewrites : rewrites[s].job = i} = Of[i]
    BY <1>4
  <2>2. \A i \in Job : {Unfinished(s) : s \in Of[i]} = {U[s] : s \in Of[i]}
    BY <1>2, <1>5
  <2> QED
    BY <1>7, <2>1, <2>2 DEF RewritingRows
<1>10. New = [i \in Job |-> IF i \in DOMAIN jobs
                            THEN UNION {V[s] : s \in Of[i]} ELSE {}]
  <2>1. \A i \in Job : {s \in DOMAIN rewrites' : rewrites'[s].job = i} = Of[i]
    BY <1>4
  <2>2. \A i \in Job : {Unfinished(s)' : s \in Of[i]} = {V[s] : s \in Of[i]}
    BY <1>3, <1>5
  <2> QED
    BY <1>8, <2>1, <2>2 DEF RewritingRows
<1>11. PICK A : A = [i \in Job |-> UNION {U[s] : s \in Of[i]}]
  OBVIOUS
<1>12. PICK B : B = [i \in Job |-> UNION {V[s] : s \in Of[i]}]
  OBVIOUS
<1>13. /\ \A i \in Job : \A x : x \in A[i] <=> \E s \in Of[i] : x \in U[s]
       /\ \A i \in Job : \A x : x \in B[i] <=> \E s \in Of[i] : x \in V[s]
  BY <1>11, <1>12
<1>14. \A x : x \in B[j] <=> x \in A[j] /\ x \notin F
  <2>1. CASE U[r] = {}
    BY <1>5, <1>13, <2>1
  <2>2. CASE U[r] # {}
    <3>1. \A s \in Of[j] : s # r => U[s] = {} /\ V[s] = {}
      BY <1>5, <1>6, <2>2
    <3>2. \A x : x \in A[j] <=> x \in U[r]
      BY <1>5, <1>13, <3>1
    <3>3. \A x : x \in B[j] <=> x \in V[r]
      BY <1>5, <1>13, <3>1
    <3> QED
      BY <1>5, <3>2, <3>3
  <2> QED
    BY <2>1, <2>2
<1>15. B[j] = A[j] \ F
  BY <1>14
<1>16. \A i \in Job \ {j} : B[i] = A[i]
  <2> SUFFICES ASSUME NEW i \in Job \ {j} PROVE B[i] = A[i]
    OBVIOUS
  <2>1. {U[s] : s \in Of[i]} = {V[s] : s \in Of[i]}
    BY <1>5
  <2> QED
    BY <1>11, <1>12, <2>1
<1>17. /\ Old = [i \in Job |-> IF i \in DOMAIN jobs THEN A[i] ELSE {}]
       /\ New = [i \in Job |-> IF i \in DOMAIN jobs THEN B[i] ELSE {}]
  BY <1>9, <1>10, <1>11, <1>12
<1>18. New = IF j \in DOMAIN jobs THEN [Old EXCEPT ![j] = @ \ F] ELSE Old
  BY <1>5, <1>15, <1>16, <1>17
<1> QED
  BY <1>1, <1>7, <1>8, <1>18

\* A recomputed task is active while a child is unfinished.
LEMMA RecomputedTask ==
    ASSUME NEW w \in RewriteRecord, DOMAIN w.child \subseteq Store!FragmentsOf(w.job),
           NEW v, v = RecomputeMemoryRewriteTask(w)
    PROVE  TaskFits(v) /\ v.job = w.job /\ v.child = w.child
<1>1. PICK st : v = [w EXCEPT !.status = st]
        /\ st \in {"running", "failed", "completed_with_errors", "completed"}
        /\ (Open(w) # {} => st = "running")
  <2> DEFINE In(S) == Children(w.child, S)
             st == CASE In({"queued", "running"}) # {} -> "running"
                     [] /\ In({"queued", "running"}) = {}
                        /\ In({"failed"}) = DOMAIN w.child -> "failed"
                     [] /\ In({"queued", "running"}) = {}
                        /\ In({"failed"}) \notin {{}, DOMAIN w.child}
                            -> "completed_with_errors"
                     [] OTHER -> "completed"
  <2>1. v = [w EXCEPT !.status = st]
    BY DEF RecomputeMemoryRewriteTask
  <2>2. Open(w) = In({"queued", "running"})
    BY DEF Open, Children
  <2>3. st \in {"running", "failed", "completed_with_errors", "completed"}
    OBVIOUS
  <2>4. Open(w) # {} => st = "running"
    BY <2>2
  <2> HIDE DEF st
  <2> QED
    BY <2>1, <2>3, <2>4
<1>2. v \in RewriteRecord /\ v.status = st /\ v.job = w.job /\ v.child = w.child
  BY <1>1 DEF RewriteRecord, JobStatus, ActiveStatus
<1> QED
  BY <1>1, <1>2 DEF TaskFits, Open, ActiveStatus

\* What a record of a child becomes.
LEMMA ChildSet ==
    ASSUME NEW w \in RewriteRecord, NEW f \in DOMAIN w.child, NEW st \in ChildStatus,
           NEW c, c = [w.child EXCEPT ![f] = st], NEW v, v = [w EXCEPT !.child = c]
    PROVE  /\ v \in RewriteRecord /\ v.job = w.job /\ v.status = w.status
           /\ DOMAIN v.child = DOMAIN w.child
           /\ st \in {"queued", "running"} => Open(v) = Open(w) \cup {f}
           /\ st \notin {"queued", "running"} => Open(v) = Open(w) \ {f}
<1>1. PICK S \in SUBSET Fragment : w.child \in [S -> ChildStatus]
  BY DEF RewriteRecord
<1>2. c \in [S -> ChildStatus]
  BY <1>1
<1>3. v \in RewriteRecord /\ v.job = w.job /\ v.status = w.status /\ v.child = c
  BY <1>2 DEF RewriteRecord
<1>4. \A g \in S : c[g] = IF g = f THEN st ELSE w.child[g]
  BY <1>1
<1>5. Open(v) = {g \in S : c[g] \in {"queued", "running"}}
  BY <1>2, <1>3 DEF Open
<1>6. Open(w) = {g \in S : w.child[g] \in {"queued", "running"}}
  BY <1>1 DEF Open
<1>7. st \in {"queued", "running"} => Open(v) = Open(w) \cup {f}
  BY <1>1, <1>4, <1>5, <1>6
<1>8. st \notin {"queued", "running"} => Open(v) = Open(w) \ {f}
  BY <1>1, <1>4, <1>5, <1>6
<1> QED
  BY <1>1, <1>2, <1>3, <1>7, <1>8

\* The children of a task are fragments of its job.
LEMMA TaskHere ==
    ASSUME RewritesFit, NEW r \in DOMAIN rewrites
    PROVE  /\ rewrites[r] \in RewriteRecord /\ rewrites[r].job \in Job
           /\ TaskFits(rewrites[r]) /\ Unfinished(r) = Open(rewrites[r])
           /\ \A f \in DOMAIN rewrites[r].child :
                 /\ f \in Fragment /\ JobOf[f] = rewrites[r].job
                 /\ rewrites[r].child[f] \in ChildStatus
<1>1. rewrites[r] \in RewriteRecord
  BY DEF RewritesFit, IsMap
<1>2. Unfinished(r) = Open(rewrites[r])
  BY DEF Unfinished, Open
<1>3. TaskFits(rewrites[r]) /\ rewrites[r].job \in Job
  BY <1>1, <1>2 DEF RewritesFit, TaskFits, RewriteRecord
<1>4. PICK S \in SUBSET Fragment : rewrites[r].child \in [S -> ChildStatus]
  BY <1>1 DEF RewriteRecord
<1>5. \A f \in DOMAIN rewrites[r].child : f \in Fragment /\ JobOf[f] = rewrites[r].job
  BY <1>3 DEF TaskFits, Store!FragmentsOf
<1> QED
  BY <1>1, <1>2, <1>3, <1>4, <1>5

\* A step of a task which settles the fragments F, if any.
LEMMA TaskStep ==
    ASSUME RewritesFit, NEW r \in DOMAIN rewrites, NEW w, TaskFits(w),
           w.job = rewrites[r].job, NEW F, F \subseteq Unfinished(r),
           Open(w) = Unfinished(r) \ F, DOMAIN jobs' = DOMAIN jobs,
           rewrites' = [rewrites EXCEPT ![r] = w]
    PROVE  /\ RewritesFit'
           /\ RewritingRows' =
                IF rewrites[r].job \in DOMAIN jobs
                THEN [RewritingRows EXCEPT ![rewrites[r].job] = @ \ F]
                ELSE RewritingRows
<1>1. /\ RewritesFit'
      /\ Unfinished(r)' = Unfinished(r) \ F
      /\ \A s \in DOMAIN rewrites \ {r} : Unfinished(s)' = Unfinished(s)
  BY TaskChanges
<1>2. /\ DOMAIN rewrites' = DOMAIN rewrites
      /\ \A s \in DOMAIN rewrites : rewrites'[s].job = rewrites[s].job
  BY DEF RewritesFit, IsMap
<1>3. rewrites[r].job \in Job
  BY TaskHere
<1> QED
  BY <1>1, <1>2, <1>3, RowsAfter

LEMMA RowsFunction == RewritingRows = [j \in Job |-> RewritingRows[j]]
BY DEF RewritingRows

\* A step of a task which settles nothing.
LEMMA QuietTaskStep ==
    ASSUME MapsInv, NEW r \in DOMAIN rewrites, NEW w, TaskFits(w),
           w.job = rewrites[r].job, Open(w) = Unfinished(r),
           rewrites' = [rewrites EXCEPT ![r] = w],
           UNCHANGED <<latest, jobs, fragments>>
    PROVE  MapsInv' /\ UNCHANGED Store!storeVars
<1>1. /\ RecordsInv' /\ RowsSame
      /\ JobStatusColumn' = JobStatusColumn /\ CountColumns' = CountColumns
  BY RecordsSame DEF MapsInv
<1>2. PICK F : F = {}
  OBVIOUS
<1>3. /\ RewritesFit'
      /\ RewritingRows' =
           IF rewrites[r].job \in DOMAIN jobs
           THEN [RewritingRows EXCEPT ![rewrites[r].job] = @ \ F]
           ELSE RewritingRows
  <2>1. F \subseteq Unfinished(r) /\ Open(w) = Unfinished(r) \ F
    BY <1>2
  <2> QED
    BY <2>1, TaskStep DEF MapsInv
<1>4. RewritingRows' = RewritingRows
  <2>1. \A j \in Job : RewritingRows[j] \ F = RewritingRows[j]
    BY <1>2
  <2>2. rewrites[r].job \in Job
    BY TaskHere DEF MapsInv
  <2> QED
    BY <1>3, <2>1, <2>2, RowsFunction
<1> QED
  BY <1>1, <1>3, <1>4 DEF MapsInv, RowsSame, Store!storeVars

\* Starting a task or a child, and finishing a task, settle no child: the tables
\* do not show them.
LEMMA StartRewriteTaskStep ==
    ASSUME MapsInv, NEW r \in Rewrite, StartRewriteTask(r)
    PROVE  MapsInv' /\ UNCHANGED Store!storeVars
<1>1. /\ r \in DOMAIN rewrites /\ UNCHANGED <<latest, jobs, fragments>>
      /\ rewrites' = [rewrites EXCEPT ![r].status = "running"]
  BY DEF StartRewriteTask
<1>2. PICK old : old = rewrites[r]
  OBVIOUS
<1>3. old \in RewriteRecord /\ TaskFits(old) /\ Unfinished(r) = Open(old)
  BY <1>1, <1>2, TaskHere DEF MapsInv
<1>4. PICK w : w = [old EXCEPT !.status = "running"]
  OBVIOUS
<1>5. /\ w \in RewriteRecord /\ w.job = old.job /\ w.child = old.child
      /\ w.status = "running"
  BY <1>3, <1>4 DEF RewriteRecord, JobStatus, ActiveStatus
<1>6. TaskFits(w) /\ Open(w) = Unfinished(r)
  BY <1>3, <1>5 DEF TaskFits, Open, ActiveStatus
<1>7. rewrites' = [rewrites EXCEPT ![r] = w]
  BY <1>1, <1>2, <1>4
<1> QED
  BY <1>1, <1>2, <1>5, <1>6, <1>7, QuietTaskStep

LEMMA StartRewriteFragmentStep ==
    ASSUME MapsInv, NEW r \in Rewrite, NEW f, StartRewriteFragment(r, f)
    PROVE  MapsInv' /\ UNCHANGED Store!storeVars
<1>1. /\ r \in DOMAIN rewrites /\ UNCHANGED <<latest, jobs, fragments>>
      /\ f \in DOMAIN rewrites[r].child /\ rewrites[r].status = "running"
      /\ rewrites[r].child[f] = "queued"
      /\ rewrites' = [rewrites EXCEPT ![r].child[f] = "running"]
  BY DEF StartRewriteFragment
<1>2. PICK old : old = rewrites[r]
  OBVIOUS
<1>3. old \in RewriteRecord /\ TaskFits(old) /\ Unfinished(r) = Open(old)
  BY <1>1, <1>2, TaskHere DEF MapsInv
<1>4. PICK c : c = [old.child EXCEPT ![f] = "running"]
  OBVIOUS
<1>5. PICK w : w = [old EXCEPT !.child = c]
  OBVIOUS
<1>6. /\ w \in RewriteRecord /\ w.job = old.job /\ w.status = old.status
      /\ DOMAIN w.child = DOMAIN old.child /\ Open(w) = Open(old) \cup {f}
  <2>1. f \in DOMAIN old.child /\ "running" \in ChildStatus
    BY <1>1, <1>2 DEF ChildStatus
  <2>2. /\ w \in RewriteRecord /\ w.job = old.job /\ w.status = old.status
        /\ DOMAIN w.child = DOMAIN old.child
        /\ "running" \in {"queued", "running"} => Open(w) = Open(old) \cup {f}
    BY <1>4, <1>3, <1>5, <2>1, ChildSet
  <2> QED
    BY <2>2
<1>7. f \in Open(old)
  BY <1>1, <1>2 DEF Open
<1>8. TaskFits(w) /\ Open(w) = Unfinished(r)
  BY <1>1, <1>2, <1>3, <1>6, <1>7 DEF TaskFits, ActiveStatus
<1>9. rewrites' = [rewrites EXCEPT ![r] = w]
  BY <1>1, <1>2, <1>3, <1>5, <1>4 DEF RewriteRecord
<1> QED
  BY <1>1, <1>2, <1>6, <1>8, <1>9, QuietTaskStep

LEMMA FinishRewriteTaskStep ==
    ASSUME MapsInv, NEW r \in Rewrite, FinishRewriteTask(r)
    PROVE  MapsInv' /\ UNCHANGED Store!storeVars
<1>1. PICK w : w = RecomputeMemoryRewriteTask(rewrites[r])
  OBVIOUS
<1>2. /\ r \in DOMAIN rewrites /\ UNCHANGED <<latest, jobs, fragments>>
      /\ rewrites' = [rewrites EXCEPT ![r] = w]
  BY <1>1 DEF FinishRewriteTask
<1>3. /\ rewrites[r] \in RewriteRecord /\ TaskFits(rewrites[r])
      /\ Unfinished(r) = Open(rewrites[r])
  BY <1>2, TaskHere DEF MapsInv
<1>4. TaskFits(w) /\ w.job = rewrites[r].job /\ w.child = rewrites[r].child
  BY <1>1, <1>3, RecomputedTask DEF TaskFits
<1>5. Open(w) = Unfinished(r)
  BY <1>3, <1>4 DEF Open
<1> QED
  BY <1>2, <1>4, <1>5, QuietTaskStep

\* The record of a task one of whose open fragments gets status st.
LEMMA WithChildRecord ==
    ASSUME RewritesFit, NEW r \in DOMAIN rewrites,
           NEW f \in DOMAIN rewrites[r].child,
           rewrites[r].child[f] \in {"queued", "running"},
           NEW st \in {"completed", "failed"}, DOMAIN jobs' = DOMAIN jobs,
           rewrites' = WithChild(r, f, st)
    PROVE  /\ RewritesFit' /\ JobOf[f] = rewrites[r].job /\ f \in Fragment
           /\ RewritingRows' = IF JobOf[f] \in DOMAIN jobs
                               THEN [RewritingRows EXCEPT ![JobOf[f]] = @ \ {f}]
                               ELSE RewritingRows
           /\ JobOf[f] \in DOMAIN jobs => f \in RewritingRows[JobOf[f]]
<1>1. PICK old : old = rewrites[r]
  OBVIOUS
<1>2. /\ old \in RewriteRecord /\ TaskFits(old) /\ Unfinished(r) = Open(old)
      /\ old.job \in Job /\ JobOf[f] = old.job /\ f \in Fragment
  BY <1>1, TaskHere
<1>3. PICK c : c = [old.child EXCEPT ![f] = st]
  OBVIOUS
<1>4. PICK v : v = [old EXCEPT !.child = c]
  OBVIOUS
<1>5. /\ v \in RewriteRecord /\ v.job = old.job
      /\ DOMAIN v.child = DOMAIN old.child /\ Open(v) = Open(old) \ {f}
  <2>1. f \in DOMAIN old.child /\ st \in ChildStatus
    BY <1>1 DEF ChildStatus
  <2>2. /\ v \in RewriteRecord /\ v.job = old.job
        /\ DOMAIN v.child = DOMAIN old.child
        /\ st \notin {"queued", "running"} => Open(v) = Open(old) \ {f}
    BY <1>2, <1>4, <1>3, <2>1, ChildSet
  <2> QED
    BY <2>2
<1>6. PICK w : w = RecomputeMemoryRewriteTask(v)
  OBVIOUS
<1>7. TaskFits(w) /\ w.job = v.job /\ w.child = v.child
  BY <1>2, <1>5, <1>6, RecomputedTask DEF TaskFits
<1>8. Open(w) = Unfinished(r) \ {f} /\ f \in Unfinished(r)
  BY <1>1, <1>2, <1>5, <1>7 DEF Open
<1>9. rewrites' = [rewrites EXCEPT ![r] = w]
  <2>1. v = [old EXCEPT !.child[f] = st]
    BY <1>2, <1>4, <1>3 DEF RewriteRecord
  <2> QED
    BY <1>1, <1>6, <2>1 DEF WithChild
<1>10. PICK F : F = {f}
  OBVIOUS
<1>11. /\ RewritesFit'
       /\ RewritingRows' =
            IF rewrites[r].job \in DOMAIN jobs
            THEN [RewritingRows EXCEPT ![rewrites[r].job] = @ \ F]
            ELSE RewritingRows
  <2>1. /\ F \subseteq Unfinished(r) /\ Open(w) = Unfinished(r) \ F
        /\ w.job = rewrites[r].job /\ TaskFits(w)
    BY <1>1, <1>5, <1>7, <1>8, <1>10
  <2> QED
    BY <1>9, <2>1, TaskStep
<1>12. JobOf[f] \in DOMAIN jobs => f \in RewritingRows[JobOf[f]]
  BY <1>1, <1>2, <1>8 DEF RewritingRows
<1> QED
  BY <1>1, <1>2, <1>10, <1>11, <1>12

\* A failed child is one fewer to rewrite; the tables do not show it when the
\* job is gone.
LEMMA FailRewriteFragmentStep ==
    ASSUME MapsInv, NEW r \in Rewrite, NEW f, FailRewriteFragment(r, f)
    PROVE  /\ MapsInv'
           /\ f \in Fragment
           /\ Store!FailRewriteFragment(f) \/ UNCHANGED Store!storeVars
<1>1. /\ r \in DOMAIN rewrites /\ UNCHANGED <<latest, jobs, fragments>>
      /\ f \in DOMAIN rewrites[r].child
      /\ rewrites[r].child[f] \notin {"completed", "failed"}
      /\ rewrites' = WithChild(r, f, "failed")
  BY DEF FailRewriteFragment
<1>2. rewrites[r].child[f] \in {"queued", "running"}
  BY <1>1, TaskHere DEF MapsInv, ChildStatus
<1>3. /\ RewritesFit' /\ f \in Fragment
      /\ RewritingRows' = IF JobOf[f] \in DOMAIN jobs
                          THEN [RewritingRows EXCEPT ![JobOf[f]] = @ \ {f}]
                          ELSE RewritingRows
      /\ JobOf[f] \in DOMAIN jobs => f \in RewritingRows[JobOf[f]]
  BY <1>1, <1>2, WithChildRecord DEF MapsInv
<1>4. /\ RecordsInv' /\ RowsSame
      /\ JobStatusColumn' = JobStatusColumn /\ CountColumns' = CountColumns
  BY <1>1, RecordsSame DEF MapsInv
<1>5. CASE JobOf[f] \in DOMAIN jobs
  BY <1>3, <1>4, <1>5 DEF Store!FailRewriteFragment, RowsSame, MapsInv
<1>6. CASE JobOf[f] \notin DOMAIN jobs
  BY <1>3, <1>4, <1>6 DEF Store!storeVars, RowsSame, MapsInv
<1> QED
  BY <1>5, <1>6

LEMMA CompleteRewriteFragmentStep ==
    ASSUME MapsInv, NEW r \in Rewrite, NEW f, NEW expected, NEW t \in Text,
           CompleteRewriteFragment(r, f, expected, t)
    PROVE  MapsInv' /\ f \in Fragment /\ Store!CompleteRewriteFragment(f, TextColumn[f], t)
<1>1. PICK old : old = fragments[f]
  OBVIOUS
<1>2. /\ r \in DOMAIN rewrites /\ f \in DOMAIN rewrites[r].child
      /\ f \in DOMAIN fragments /\ rewrites[r].child[f] \in {"queued", "running"}
      /\ old.status = "warning" /\ old.text = expected
      /\ rewrites' = WithChild(r, f, "completed") /\ latest' = latest
  BY <1>1 DEF CompleteRewriteFragment
<1>3. /\ old \in FragmentRecord /\ old.job = JobOf[f] /\ RecordFits(old)
      /\ Store!Exists(f) /\ RowIs(f, old) /\ JobOf[f] \in DOMAIN jobs
  BY <1>1, <1>2, RowHere DEF MapsInv
<1>4. StatusColumn[f] = "warning" /\ TextColumn[f] = expected
  BY <1>2, <1>3 DEF RowIs
<1>5. ASSUME DOMAIN jobs' = DOMAIN jobs
      PROVE  /\ RewritesFit' /\ f \in Fragment /\ f \in RewritingRows[JobOf[f]]
             /\ RewritingRows' = [RewritingRows EXCEPT ![JobOf[f]] = @ \ {f}]
  BY <1>2, <1>3, <1>5, WithChildRecord DEF MapsInv
<1>6. CASE t = expected
  <2>1. UNCHANGED <<latest, jobs, fragments>>
    BY <1>2, <1>6 DEF CompleteRewriteFragment
  <2>2. /\ RecordsInv' /\ RowsSame
        /\ JobStatusColumn' = JobStatusColumn /\ CountColumns' = CountColumns
    BY <2>1, RecordsSame DEF MapsInv
  <2> QED
    BY <1>4, <1>5, <1>6, <2>1, <2>2 DEF Store!CompleteRewriteFragment, RowsSame, MapsInv
<1>7. CASE t # expected
  <2>1. PICK w : w = Retexted(old, t, "warning", "text_rewritten")
    OBVIOUS
  <2>2. "text_rewritten" \in Code
    BY DEF Code
  <2>3. /\ w \in FragmentRecord /\ RecordFits(w)
        /\ w.job = JobOf[f] /\ w.status = "warning" /\ w.code = "text_rewritten"
        /\ w.text = t /\ w.revisions = Append(old.revisions, t) /\ w.audio = NoAudio
        /\ w.attempt = old.attempt /\ w.history = old.history /\ w.reviews = old.reviews
    BY <1>3, <2>1, <2>2, RetextedRecord
  <2>4. /\ fragments' = [fragments EXCEPT ![f] = w]
        /\ jobs' = JobsAfter(JobOf[f], fragments')
    BY <1>1, <1>3, <1>7, <2>1 DEF CompleteRewriteFragment
  <2>5. /\ RecordsInv' /\ DOMAIN jobs' = DOMAIN jobs
        /\ Store!Recompute(JobOf[f], StatusColumn')
        /\ RowBecomes(f, w)
    BY <1>2, <2>3, <2>4, ChangeRecordFreely
  <2>6. Store!SetText(f, t) /\ UNCHANGED <<AttemptColumn, AttemptRows, ReviewRows>>
    BY <1>3, <2>3, <2>5, RetextedRow
  <2>7. StatusColumn' = StatusColumn
    BY <1>2, <1>3, <2>3, <2>5, RowKept
  <2> QED
    BY <1>4, <1>5, <1>7, <2>3, <2>5, <2>6, <2>7
    DEF Store!CompleteRewriteFragment, RowBecomes, MapsInv
<1> QED
  BY <1>6, <1>7

\* The fragments in a job's rows are those of its tasks.
LEMMA RowsOfTasks ==
    \A j \in Job : \A f : f \in RewritingRows[j] <=>
        /\ j \in DOMAIN jobs
        /\ \E r \in DOMAIN rewrites : rewrites[r].job = j /\ f \in Unfinished(r)
BY DEF RewritingRows

\* Rows that differ at one job.
LEMMA RowsExtensional ==
    ASSUME NEW j \in Job, NEW F,
           \A f : f \in RewritingRows'[j] <=> f \in F,
           \A i \in Job \ {j} : \A f : f \in RewritingRows'[i] <=> f \in RewritingRows[i]
    PROVE  RewritingRows' = [RewritingRows EXCEPT ![j] = F]
<1>1. PICK Old : Old = RewritingRows
  OBVIOUS
<1>2. PICK New : New = RewritingRows'
  OBVIOUS
<1>3. Old = [i \in Job |-> Old[i]] /\ New = [i \in Job |-> New[i]]
  BY <1>1, <1>2 DEF RewritingRows
<1>4. New[j] = F
  <2>1. \A f : f \in New[j] <=> f \in F
    BY <1>2
  <2> QED
    BY <2>1
<1>5. \A i \in Job \ {j} : New[i] = Old[i]
  <2>1. \A i \in Job \ {j} : \A f : f \in New[i] <=> f \in Old[i]
    BY <1>1, <1>2
  <2> QED
    BY <2>1
<1>6. New = [Old EXCEPT ![j] = F]
  BY <1>3, <1>4, <1>5
<1> QED
  BY <1>1, <1>2, <1>6

LEMMA CreateRewriteTaskStep ==
    ASSUME MapsInv, NEW r \in Rewrite, NEW j \in Job, NEW S, CreateRewriteTask(r, j, S)
    PROVE  MapsInv' /\ Store!CreateRewriteTask(j, S)
<1>1. PICK w : w = [job |-> j, status |-> "queued", child |-> [f \in S |-> "queued"]]
  OBVIOUS
<1>2. /\ j \in DOMAIN jobs /\ jobs[j].status \notin ActiveStatus
      /\ r \notin DOMAIN rewrites /\ ~HasActiveRewrite(j) /\ S # {}
      /\ \A f \in S : /\ f \in DOMAIN fragments /\ fragments[f].job = j
                      /\ fragments[f].status = "warning"
      /\ rewrites' = Added(rewrites, [x \in {r} |-> w])
      /\ UNCHANGED <<latest, jobs, fragments>>
  BY <1>1 DEF CreateRewriteTask
<1>3. \A f \in S : /\ f \in Fragment /\ JobOf[f] = j /\ StatusColumn[f] = "warning"
  BY <1>2, RowHere DEF MapsInv, RowIs
<1>4. S \subseteq Store!FragmentsOf(j) /\ S \in SUBSET Fragment
  BY <1>3 DEF Store!FragmentsOf
<1>5. /\ w.job = j /\ w.status = "queued" /\ w.child = [f \in S |-> "queued"]
      /\ w \in RewriteRecord
  <2>1. [f \in S |-> "queued"] \in [S -> ChildStatus]
    BY DEF ChildStatus
  <2>2. [f \in S |-> "queued"] \in UNION {[T -> ChildStatus] : T \in SUBSET Fragment}
    BY <1>4, <2>1
  <2> QED
    BY <1>1, <2>2 DEF RewriteRecord, JobStatus, ActiveStatus
<1>6. /\ IsMap(rewrites, Rewrite, RewriteRecord)
      /\ DOMAIN rewrites' = DOMAIN rewrites \cup {r} /\ rewrites'[r] = w
      /\ \A s \in DOMAIN rewrites : s # r /\ rewrites'[s] = rewrites[s]
      /\ rewrites' = [s \in DOMAIN rewrites' |-> rewrites'[s]]
  BY <1>2 DEF MapsInv, RewritesFit, Added
<1>7. /\ Unfinished(r)' = S
      /\ \A s \in DOMAIN rewrites : Unfinished(s)' = Unfinished(s)
  BY <1>5, <1>6 DEF Unfinished
<1>8. \A s \in DOMAIN rewrites : rewrites[s].job = j => Unfinished(s) = {}
  BY <1>2, NoneUnfinished DEF MapsInv
<1>9. RewritesFit'
  <2>1. IsMap(rewrites', Rewrite, RewriteRecord)
    BY <1>5, <1>6 DEF IsMap
  <2>2. ASSUME NEW s \in DOMAIN rewrites'
        PROVE  /\ DOMAIN rewrites'[s].child \subseteq Store!FragmentsOf(rewrites'[s].job)
               /\ Unfinished(s)' # {} => rewrites'[s].status \in ActiveStatus
    <3>1. CASE s = r
      BY <1>4, <1>5, <1>6, <3>1 DEF ActiveStatus
    <3>2. CASE s \in DOMAIN rewrites
      BY <1>6, <1>7, <3>2 DEF MapsInv, RewritesFit
    <3> QED
      BY <1>6, <3>1, <3>2
  <2>3. ASSUME NEW s \in DOMAIN rewrites', NEW t \in DOMAIN rewrites', s # t,
               rewrites'[s].job = rewrites'[t].job
        PROVE  Unfinished(s)' = {} \/ Unfinished(t)' = {}
    <3>1. CASE s = r
      <4>1. t \in DOMAIN rewrites /\ rewrites[t].job = j
        BY <1>5, <1>6, <2>3, <3>1
      <4> QED
        BY <1>7, <1>8, <4>1
    <3>2. CASE t = r
      <4>1. s \in DOMAIN rewrites /\ rewrites[s].job = j
        BY <1>5, <1>6, <2>3, <3>2
      <4> QED
        BY <1>7, <1>8, <4>1
    <3>3. CASE s \in DOMAIN rewrites /\ t \in DOMAIN rewrites
      <4>1. rewrites[s].job = rewrites[t].job
        BY <1>6, <2>3, <3>3
      <4>2. Unfinished(s) = {} \/ Unfinished(t) = {}
        BY <2>3, <3>3, <4>1 DEF MapsInv, RewritesFit
      <4> QED
        BY <1>7, <3>3, <4>2
    <3> QED
      BY <1>6, <3>1, <3>2, <3>3
  <2> QED
    BY <2>1, <2>2, <2>3 DEF RewritesFit
<1>10. /\ RecordsInv' /\ RowsSame
       /\ JobStatusColumn' = JobStatusColumn /\ CountColumns' = CountColumns
  BY <1>2, RecordsSame DEF MapsInv
<1>11. RewritingRows[j] = {}
  BY <1>8 DEF RewritingRows
<1>12. RewritingRows' = [RewritingRows EXCEPT ![j] = S]
  <2>1. \A i \in Job : \A f : f \in RewritingRows'[i] <=>
           /\ i \in DOMAIN jobs
           /\ \E s \in DOMAIN rewrites' : rewrites'[s].job = i /\ f \in Unfinished(s)'
    BY <1>2 DEF RewritingRows
  <2>2. \A f : f \in RewritingRows'[j] <=> f \in S
    BY <1>2, <1>5, <1>6, <1>7, <1>8, <2>1
  <2>3. \A i \in Job \ {j} : \A f : f \in RewritingRows'[i] <=> f \in RewritingRows[i]
    <3> SUFFICES ASSUME NEW i \in Job \ {j}, NEW f
                 PROVE  f \in RewritingRows'[i] <=> f \in RewritingRows[i]
      OBVIOUS
    <3>1. (\E s \in DOMAIN rewrites' : rewrites'[s].job = i /\ f \in Unfinished(s)')
            <=> \E s \in DOMAIN rewrites : rewrites[s].job = i /\ f \in Unfinished(s)
      BY <1>5, <1>6, <1>7
    <3> QED
      BY <2>1, <3>1, RowsOfTasks
  <2> QED
    BY <2>2, <2>3, RowsExtensional
<1>13. JobStatusColumn[j] # "absent" /\ ~Store!Active(j)
  BY <1>2, JobHere DEF MapsInv, Store!Active, ActiveStatus
<1> QED
  BY <1>2, <1>3, <1>4, <1>9, <1>10, <1>11, <1>12, <1>13
  DEF Store!CreateRewriteTask, RowsSame, MapsInv

LEMMA DeleteRewriteTaskStep ==
    ASSUME MapsInv, NEW r \in Rewrite, DeleteRewriteTask(r)
    PROVE  /\ MapsInv'
           /\ \/ \E j \in Job : Store!DeleteRewriteTask(j)
              \/ UNCHANGED Store!storeVars
<1>1. PICK j : j = rewrites[r].job
  OBVIOUS
<1>2. /\ r \in DOMAIN rewrites /\ rewrites' = Removed(rewrites, {r})
      /\ UNCHANGED <<latest, jobs, fragments>>
  BY DEF DeleteRewriteTask
<1>3. j \in Job
  BY <1>1, <1>2, TaskHere DEF MapsInv
<1>4. /\ IsMap(rewrites, Rewrite, RewriteRecord)
      /\ DOMAIN rewrites' = DOMAIN rewrites \ {r}
      /\ \A s \in DOMAIN rewrites' : rewrites'[s] = rewrites[s]
      /\ rewrites' = [s \in DOMAIN rewrites' |-> rewrites'[s]]
  BY <1>2 DEF MapsInv, RewritesFit, Removed, Restrict
<1>5. \A s \in DOMAIN rewrites' : Unfinished(s)' = Unfinished(s)
  BY <1>4 DEF Unfinished
<1>6. RewritesFit'
  <2>1. IsMap(rewrites', Rewrite, RewriteRecord)
    BY <1>4 DEF IsMap
  <2>2. ASSUME NEW s \in DOMAIN rewrites'
        PROVE  /\ DOMAIN rewrites'[s].child \subseteq Store!FragmentsOf(rewrites'[s].job)
               /\ Unfinished(s)' # {} => rewrites'[s].status \in ActiveStatus
    BY <1>4, <1>5 DEF MapsInv, RewritesFit
  <2>3. ASSUME NEW s \in DOMAIN rewrites', NEW t \in DOMAIN rewrites', s # t,
               rewrites'[s].job = rewrites'[t].job
        PROVE  Unfinished(s)' = {} \/ Unfinished(t)' = {}
    <3>1. /\ s \in DOMAIN rewrites /\ t \in DOMAIN rewrites
          /\ rewrites[s].job = rewrites[t].job
      BY <1>4, <2>3
    <3>2. Unfinished(s) = {} \/ Unfinished(t) = {}
      BY <2>3, <3>1 DEF MapsInv, RewritesFit
    <3> QED
      BY <1>5, <3>2
  <2> QED
    BY <2>1, <2>2, <2>3 DEF RewritesFit
<1>7. /\ RecordsInv' /\ RowsSame
      /\ JobStatusColumn' = JobStatusColumn /\ CountColumns' = CountColumns
  BY <1>2, RecordsSame DEF MapsInv
<1>8. \A i \in Job : \A f : f \in RewritingRows'[i] <=>
         /\ i \in DOMAIN jobs
         /\ \E s \in DOMAIN rewrites \ {r} : rewrites[s].job = i /\ f \in Unfinished(s)
  <2> SUFFICES ASSUME NEW i \in Job, NEW f
               PROVE  f \in RewritingRows'[i] <=>
                         /\ i \in DOMAIN jobs
                         /\ \E s \in DOMAIN rewrites \ {r} :
                               rewrites[s].job = i /\ f \in Unfinished(s)
    OBVIOUS
  <2>1. f \in RewritingRows'[i] <=>
           /\ i \in DOMAIN jobs
           /\ \E s \in DOMAIN rewrites' : rewrites'[s].job = i /\ f \in Unfinished(s)'
    BY <1>2 DEF RewritingRows
  <2> QED
    BY <1>4, <1>5, <2>1
\* A task that was through, or whose job is gone: the tables do not show it.
<1>9. CASE Unfinished(r) = {} \/ j \notin DOMAIN jobs
  <2>1. \A i \in Job : \A f : f \in RewritingRows'[i] <=> f \in RewritingRows[i]
    BY <1>1, <1>8, <1>9, RowsOfTasks
  <2>2. RewritingRows' = RewritingRows
    BY <2>1 DEF RewritingRows
  <2> QED
    BY <1>6, <1>7, <2>2 DEF Store!storeVars, RowsSame, MapsInv
<1>10. CASE Unfinished(r) # {} /\ j \in DOMAIN jobs
  <2>1. \A s \in DOMAIN rewrites \ {r} : rewrites[s].job = j => Unfinished(s) = {}
    BY <1>1, <1>2, <1>10 DEF MapsInv, RewritesFit
  <2>2. \A f : f \in RewritingRows'[j] <=> f \in {}
    BY <1>3, <1>8, <2>1
  <2>3. \A i \in Job \ {j} : \A f : f \in RewritingRows'[i] <=> f \in RewritingRows[i]
    BY <1>1, <1>8, RowsOfTasks
  <2>4. RewritingRows' = [RewritingRows EXCEPT ![j] = {}]
    BY <1>3, <2>2, <2>3, RowsExtensional
  <2>5. Store!DeleteRewriteTask(j)
    BY <1>7, <2>4 DEF Store!DeleteRewriteTask, RowsSame
  <2> QED
    BY <1>3, <1>6, <1>7, <2>5 DEF MapsInv
<1> QED
  BY <1>9, <1>10

-----------------------------------------------------------------------------
(* Every behaviour.                                                        *)

\* The empty maps stand for the empty tables.
LEMMA InitMaps ==
    ASSUME Init
    PROVE  MapsInv /\ Store!StoreInit
<1>1. /\ latest = [b \in Book |-> NoJob]
      /\ DOMAIN jobs = {} /\ DOMAIN fragments = {} /\ DOMAIN rewrites = {}
      /\ jobs = [x \in {} |-> x] /\ fragments = [x \in {} |-> x]
      /\ rewrites = [x \in {} |-> x]
  BY DEF Init, Empty
<1>2. IsMap(jobs, Job, JobRecord) /\ IsMap(fragments, Fragment, FragmentRecord)
      /\ IsMap(rewrites, Rewrite, RewriteRecord)
  BY <1>1 DEF IsMap
<1>3. MapTypes /\ RecordsFit /\ FinalIsHonest /\ RewritesFit
  BY <1>1, <1>2 DEF MapTypes, RecordsFit, FinalIsHonest, RewritesFit
<1>4. RecordsLinked
  BY <1>1, JobsAssumption DEF RecordsLinked
<1>5. JobStatusColumn = [j \in Job |-> "absent"]
  BY <1>1 DEF JobStatusColumn
<1>6. CountColumns = [j \in Job |-> Store!CountsOf(j, [f \in Fragment |-> "pending"])]
  <2>1. CountColumns =
          [j \in Job |-> [pending |-> Len(Catalog[j]), ready |-> 0, warnings |-> 0,
                          failed |-> 0]]
    BY <1>1 DEF CountColumns
  <2>2. \A j \in Job : Store!CountsOf(j, [f \in Fragment |-> "pending"])
                         = [pending |-> Len(Catalog[j]), ready |-> 0, warnings |-> 0,
                            failed |-> 0]
    BY FreshCounts
  <2> QED
    BY <2>1, <2>2
<1>7. RewritingRows = [j \in Job |-> {}]
  BY <1>1 DEF RewritingRows
<1>8. /\ StatusColumn = [f \in Fragment |-> "pending"]
      /\ TextColumn = Source
      /\ RevisionRows = [f \in Fragment |-> <<Source[f]>>]
      /\ AudioColumn = [f \in Fragment |-> NoAudio]
      /\ CodeColumn = [f \in Fragment |-> ""]
      /\ AttemptColumn = [f \in Fragment |-> 0]
  BY <1>1, TextAssumption
  DEF StatusColumn, TextColumn, RevisionRows, AudioColumn, CodeColumn, AttemptColumn, Row
<1>9. \A h : h \notin Range(<<>>)
  BY DEF Range
<1>10. /\ AttemptRows = [f \in Fragment |-> {}]
       /\ ReviewRows = [f \in Fragment |-> {}]
  <2>1. \A f \in Fragment : /\ {OutcomeOf(h) : h \in Range(Row(f, "history", <<>>))} = {}
                            /\ Range(Row(f, "reviews", <<>>)) = {}
    BY <1>1, <1>9 DEF Row
  <2> QED
    BY <2>1 DEF AttemptRows, ReviewRows
<1> QED
  BY <1>3, <1>4, <1>5, <1>6, <1>7, <1>8, <1>10 DEF MapsInv, RecordsInv, Store!StoreInit

\* Every method is a transaction, or nothing the tables show.
LEMMA JobNextMaps ==
    ASSUME MapsInv, NEW j \in Job, JobNext(j)
    PROVE  MapsInv' /\ [Store!StoreNext]_(Store!storeVars)
<1>1. Range(Catalog[j]) = Store!FragmentsOf(j)
  BY CatalogAssumption DEF Store!FragmentsOf
<1> SUFFICES MapsInv' /\ Store!JobStep(j)
  BY DEF Store!StoreNext
<1>2. CASE CreateJob(j)
  BY <1>2, CreateJobStep DEF Store!JobStep
<1>3. CASE DeleteJob(j)
  BY <1>3, DeleteJobStep DEF Store!JobStep
<1>4. CASE StartTask(j)
  BY <1>4, StartTaskStep DEF Store!JobStep
<1>5. CASE FinishTask(j)
  BY <1>5, FinishTaskStep DEF Store!JobStep
<1>6. ASSUME NEW S \in SUBSET Store!FragmentsOf(j), PrepareRetry(j, S)
      PROVE  MapsInv' /\ Store!JobStep(j)
  BY <1>6, PrepareRetryStep DEF Store!JobStep
<1>7. ASSUME NEW S \in SUBSET Store!FragmentsOf(j), NEW previous \in [S -> Retryable],
             CancelRetry(j, previous)
      PROVE  MapsInv' /\ Store!JobStep(j)
  <2>1. MapsInv' /\ Store!CancelRetry(j, previous)
    BY <1>7, CancelRetryStep
  <2>2. previous \in [S -> Store!Retryable]
    BY DEF Retryable, Store!Retryable
  <2> QED
    BY <2>1, <2>2 DEF Store!JobStep
<1>8. ASSUME NEW S \in SUBSET Store!FragmentsOf(j), NEW r \in Rewrite,
             CreateRewriteTask(r, j, S)
      PROVE  MapsInv' /\ Store!JobStep(j)
  BY <1>8, CreateRewriteTaskStep DEF Store!JobStep
<1> QED
  BY <1>1, <1>2, <1>3, <1>4, <1>5, <1>6, <1>7, <1>8 DEF JobNext

LEMMA FragmentNextMaps ==
    ASSUME MapsInv, NEW f \in Fragment, FragmentNext(f)
    PROVE  MapsInv' /\ [Store!StoreNext]_(Store!storeVars)
<1> SUFFICES MapsInv' /\ Store!FragmentStep(f)
  BY DEF Store!StoreNext
<1>1. CASE StartFragment(f)
  BY <1>1, StartFragmentStep DEF Store!FragmentStep
<1>2. CASE FailFragment(f)
  BY <1>2, FailFragmentStep DEF Store!FragmentStep
<1>3. CASE PrepareAutomaticWarningRetry(f)
  BY <1>3, AutomaticRetryStep DEF Store!FragmentStep
<1>4. CASE ApproveFragment(f)
  BY <1>4, ApproveFragmentStep DEF Store!FragmentStep
<1>5. ASSUME NEW t \in Text, EditFragment(f, t)
      PROVE  MapsInv' /\ Store!FragmentStep(f)
  BY <1>5, EditFragmentStep DEF Store!FragmentStep
<1>6. ASSUME NEW t \in Text, NEW c \in {""} \cup Codes, CompleteFragment(f, t, c)
      PROVE  MapsInv' /\ Store!FragmentStep(f)
  <2>1. c \in {""} \cup Store!ValidationCode
    BY CodesAssumption DEF RetryCode, Store!ValidationCode
  <2>2. MapsInv' /\ Store!CompleteFragment(f, t, c)
    BY <1>6, CompleteFragmentStep
  <2> QED
    BY <2>1, <2>2 DEF Store!FragmentStep
<1>7. ASSUME NEW n, RestoreFragmentRevision(f, n)
      PROVE  MapsInv' /\ Store!FragmentStep(f)
  BY <1>7, RestoreStep DEF Store!FragmentStep
<1> QED
  BY <1>1, <1>2, <1>3, <1>4, <1>5, <1>6, <1>7 DEF FragmentNext

LEMMA RewriteNextMaps ==
    ASSUME MapsInv, NEW r \in Rewrite, RewriteNext(r)
    PROVE  MapsInv' /\ [Store!StoreNext]_(Store!storeVars)
<1>1. CASE DeleteRewriteTask(r)
  BY <1>1, DeleteRewriteTaskStep DEF Store!StoreNext, Store!JobStep
<1>2. CASE StartRewriteTask(r)
  BY <1>2, StartRewriteTaskStep
<1>3. CASE FinishRewriteTask(r)
  BY <1>3, FinishRewriteTaskStep
<1>4. ASSUME NEW f, StartRewriteFragment(r, f)
      PROVE  MapsInv' /\ [Store!StoreNext]_(Store!storeVars)
  BY <1>4, StartRewriteFragmentStep
<1>5. ASSUME NEW f, FailRewriteFragment(r, f)
      PROVE  MapsInv' /\ [Store!StoreNext]_(Store!storeVars)
  BY <1>5, FailRewriteFragmentStep DEF Store!StoreNext, Store!FragmentStep
<1>6. ASSUME NEW f, NEW expected, NEW t \in Text,
             CompleteRewriteFragment(r, f, expected, t)
      PROVE  MapsInv' /\ [Store!StoreNext]_(Store!storeVars)
  BY <1>6, CompleteRewriteFragmentStep DEF Store!StoreNext, Store!FragmentStep
<1> QED
  BY <1>1, <1>2, <1>3, <1>4, <1>5, <1>6 DEF RewriteNext

LEMMA NextMaps ==
    ASSUME MapsInv, [Next]_memVars
    PROVE  MapsInv' /\ [Store!StoreNext]_(Store!storeVars)
<1>1. CASE Next
  BY <1>1, JobNextMaps, FragmentNextMaps, RewriteNextMaps DEF Next
<1>2. CASE UNCHANGED memVars
  <2>1. UNCHANGED <<latest, jobs, fragments, rewrites>>
    BY <1>2 DEF memVars
  <2>2. MapsInv'
    BY <2>1
    DEF MapsInv, RecordsInv, MapTypes, RecordsLinked, RecordsFit, FinalIsHonest,
        RewritesFit, Unfinished, StatusColumn, Row
  <2>3. UNCHANGED Store!storeVars
    BY <2>1
    DEF Store!storeVars, JobStatusColumn, CountColumns, RewritingRows, StatusColumn,
        TextColumn, RevisionRows, AudioColumn, CodeColumn, AttemptColumn, AttemptRows,
        ReviewRows, Row, Unfinished
  <2> QED
    BY <2>2, <2>3
<1> QED
  BY <1>1, <1>2

\* A completed job has only ready fragments, and so an archive.
LEMMA CompletedIsWhole ==
    ASSUME RecordsInv, NEW j \in DOMAIN jobs, jobs[j].status = "completed"
    PROVE  \A f \in Range(Catalog[j]) :
              fragments[f].status = "ready" /\ fragments[f].audio # NoAudio
<1>1. /\ j \in Job /\ Range(Catalog[j]) = Store!FragmentsOf(j)
      /\ \A f \in Store!FragmentsOf(j) : f \in Fragment /\ f \in DOMAIN fragments
  BY JobHere
<1>2. PICK st : st = StatusColumn
  OBVIOUS
<1>3. "completed" = Store!StatusFor(j, st)
  BY <1>2 DEF RecordsInv, FinalIsHonest, ActiveStatus
<1>4. SUFFICES ASSUME NEW f \in Store!FragmentsOf(j)
               PROVE  fragments[f].status = "ready" /\ fragments[f].audio # NoAudio
  BY <1>1
<1>5. /\ f \in DOMAIN fragments /\ st[f] = fragments[f].status
      /\ fragments[f] \in FragmentRecord /\ RecordFits(fragments[f])
  BY <1>1, <1>2, StatusHere DEF RecordsInv, MapTypes, IsMap, RecordsFit
<1>6. st[f] \in {"pending", "generating", "ready", "warning", "failed"}
  BY <1>5 DEF FragmentRecord, FragmentStatus
<1>7. st[f] = "ready"
  BY <1>3, <1>6 DEF Store!StatusFor, Store!Unsettled
<1> QED
  BY <1>5, <1>7 DEF RecordFits

\* The invariant is as strong as the property the runs check.
LEMMA MapsInvAgrees ==
    ASSUME MapsInv
    PROVE  MapsAgree
<1>1. RecordsInv
  BY DEF MapsInv
<1>2. NoDanglingReferences
  <2>1. ASSUME NEW f \in DOMAIN fragments
        PROVE  /\ fragments[f].job \in DOMAIN jobs
               /\ f \in Range(jobs[fragments[f].job].fragmentIDs)
    <3>1. f \in Fragment /\ fragments[f].job = JobOf[f] /\ JobOf[f] \in DOMAIN jobs
      BY <1>1 DEF RecordsInv, MapTypes, IsMap, RecordsLinked
    <3>2. /\ jobs[JobOf[f]].fragmentIDs = Catalog[JobOf[f]]
          /\ Range(Catalog[JobOf[f]]) = Store!FragmentsOf(JobOf[f])
      BY <1>1, <3>1, JobHere DEF RecordsInv, RecordsLinked
    <3> QED
      BY <3>1, <3>2 DEF Store!FragmentsOf
  <2>2. ASSUME NEW j \in DOMAIN jobs, NEW f \in Range(jobs[j].fragmentIDs)
        PROVE  f \in DOMAIN fragments /\ fragments[f].job = j
    <3>1. f \in Store!FragmentsOf(j) /\ f \in DOMAIN fragments
      BY <1>1, JobHere DEF RecordsInv, RecordsLinked
    <3> QED
      BY <1>1, <3>1 DEF RecordsInv, RecordsLinked, Store!FragmentsOf
  <2>3. \A b \in Book : latest[b] \in DOMAIN jobs \cup {NoJob}
    BY <1>1 DEF RecordsInv, RecordsLinked
  <2> QED
    BY <2>1, <2>2, <2>3 DEF NoDanglingReferences
<1>3. ASSUME NEW j \in Job
      PROVE  /\ ArchiveSnapshotLocked(j) # {} =>
                   /\ ArchiveSnapshotLocked(j) = Range(Catalog[j])
                   /\ \A f \in Range(Catalog[j]) : fragments[f].status = "ready"
             /\ j \in DOMAIN jobs /\ jobs[j].status = "completed" =>
                   ArchiveSnapshotLocked(j) # {}
  <2>1. j \in DOMAIN jobs => jobs[j].fragmentIDs = Catalog[j]
    BY <1>1 DEF RecordsInv, RecordsLinked
  <2>2. Range(Catalog[j]) # {}
    <3>1. Catalog[j] \in Seq(Fragment) /\ Catalog[j] # <<>>
      BY CatalogAssumption
    <3>2. 1 \in DOMAIN Catalog[j]
      BY <3>1
    <3> QED
      BY <3>2 DEF Range
  <2>3. j \in DOMAIN jobs /\ jobs[j].status = "completed" =>
          \A f \in Range(Catalog[j]) :
             fragments[f].status = "ready" /\ fragments[f].audio # NoAudio
    BY <1>1, CompletedIsWhole
  <2> QED
    BY <2>1, <2>2, <2>3 DEF ArchiveSnapshotLocked
<1> QED
  BY <1>2, <1>3 DEF MapsAgree, ArchivesAreWhole

\* The maps never point at something that is gone, an archive is never short
\* of a fragment and a completed job always has one, whatever the callers do
\* and however many jobs, fragments and rewrite tasks there are.
THEOREM MapsAlwaysAgree == Spec => []MapsAgree
<1>1. Init => MapsInv
  BY InitMaps
<1>2. MapsInv /\ [Next]_memVars => MapsInv'
  BY NextMaps
<1>3. MapsInv => MapsAgree
  BY MapsInvAgrees
<1> QED
  BY <1>1, <1>2, <1>3, PTL DEF Spec

\* The repository the tests use implements the tables: each method of
\* memoryStore is a transaction of FragmentStore on the tables its maps stand
\* for, or changes nothing they show.
THEOREM MemoryImplementsStore == Spec => ImplementsStore
<1>1. Init => MapsInv /\ Store!StoreInit
  BY InitMaps
<1>2. MapsInv /\ [Next]_memVars => MapsInv' /\ [Store!StoreNext]_(Store!storeVars)
  BY NextMaps
<1> QED
  BY <1>1, <1>2, PTL DEF Spec, ImplementsStore, Store!StoreSpec
=============================================================================
