--------------------------- MODULE ReadingProofs ---------------------------
(***************************************************************************)
(* Theorems about Reading, for any finite set of jobs, any owner of them    *)
(* and any page size: a walk to a short page misses no job that stayed in   *)
(* the list, and a result sent with 200 is the one the row spoke of.        *)
(***************************************************************************)
EXTENDS Reading, TLAPS, FiniteSetTheorems, WellFoundedInduction

-----------------------------------------------------------------------------
(* Ranks.  The newest job of a list has rank 0.                             *)

NewerIn(list, j) == {i \in list : i > j}
Rank(list, j) == Cardinality(NewerIn(list, j))

LEMMA RankType ==
    ASSUME NEW list, IsFiniteSet(list), NEW j
    PROVE  IsFiniteSet(NewerIn(list, j)) /\ Rank(list, j) \in Nat
<1>1. IsFiniteSet(NewerIn(list, j))
  BY FS_Subset DEF NewerIn
<1> QED
  BY <1>1, FS_CardinalityType DEF Rank

(* Jobs that come into a list make no rank smaller.                         *)
LEMMA RankGrows ==
    ASSUME NEW list, NEW longer, IsFiniteSet(longer), list \subseteq longer,
           NEW j
    PROVE  Rank(list, j) <= Rank(longer, j)
<1>1. NewerIn(list, j) \in SUBSET NewerIn(longer, j)
  BY DEF NewerIn
<1>2. IsFiniteSet(NewerIn(longer, j))
  BY RankType
<1> QED
  BY <1>1, <1>2, FS_Subset DEF Rank

LEMMA Least ==
    ASSUME NEW S \in SUBSET Nat, S # {}
    PROVE  \E i \in S : \A j \in S : i <= j
<1>1. PICK i \in S : \A j \in S : <<j, i>> \notin OpToRel(<, Nat)
  BY NatLessThanWellFounded, WFMin
<1>2. \A j \in S : ~(j < i)
  BY <1>1 DEF OpToRel
<1> QED
  BY <1>2

(* The job before another one in the list has the rank before its rank.     *)
LEMMA Predecessor ==
    ASSUME NEW list \in SUBSET Nat, IsFiniteSet(list), NEW j \in list,
           Rank(list, j) > 0
    PROVE  \E i \in list : Rank(list, i) = Rank(list, j) - 1
<1>1. IsFiniteSet(NewerIn(list, j)) /\ Rank(list, j) \in Nat
  BY RankType
<1>2. NewerIn(list, j) # {}
  BY FS_EmptySet DEF Rank
<1>3. NewerIn(list, j) \in SUBSET Nat
  BY DEF NewerIn
<1>4. PICK i \in NewerIn(list, j) : \A k \in NewerIn(list, j) : i <= k
  BY <1>2, <1>3, Least
<1>5. i \in list /\ i \in Nat /\ j \in Nat /\ i > j
  BY <1>4 DEF NewerIn
<1>6. NewerIn(list, i) = NewerIn(list, j) \ {i}
  <2>1. ASSUME NEW k \in list, k > i PROVE k \in NewerIn(list, j) \ {i}
    BY <1>5, <2>1 DEF NewerIn
  <2>2. ASSUME NEW k \in NewerIn(list, j), k # i PROVE k \in list /\ k > i
    BY <1>4, <1>5, <2>2 DEF NewerIn
  <2> QED
    BY <2>1, <2>2 DEF NewerIn
<1>7. Rank(list, i) = Rank(list, j) - 1
  <2>1. Cardinality(NewerIn(list, j) \ {i}) = Cardinality(NewerIn(list, j)) - 1
    BY <1>1, <1>4, FS_RemoveElement
  <2> QED
    BY <1>6, <2>1 DEF Rank
<1> QED
  BY <1>5, <1>7

(* Every rank up to that of a job of the list belongs to some job of it.    *)
LEMMA RanksAreDense ==
    ASSUME NEW list \in SUBSET Nat, IsFiniteSet(list), NEW j \in list,
           NEW k \in 0..Rank(list, j)
    PROVE  \E i \in list : Rank(list, i) = k
<1> DEFINE R == Rank(list, j)
           Gaps == {d \in 0..R : \A i \in list : Rank(list, i) # R - d}
<1>1. R \in Nat
  BY RankType
<1>2. Gaps = {}
  <2> SUFFICES ASSUME Gaps # {} PROVE FALSE
    OBVIOUS
  <2>1. Gaps \in SUBSET Nat
    BY <1>1
  <2>2. PICK d \in Gaps : \A e \in Gaps : d <= e
    BY <2>1, Least
  <2>3. d \in 0..R /\ \A i \in list : Rank(list, i) # R - d
    BY <2>2
  <2>4. d # 0
    BY <1>1, <2>3
  <2>5. d - 1 \in 0..R /\ ~(d <= d - 1)
    BY <1>1, <2>3, <2>4
  <2>6. PICK i \in list : Rank(list, i) = R - (d - 1)
    BY <2>2, <2>5
  <2>7. Rank(list, i) > 0 /\ Rank(list, i) - 1 = R - d
    BY <1>1, <2>3, <2>6
  <2> QED
    BY <2>3, <2>7, Predecessor
<1>3. R - k \notin Gaps /\ R - k \in 0..R
  BY <1>1, <1>2
<1>4. PICK i \in list : Rank(list, i) = R - (R - k)
  BY <1>3
<1> QED
  BY <1>1, <1>4

PageOf(list, offset) ==
    {j \in list : offset <= Rank(list, j) /\ Rank(list, j) < offset + Limit}

(* A page is full as long as a job of the list lies behind it.              *)
LEMMA PageIsFull ==
    ASSUME NEW list \in SUBSET Nat, IsFiniteSet(list), NEW offset \in Nat,
           NEW j \in list, Rank(list, j) >= offset + Limit
    PROVE  /\ Cardinality(PageOf(list, offset)) \in Nat
           /\ Cardinality(PageOf(list, offset)) >= Limit
<1> DEFINE page == PageOf(list, offset)
           ranks == offset..(offset + Limit - 1)
           f == [i \in page |-> Rank(list, i)]
<1>1. IsFiniteSet(page) /\ Cardinality(page) \in Nat
  BY FS_Subset, FS_CardinalityType DEF PageOf
<1>2. \A i \in list : Rank(list, i) \in Nat
  BY RankType
<1>3. f \in Surjection(page, ranks)
  <2>1. f \in [page -> ranks]
    <3>1. ASSUME NEW i \in page PROVE Rank(list, i) \in ranks
      <4>1. Rank(list, i) \in Nat /\ offset <= Rank(list, i)
               /\ Rank(list, i) < offset + Limit
        BY <1>2 DEF PageOf
      <4> QED
        BY <4>1, LimitAssumption
    <3> QED
      BY <3>1
  <2>2. ASSUME NEW k \in ranks PROVE \E i \in page : f[i] = k
    <3>1. k \in 0..Rank(list, j)
      BY <1>2, LimitAssumption
    <3>2. PICK i \in list : Rank(list, i) = k
      BY <3>1, RanksAreDense
    <3>3. i \in page
      BY <3>2, LimitAssumption DEF PageOf
    <3> QED
      BY <3>2, <3>3
  <2> QED
    BY <2>1, <2>2 DEF Surjection
<1>4. Cardinality(ranks) <= Cardinality(page)
  BY <1>1, <1>3, FS_Surjection
<1>5. Cardinality(ranks) = Limit
  <2>1. offset \in Int /\ offset + Limit - 1 \in Int /\ ~(offset > offset + Limit - 1)
    BY LimitAssumption
  <2>2. Cardinality(ranks) = (offset + Limit - 1) - offset + 1
    BY <2>1, FS_Interval
  <2> QED
    BY <2>2, LimitAssumption
<1> QED
  BY <1>1, <1>4, <1>5, LimitAssumption

-----------------------------------------------------------------------------
(* Types.  A job has no more runs and entries than the bound.               *)

Budget == \A j \in Jobs : row[j].run + row[j].entries <= MaxRuns
FreshRows == \A j \in Jobs : row[j].status = "absent" => row[j].run = 0

(* What a walk sees is a finite set of numbered jobs.                       *)
LEMMA MatchingType ==
    ASSUME NEW filter
    PROVE  /\ Matching(filter) \subseteq Jobs /\ Matching(filter) \in SUBSET Nat
           /\ IsFiniteSet(Matching(filter))
           /\ Cardinality(Matching(filter)) \in Nat
<1>1. Matching(filter) \in SUBSET Jobs
  BY MineAssumption DEF Matching
<1>2. IsFiniteSet(Matching(filter))
  BY <1>1, JobsAssumption, FS_Subset
<1> QED
  BY <1>1, <1>2, JobsAssumption, FS_CardinalityType

RowType == [status : Statuses \cup {"absent", "deleted"},
            run : 0..MaxRuns, entries : 0..MaxRuns]
WorkerType == [job : Jobs \cup {NoJob}, run : 0..MaxRuns,
               at : {"idle", "running", "wrote", "saved", "committed",
                     "writing"}]
WalkType == [at : {"idle", "listing", "counted"}, filter : Filters,
             offset : Nat, total : Nat, unseen : SUBSET Jobs,
             left : BOOLEAN, short : BOOLEAN, enough : BOOLEAN]
FetchType == [at : {"idle", "read", "found", "sending", "ended"},
              job : Jobs \cup {NoJob}, kind : Kinds, run : 0..MaxRuns,
              size : 0..Torn,
              answer : {"none", "200", "404", "409", "410", "500", "broken"},
              body : 0..Torn, rerun : BOOLEAN]

RowsOK == /\ row \in [Jobs -> RowType] /\ Budget /\ FreshRows
FilesOK == files \in [Jobs -> [Kinds -> 0..Torn]]
WorkerOK == worker \in WorkerType /\ (worker.at = "idle" <=> worker.job = NoJob)
WalkOK == walk \in WalkType
FetchOK == fetch \in FetchType /\ (Fetching => fetch.job \in Jobs)

TInv == /\ RowsOK /\ FilesOK /\ WorkerOK /\ purging \subseteq Jobs
        /\ WalkOK /\ FetchOK

LEMMA TInvTypes == TInv => TypeOK
BY DEF TInv, TypeOK, RowsOK, FilesOK, WorkerOK, WalkOK, FetchOK, RowType,
       WorkerType, WalkType, FetchType

LEMMA TypeInit == Init => TInv
<1> SUFFICES ASSUME Init PROVE TInv
  OBVIOUS
<1>1. RowsOK
  BY RunsAssumption DEF Init, RowsOK, RowType, Budget, FreshRows, NoRow
<1>2. FilesOK
  BY RunsAssumption DEF Init, FilesOK, NoFiles, Missing, Torn
<1>3. WorkerOK /\ purging \subseteq Jobs
  BY RunsAssumption DEF Init, WorkerOK, WorkerType
<1>4. WalkOK
  BY DEF Init, WalkOK, WalkType, NoWalk, Filters
<1>5. FetchOK
  BY RunsAssumption DEF Init, FetchOK, FetchType, NoFetch, Missing, Torn, Kinds,
                        Fetching
<1> QED
  BY <1>1, <1>2, <1>3, <1>4, <1>5 DEF TInv

LEMMA WatchType == ASSUME WalkOK, WatchWalk PROVE WalkOK'
<1>1. walk' = [walk EXCEPT !.left = walk.at # "idle" /\ (@ \/ Leaves(walk.filter))]
  BY DEF WatchWalk
<1>2. (walk.at # "idle" /\ (walk.left \/ Leaves(walk.filter))) \in BOOLEAN
  OBVIOUS
<1> QED
  BY <1>1, <1>2 DEF WalkOK, WalkType

LEMMA StatusType ==
    ASSUME RowsOK, NEW j \in Jobs, NEW s \in Statuses, SetStatus(j, s)
    PROVE  RowsOK'
<1>1. CASE Exists(j)
  <2>1. row' = [row EXCEPT ![j].status = s]
    BY <1>1 DEF SetStatus
  <2>2. row' \in [Jobs -> RowType]
    BY <2>1 DEF RowsOK, RowType
  <2>3. \A i \in Jobs : row'[i].run = row[i].run /\ row'[i].entries = row[i].entries
    BY <2>1 DEF RowsOK, RowType
  <2>4. \A i \in Jobs : row'[i].status = "absent" => row[i].status = "absent"
    BY <2>1 DEF RowsOK, RowType, Statuses
  <2> QED
    BY <2>2, <2>3, <2>4 DEF RowsOK, Budget, FreshRows
<1>2. CASE ~Exists(j)
  BY <1>2 DEF SetStatus, RowsOK, Budget, FreshRows
<1> QED
  BY <1>1, <1>2

LEMMA WriteType ==
    ASSUME FilesOK, NEW j \in Jobs, NEW k \in Kinds, NEW c \in 0..Torn,
           Write(j, k, c)
    PROVE  FilesOK'
BY DEF FilesOK, Write

LEMMA PhaseType ==
    ASSUME WorkerOK, worker.at # "idle",
           NEW s \in {"running", "wrote", "saved", "committed", "writing"}, At(s)
    PROVE  WorkerOK'
BY DEF WorkerOK, WorkerType, At

LEMMA RestType == ASSUME Rest PROVE WorkerOK'
BY RunsAssumption DEF Rest, WorkerOK, WorkerType

LEMMA BusyJob == ASSUME WorkerOK, worker.at # "idle" PROVE Job \in Jobs
BY DEF WorkerOK, WorkerType, Job

LEMMA WorkTypes == ASSUME TInv, Works PROVE TInv'
<1>1. /\ RowsOK /\ FilesOK /\ WorkerOK /\ purging \subseteq Jobs
      /\ WalkOK /\ FetchOK
  BY DEF TInv
<1>2. worker.run \in 0..Torn /\ Torn \in 0..Torn /\ Missing \in 0..Torn
  BY <1>1, RunsAssumption DEF WorkerOK, WorkerType, Torn, Missing
<1>3. ASSUME UNCHANGED row PROVE RowsOK'
  BY <1>1, <1>3 DEF RowsOK, Budget, FreshRows
<1>4. ASSUME UNCHANGED fetch PROVE FetchOK'
  BY <1>1, <1>4 DEF FetchOK, Fetching
<1>5. ASSUME UNCHANGED <<row, purging, walk, fetch>>, FilesOK', WorkerOK'
      PROVE  TInv'
  BY <1>1, <1>3, <1>4, <1>5 DEF WalkOK, TInv
<1>6. ASSUME UNCHANGED <<files, purging, fetch>>, RowsOK', WorkerOK', WatchWalk
      PROVE  TInv'
  BY <1>1, <1>4, <1>6, WatchType DEF FilesOK, TInv
<1>7. ASSUME NEW j \in Jobs, Begin(j) PROVE TInv'
  <2>1. /\ row[j] \in RowType /\ row[j].entries > 0
        /\ row[j].run + row[j].entries <= MaxRuns
    BY <1>1, <1>7 DEF Begin, RowsOK, Budget
  <2>2. row[j].run + 1 \in 0..MaxRuns /\ row[j].entries - 1 \in 0..MaxRuns
    BY <2>1, RunsAssumption DEF RowType
  <2>3. row' = [row EXCEPT ![j].status = "processing", ![j].run = @ + 1,
                           ![j].entries = @ - 1]
    BY <1>7 DEF Begin
  <2>4. row' \in [Jobs -> RowType]
    BY <1>1, <2>2, <2>3 DEF RowsOK, RowType, Statuses
  <2>5. \A i \in Jobs :
           /\ i # j => row'[i] = row[i]
           /\ row'[j].status = "processing" /\ row'[j].run = row[j].run + 1
           /\ row'[j].entries = row[j].entries - 1
    BY <1>1, <2>3 DEF RowsOK, RowType
  <2>6. RowsOK'
    <3>1. row'[j].run + row'[j].entries <= MaxRuns
      BY <2>1, <2>5, RunsAssumption DEF RowType
    <3> QED
      BY <1>1, <2>4, <2>5, <3>1 DEF RowsOK, Budget, FreshRows
  <2>7. WorkerOK'
    BY <1>7, <2>2, NoJobAssumption DEF Begin, WorkerOK, WorkerType
  <2>8. FetchOK'
    <3>1. fetch' = [fetch EXCEPT !.rerun = @ \/ (Fetching /\ fetch.job = j)]
      BY <1>7 DEF Begin
    <3>2. (fetch.rerun \/ (Fetching /\ fetch.job = j)) \in BOOLEAN
      OBVIOUS
    <3>3. fetch' \in FetchType /\ fetch'.at = fetch.at /\ fetch'.job = fetch.job
      BY <1>1, <3>1, <3>2 DEF FetchOK, FetchType
    <3> QED
      BY <1>1, <3>3 DEF FetchOK, Fetching
  <2>9. WalkOK' /\ UNCHANGED <<files, purging>>
    BY <1>1, <1>7, WatchType DEF Begin
  <2> QED
    BY <1>1, <2>6, <2>7, <2>8, <2>9 DEF FilesOK, TInv
<1>8. CASE WritePages
  BY <1>1, <1>2, <1>5, <1>8, BusyJob, PhaseType, WriteType DEF WritePages, Kinds
<1>9. CASE SaveResult
  BY <1>1, <1>2, <1>5, <1>9, BusyJob, PhaseType, WriteType DEF SaveResult, Kinds
<1>10. CASE CommitOutcome
  <2>1. RowsOK'
    BY <1>1, <1>10, BusyJob, StatusType DEF CommitOutcome, Statuses
  <2>2. WorkerOK'
    BY <1>1, <1>10, PhaseType, RestType DEF CommitOutcome
  <2> QED
    BY <1>6, <1>10, <2>1, <2>2 DEF CommitOutcome
<1>11. CASE CommitFailure
  <2>1. RowsOK'
    BY <1>1, <1>11, BusyJob, StatusType DEF CommitFailure, Statuses
  <2> QED
    BY <1>6, <1>11, <2>1, RestType DEF CommitFailure
<1>12. CASE OpenSideFile
  BY <1>1, <1>2, <1>5, <1>12, BusyJob, PhaseType, WriteType DEF OpenSideFile, Kinds
<1>13. CASE FillSideFile
  BY <1>1, <1>2, <1>5, <1>13, BusyJob, RestType, WriteType DEF FillSideFile, Kinds
<1> QED
  BY <1>7, <1>8, <1>9, <1>10, <1>11, <1>12, <1>13 DEF Works

LEMMA ManageTypes == ASSUME TInv, Manages PROVE TInv'
<1>1. /\ RowsOK /\ FilesOK /\ WorkerOK /\ purging \subseteq Jobs
      /\ WalkOK /\ FetchOK
  BY DEF TInv
<1>2. ASSUME UNCHANGED fetch PROVE FetchOK'
  BY <1>1, <1>2 DEF FetchOK, Fetching
<1>3. PICK j \in Jobs : \/ Submit(j) \/ Stop(j) \/ Restart(j) \/ Delete(j)
                        \/ PurgeFiles(j) \/ PurgeRow(j)
  BY DEF Manages
<1>4. UNCHANGED <<worker, fetch>> /\ (UNCHANGED walk \/ WatchWalk)
  BY <1>3 DEF Submit, Stop, Restart, Delete, PurgeFiles, PurgeRow
<1>5. WorkerOK' /\ FetchOK' /\ WalkOK'
  BY <1>1, <1>2, <1>4, WatchType DEF WorkerOK, WalkOK
<1>6. row[j] \in RowType /\ row[j].run + row[j].entries <= MaxRuns
  BY <1>1 DEF RowsOK, Budget
<1>7. ASSUME NEW status \in Statuses, NEW entries \in 0..MaxRuns,
             row[j].run + entries <= MaxRuns,
             row' = [row EXCEPT ![j].status = status, ![j].entries = entries]
      PROVE  RowsOK'
  <2>1. row' \in [Jobs -> RowType]
    BY <1>1, <1>7 DEF RowsOK, RowType
  <2>2. \A i \in Jobs :
           /\ i # j => row'[i] = row[i]
           /\ row'[j].status = status /\ row'[j].run = row[j].run
           /\ row'[j].entries = entries
    BY <1>1, <1>7 DEF RowsOK, RowType
  <2> QED
    BY <1>1, <1>7, <2>1, <2>2 DEF RowsOK, Budget, FreshRows, Statuses
<1>8. ASSUME row' = [row EXCEPT ![j] = Deleted] PROVE RowsOK'
  <2>1. Deleted = [status |-> "deleted", run |-> 0, entries |-> 0]
    BY DEF Deleted, NoRow
  <2> QED
    BY <1>1, <1>8, <2>1, RunsAssumption DEF RowsOK, RowType, Budget, FreshRows
<1>9. ASSUME files' = [files EXCEPT ![j] = NoFiles] PROVE FilesOK'
  BY <1>1, <1>9, RunsAssumption DEF FilesOK, NoFiles, Missing, Torn
<1>10. CASE Submit(j)
  <2>1. row[j].run = 0
    BY <1>1, <1>10, JobsAssumption DEF Submit, RowsOK, FreshRows
  <2>2. RowsOK'
    <3>1. 1 \in 0..MaxRuns /\ row[j].run + 1 <= MaxRuns
      BY <2>1, RunsAssumption
    <3>2. row' = [row EXCEPT ![j].status = "pending", ![j].entries = 1]
      BY <1>10 DEF Submit
    <3> QED
      BY <1>7, <3>1, <3>2 DEF Statuses
  <2> QED
    BY <1>1, <1>5, <1>10, <2>2 DEF Submit, FilesOK, TInv
<1>11. CASE Stop(j)
  <2>1. RowsOK'
    BY <1>1, <1>11, StatusType DEF Stop, Statuses
  <2> QED
    BY <1>1, <1>5, <1>11, <2>1 DEF Stop, FilesOK, TInv
<1>12. CASE Restart(j)
  <2>1. /\ row' = [row EXCEPT ![j].status = "pending",
                              ![j].entries = row[j].entries + 1]
        /\ row[j].run + row[j].entries < MaxRuns
    BY <1>12 DEF Restart
  <2>2. /\ row[j].entries + 1 \in 0..MaxRuns
        /\ row[j].run + (row[j].entries + 1) <= MaxRuns
    BY <1>6, <2>1, RunsAssumption DEF RowType
  <2>3. RowsOK'
    BY <1>7, <2>1, <2>2 DEF Statuses
  <2> QED
    BY <1>1, <1>5, <1>12, <2>3 DEF Restart, FilesOK, TInv
<1>13. CASE Delete(j)
  BY <1>1, <1>5, <1>8, <1>9, <1>13 DEF Delete, TInv
<1>14. CASE PurgeFiles(j)
  <2>1. RowsOK'
    BY <1>1, <1>14 DEF PurgeFiles, RowsOK, Budget, FreshRows
  <2> QED
    BY <1>1, <1>5, <1>9, <1>14, <2>1 DEF PurgeFiles, TInv
<1>15. CASE PurgeRow(j)
  BY <1>1, <1>5, <1>8, <1>15 DEF PurgeRow, FilesOK, TInv
<1> QED
  BY <1>3, <1>10, <1>11, <1>12, <1>13, <1>14, <1>15

LEMMA ReaderTypes == ASSUME TInv, Lists \/ Fetches PROVE TInv'
<1>1. /\ RowsOK /\ FilesOK /\ WorkerOK /\ purging \subseteq Jobs
      /\ WalkOK /\ FetchOK
  BY DEF TInv
<1>2. UNCHANGED <<row, files, worker, purging>>
  BY DEF Lists, StartWalk, CountJobs, ReadPage, EndWalk, Fetches, Ask, FindFile,
         TakeSize, SendBody, EndFetch
<1>3. RowsOK' /\ FilesOK' /\ WorkerOK' /\ purging' \subseteq Jobs
  BY <1>1, <1>2 DEF RowsOK, Budget, FreshRows, FilesOK, WorkerOK
<1>4. NoWalk \in WalkType
  BY DEF NoWalk, WalkType, Filters
<1>5. WalkOK'
  <2>1. ASSUME NEW filter \in Filters, StartWalk(filter) PROVE WalkOK'
    BY <1>4, <2>1, MatchingType DEF StartWalk, WalkOK, WalkType
  <2>2. CASE CountJobs
    BY <1>1, <2>2, MatchingType DEF CountJobs, WalkOK, WalkType
  <2>3. CASE ReadPage
    <3>1. walk.offset + Limit \in Nat
      BY <1>1, LimitAssumption DEF WalkOK, WalkType
    <3>2. \A page : walk.unseen \ page \in SUBSET Jobs
      BY <1>1 DEF WalkOK, WalkType
    <3> DEFINE page == Page(walk.filter, walk.offset)
               short == Cardinality(page) < Limit
               enough == walk.offset + Limit >= walk.total
    <3>3. walk' = [walk EXCEPT !.at = "listing", !.offset = walk.offset + Limit,
                               !.unseen = walk.unseen \ page, !.total = 0,
                               !.short = short, !.enough = enough]
      BY <2>3 DEF ReadPage
    <3>4. short \in BOOLEAN /\ enough \in BOOLEAN
      OBVIOUS
    <3>5. walk.unseen \ page \in SUBSET Jobs
      BY <3>2
    <3> HIDE DEF page, short, enough
    <3> QED
      BY <1>1, <3>1, <3>3, <3>4, <3>5 DEF WalkOK, WalkType
  <2>4. CASE EndWalk \/ UNCHANGED walk
    BY <1>1, <1>4, <2>4 DEF EndWalk, WalkOK
  <2>5. CASE Fetches
    BY <2>4, <2>5 DEF Fetches, Ask, FindFile, TakeSize, SendBody, EndFetch
  <2> QED
    BY <2>1, <2>2, <2>3, <2>4, <2>5 DEF Lists
<1>6. NoFetch \in FetchType /\ NoFetch.at = "idle"
  BY RunsAssumption DEF NoFetch, FetchType, Kinds, Missing, Torn
<1>7. ASSUME NEW answer \in {"404", "409", "410", "500", "broken"}, FetchEnds(answer)
      PROVE  FetchOK'
  BY <1>6, <1>7 DEF FetchEnds, FetchOK, FetchType, Fetching
<1>8. FetchOK'
  <2>1. ASSUME NEW j \in Jobs, NEW k \in Kinds, Ask(j, k) PROVE FetchOK'
    <3>1. row[j].run \in 0..MaxRuns
      BY <1>1 DEF RowsOK, RowType
    <3>2. CASE fetch' = [NoFetch EXCEPT !.at = "read", !.job = j, !.kind = k,
                                        !.run = row[j].run]
      BY <1>6, <3>1, <3>2 DEF FetchOK, FetchType, Fetching
    <3> QED
      BY <1>7, <2>1, <3>2 DEF Ask
  <2>2. ASSUME Fetching PROVE File \in 0..Torn
    BY <1>1, <2>2 DEF FilesOK, FetchOK, FetchType, File
  <2>3. CASE FindFile
    BY <1>1, <1>7, <2>3 DEF FindFile, FetchOK, FetchType, Fetching
  <2>4. CASE TakeSize
    BY <1>1, <1>7, <2>2, <2>4 DEF TakeSize, FetchOK, FetchType, Fetching
  <2>5. CASE SendBody
    <3>1. Missing \in 0..Torn /\ File \in 0..Torn
      BY <2>2, <2>5, RunsAssumption DEF Missing, Torn, SendBody, Fetching
    <3> QED
      BY <1>1, <1>7, <2>5, <3>1 DEF SendBody, FetchOK, FetchType, Fetching
  <2>6. CASE EndFetch
    BY <1>6, <2>6 DEF EndFetch, FetchOK, Fetching
  <2>7. CASE Lists
    <3>1. UNCHANGED fetch
      BY <2>7 DEF Lists, StartWalk, CountJobs, ReadPage, EndWalk
    <3> QED
      BY <1>1, <3>1 DEF FetchOK, Fetching
  <2> QED
    BY <2>1, <2>3, <2>4, <2>5, <2>6, <2>7 DEF Fetches
<1> QED
  BY <1>3, <1>5, <1>8 DEF TInv

LEMMA NextTypes == ASSUME TInv, [Next]_vars PROVE TInv'
<1>1. CASE UNCHANGED vars
  BY <1>1 DEF vars, TInv, RowsOK, Budget, FreshRows, FilesOK, WorkerOK, WalkOK,
              FetchOK, Fetching
<1> QED
  BY <1>1, WorkTypes, ManageTypes, ReaderTypes DEF Next

LEMMA TypeInvariance == Spec => []TInv
BY TypeInit, NextTypes, PTL DEF Spec

(* Rows, files, worker and readers have their types, and no job has more    *)
(* runs than were allowed.                                                  *)
THEOREM TypeCorrect == Spec => []TypeOK
BY TInvTypes, TypeInvariance, PTL

-----------------------------------------------------------------------------
(* The list.  A walk that lost no job from its list has them all before it: *)
(* what it has not seen lies behind the pages it has asked for.             *)

Ahead ==
    walk.at # "idle" /\ ~walk.left =>
       \A j \in walk.unseen :
          /\ j \in Matching(walk.filter)
          /\ Rank(Matching(walk.filter), j) >= walk.offset

ShortIsLast ==
    /\ walk.short => walk.at = "listing"
    /\ walk.short /\ ~walk.left => walk.unseen = {}

WInv == TInv /\ Ahead /\ ShortIsLast

(* A list that only grew keeps what is ahead.                               *)
LEMMA GrowingKeepsAhead ==
    ASSUME TInv, WInv, TInv', walk' = walk \/ WatchWalk,
           ~walk'.left => Matching(walk.filter) \subseteq Matching(walk.filter)'
    PROVE  Ahead' /\ ShortIsLast'
<1>1. /\ walk'.at = walk.at /\ walk'.filter = walk.filter
      /\ walk'.offset = walk.offset /\ walk'.unseen = walk.unseen
      /\ walk'.short = walk.short
      /\ walk.at # "idle" /\ walk.left => walk'.left
  BY DEF WatchWalk, TInv, WalkOK, WalkType
<1>2. ShortIsLast'
  BY <1>1 DEF WInv, ShortIsLast
<1>3. Ahead'
  <2> SUFFICES ASSUME walk.at # "idle", ~walk'.left, NEW j \in walk.unseen
               PROVE  /\ j \in Matching(walk.filter)'
                      /\ Rank(Matching(walk.filter)', j) >= walk.offset
    BY <1>1 DEF Ahead
  <2> DEFINE list == Matching(walk.filter)
             longer == Matching(walk.filter)'
  <2>1. j \in list /\ Rank(list, j) >= walk.offset
    BY <1>1 DEF WInv, Ahead
  <2>2. list \subseteq longer
    OBVIOUS
  <2>3. IsFiniteSet(list)
    BY MatchingType
  <2>4. IsFiniteSet(longer)
    <3>1. longer \in SUBSET Jobs
      BY MineAssumption DEF Matching
    <3> QED
      BY <3>1, JobsAssumption, FS_Subset
  <2> HIDE DEF list, longer
  <2>5. Rank(list, j) <= Rank(longer, j)
    BY <2>2, <2>4, RankGrows
  <2>6. Rank(list, j) \in Nat /\ Rank(longer, j) \in Nat /\ walk.offset \in Nat
    BY <2>3, <2>4, RankType DEF TInv, WalkOK, WalkType
  <2> QED
    BY <2>1, <2>2, <2>5, <2>6 DEF longer
<1> QED
  BY <1>2, <1>3

LEMMA WatchedGrowth ==
    ASSUME TInv, WInv, WatchWalk, walk.at # "idle", ~walk'.left
    PROVE  Matching(walk.filter) \subseteq Matching(walk.filter)'
<1>1. walk'.left = (walk.at # "idle" /\ (walk.left \/ Leaves(walk.filter)))
  BY DEF WatchWalk, TInv, WalkOK, WalkType
<1>2. ~Leaves(walk.filter)
  BY <1>1
<1> QED
  BY <1>2 DEF Leaves

(* Everything but the client's own steps only watches the list or lets it   *)
(* grow.                                                                    *)
LEMMA OthersKeepAhead ==
    ASSUME WInv, Works \/ Manages, TInv'
    PROVE  Ahead' /\ ShortIsLast'
<1>1. TInv
  BY DEF WInv
<1>2. WatchWalk \/ UNCHANGED <<row, walk>> \/ \E j \in Jobs : Submit(j)
  BY DEF Works, Begin, WritePages, SaveResult, CommitOutcome, CommitFailure,
         OpenSideFile, FillSideFile, Manages, Stop, Restart, Delete, PurgeFiles,
         PurgeRow
<1>3. CASE WatchWalk /\ walk.at # "idle"
  BY <1>1, <1>3, WatchedGrowth, GrowingKeepsAhead
<1>4. CASE WatchWalk /\ walk.at = "idle"
  <2>1. walk'.at = "idle" /\ ~walk'.left /\ walk'.short = walk.short
    BY <1>1, <1>4 DEF WatchWalk, TInv, WalkOK, WalkType
  <2> QED
    BY <1>4, <2>1 DEF Ahead, ShortIsLast, WInv
<1>5. CASE UNCHANGED <<row, walk>>
  <2>1. Matching(walk.filter) = Matching(walk.filter)'
    BY <1>5 DEF Matching, Exists
  <2> QED
    BY <1>1, <1>5, <2>1, GrowingKeepsAhead
<1>6. ASSUME NEW j \in Jobs, Submit(j) PROVE Ahead' /\ ShortIsLast'
  <2>1. row[j].status = "absent" /\ walk' = walk
        /\ row' = [row EXCEPT ![j].status = "pending", ![j].entries = 1]
    BY <1>6, JobsAssumption DEF Submit
  <2>2. \A i \in Jobs : i # j => row'[i] = row[i]
    BY <1>1, <2>1 DEF TInv, RowsOK
  <2>3. j \notin Matching(walk.filter)
    BY <2>1 DEF Matching, Exists, Statuses
  <2>4. Matching(walk.filter) \subseteq Matching(walk.filter)'
    BY <2>1, <2>2, <2>3, MineAssumption DEF Matching, Exists
  <2> QED
    BY <1>1, <2>1, <2>4, GrowingKeepsAhead
<1> QED
  BY <1>2, <1>3, <1>4, <1>5, <1>6

LEMMA ListKeepsAhead ==
    ASSUME WInv, Lists
    PROVE  Ahead' /\ ShortIsLast'
<1>1. TInv
  BY DEF WInv
<1>2. row' = row
  BY DEF Lists, StartWalk, CountJobs, ReadPage, EndWalk
<1>3. \A filter : Matching(filter)' = Matching(filter)
  BY <1>2 DEF Matching, Exists
<1>4. ASSUME NEW filter \in Filters, StartWalk(filter) PROVE Ahead' /\ ShortIsLast'
  <2>1. /\ walk'.at = "listing" /\ walk'.unseen = Matching(filter)
        /\ walk'.offset = 0 /\ walk'.filter = filter /\ walk'.short = FALSE
    BY <1>4 DEF StartWalk, NoWalk
  <2>2. \A j : Rank(Matching(filter), j) >= 0
    BY MatchingType, RankType
  <2>3. Matching(filter)' = Matching(filter)
    BY <1>3
  <2> QED
    BY <2>1, <2>2, <2>3 DEF Ahead, ShortIsLast
<1>5. CASE CountJobs
  <2>1. /\ walk.at = "listing" /\ ~walk.short
        /\ walk'.unseen = walk.unseen /\ walk'.offset = walk.offset
        /\ walk'.filter = walk.filter /\ walk'.left = walk.left
        /\ ~walk'.short
    BY <1>1, <1>5 DEF CountJobs, TInv, WalkOK, WalkType
  <2>2. Matching(walk.filter)' = Matching(walk.filter)
    BY <1>2, <2>1 DEF Matching, Exists
  <2> QED
    BY <2>1, <2>2 DEF WInv, Ahead, ShortIsLast
<1>6. CASE ReadPage
  <2> DEFINE list == Matching(walk.filter)
             page == Page(walk.filter, walk.offset)
  <2>1. /\ walk.at = "counted" /\ walk'.at = "listing"
        /\ walk'.unseen = walk.unseen \ page
        /\ walk'.offset = walk.offset + Limit
        /\ walk'.filter = walk.filter /\ walk'.left = walk.left
        /\ walk'.short = (Cardinality(page) < Limit)
    BY <1>1, <1>6 DEF ReadPage, TInv, WalkOK, WalkType
  <2>2. Matching(walk.filter)' = list
    BY <1>2, <2>1 DEF Matching, Exists
  <2>3. page = PageOf(list, walk.offset)
    BY DEF Page, PageOf, Rank, NewerIn, Newer
  <2>4. /\ list \in SUBSET Nat /\ IsFiniteSet(list) /\ walk.offset \in Nat
        /\ \A j \in list : Rank(list, j) \in Nat
    BY <1>1, MatchingType, RankType DEF TInv, WalkOK, WalkType
  <2> HIDE DEF list, page
  <2>5. ASSUME ~walk.left, NEW j \in walk.unseen \ page
        PROVE  j \in list /\ Rank(list, j) >= walk.offset + Limit
    <3>1. j \in list /\ Rank(list, j) >= walk.offset
      BY <2>1, <2>5 DEF WInv, Ahead, list
    <3>2. ~(walk.offset <= Rank(list, j) /\ Rank(list, j) < walk.offset + Limit)
      BY <2>3, <2>5, <3>1 DEF PageOf
    <3> QED
      BY <2>4, <3>1, <3>2, LimitAssumption
  <2>6. Ahead'
    BY <2>1, <2>2, <2>5 DEF Ahead
  <2>7. ASSUME ~walk.left, Cardinality(page) < Limit, NEW j \in walk.unseen \ page
        PROVE  FALSE
    <3>1. j \in list /\ Rank(list, j) >= walk.offset + Limit
      BY <2>5, <2>7
    <3>2. Cardinality(page) \in Nat /\ Cardinality(page) >= Limit
      BY <2>3, <2>4, <3>1, PageIsFull
    <3> QED
      BY <2>7, <3>2, LimitAssumption
  <2>8. ShortIsLast'
    BY <2>1, <2>7 DEF ShortIsLast
  <2> QED
    BY <2>6, <2>8
<1>7. CASE EndWalk
  <2>1. walk'.at = "idle" /\ ~walk'.short
    BY <1>7 DEF EndWalk, NoWalk
  <2> QED
    BY <2>1 DEF Ahead, ShortIsLast
<1> QED
  BY <1>4, <1>5, <1>6, <1>7 DEF Lists

LEMMA WalkInvariance == Spec => []WInv
<1>1. Init => WInv
  BY TypeInit DEF Init, WInv, NoWalk, Ahead, ShortIsLast
<1>2. ASSUME WInv, [Next]_vars PROVE WInv'
  <2>1. TInv'
    BY <1>2, NextTypes DEF WInv
  <2>2. CASE Works \/ Manages
    BY <1>2, <2>1, <2>2, OthersKeepAhead DEF WInv
  <2>3. CASE Lists
    BY <1>2, <2>1, <2>3, ListKeepsAhead DEF WInv
  <2>4. ASSUME UNCHANGED <<row, walk>> PROVE WInv'
    BY <1>2, <2>1, <2>4 DEF WInv, Ahead, ShortIsLast, Matching, Exists
  <2>5. CASE Fetches
    BY <2>4, <2>5 DEF Fetches, Ask, FindFile, TakeSize, SendBody, EndFetch
  <2>6. CASE UNCHANGED vars
    BY <2>4, <2>6 DEF vars
  <2> QED
    BY <1>2, <2>2, <2>3, <2>5, <2>6 DEF Next
<1> QED
  BY <1>1, <1>2, PTL DEF Spec

(* Paging through list_jobs until a page is short misses none of the jobs   *)
(* that stayed in the list, for any number of jobs, any page size and any   *)
(* jobs coming in meanwhile.                                                *)
THEOREM NoJobIsMissed == Spec => []WalkMissesNothing
<1>1. WInv => WalkMissesNothing
  BY DEF WInv, ShortIsLast, WalkMissesNothing
<1> QED
  BY <1>1, WalkInvariance, PTL

-----------------------------------------------------------------------------
(* The download.  As long as the row exists, a worker that has begun and    *)
(* not yet committed works on a row that is not done and has the number of  *)
(* its run; the result of a done row is that of its last run, or was        *)
(* removed; and nobody writes the result that is being fetched.             *)

Writing(j) == worker.job = j /\ worker.at \in {"running", "wrote", "saved"}

RunFits ==
    worker.at # "idle" =>
       /\ row[Job].status # "absent"
       /\ Exists(Job) => /\ row[Job].run = worker.run
                         /\ Writing(Job) => row[Job].status # "done"

SavedFits ==
    worker.at = "saved" => files[Job]["result"] \in {Missing, worker.run}

DoneFits ==
    \A j \in Jobs : row[j].status = "done" =>
       files[j]["result"] \in {Missing, row[j].run}

FetchFits ==
    /\ Fetching /\ ~fetch.rerun /\ fetch.kind = "result" =>
          /\ files[fetch.job]["result"] \in {Missing, fetch.run}
          /\ ~Writing(fetch.job)
    /\ fetch.at = "sending" => fetch.size # Missing

DInv == /\ TInv /\ RunFits /\ SavedFits /\ DoneFits /\ FetchFits
        /\ DownloadIsTheResult

LEMMA WorkDownload == ASSUME DInv, Works, TInv' PROVE DInv'
<1>1. /\ TInv /\ RunFits /\ SavedFits /\ DoneFits /\ FetchFits
      /\ RowsOK /\ FilesOK /\ WorkerOK /\ FetchOK
  BY DEF DInv, TInv
<1>2. ASSUME NEW j \in Jobs, Begin(j) PROVE DInv'
  <2>1. /\ worker.at = "idle" /\ Exists(j) /\ files' = files
        /\ row' = [row EXCEPT ![j].status = "processing", ![j].run = @ + 1,
                              ![j].entries = @ - 1]
        /\ worker' = [job |-> j, run |-> row[j].run + 1, at |-> "running"]
        /\ fetch' = [fetch EXCEPT !.rerun = @ \/ (Fetching /\ fetch.job = j)]
    BY <1>2 DEF Begin
  <2>2. /\ row'[j].status = "processing" /\ row'[j].run = row[j].run + 1
        /\ \A i \in Jobs : i # j => row'[i] = row[i]
    BY <1>1, <2>1 DEF RowsOK, RowType
  <2>3. RunFits' /\ SavedFits'
    BY <2>1, <2>2 DEF RunFits, SavedFits, Job
  <2>4. DoneFits'
    BY <1>1, <2>1, <2>2 DEF DoneFits
  <2>5. /\ fetch'.at = fetch.at /\ fetch'.job = fetch.job
        /\ fetch'.kind = fetch.kind /\ fetch'.run = fetch.run
        /\ fetch'.size = fetch.size /\ fetch'.answer = fetch.answer
        /\ fetch'.body = fetch.body
        /\ ~fetch'.rerun => ~fetch.rerun /\ ~(Fetching /\ fetch.job = j)
    BY <1>1, <2>1 DEF FetchOK, FetchType
  <2>6. FetchFits' /\ DownloadIsTheResult'
    BY <1>1, <2>1, <2>5
       DEF DInv, FetchFits, Fetching, Writing, DownloadIsTheResult
  <2> QED
    BY <2>3, <2>4, <2>6 DEF DInv
<1>3. ASSUME worker.at # "idle", UNCHANGED fetch, worker'.job = Job,
             worker'.run = worker.run, Writing(Job)' => Writing(Job),
             UNCHANGED row, SavedFits',
             \A j \in Jobs : files'[j]["result"] = files[j]["result"]
                              \/ Writing(j)
      PROVE  DInv'
  <2>1. RunFits'
    BY <1>1, <1>3 DEF RunFits, Job, Exists, Writing
  <2>2. DoneFits'
    <3>1. ASSUME NEW j \in Jobs, Writing(j) PROVE row[j].status # "done"
      BY <1>1, <3>1 DEF RunFits, Writing, Job, Exists, Statuses
    <3> QED
      BY <1>1, <1>3, <3>1 DEF DoneFits
  <2>3. FetchFits' /\ DownloadIsTheResult'
    BY <1>1, <1>3 DEF DInv, FetchFits, Fetching, FetchOK, Writing,
                      DownloadIsTheResult, Job
  <2> QED
    BY <1>3, <2>1, <2>2, <2>3 DEF DInv
<1>4. Job \in Jobs \/ worker.at = "idle"
  BY <1>1, BusyJob
<1>5. CASE WritePages
  <2>1. /\ worker.at = "running" /\ UNCHANGED <<row, fetch>>
        /\ worker'.job = Job /\ worker'.run = worker.run /\ worker'.at = "wrote"
        /\ files' = [files EXCEPT ![Job]["result"] = Torn]
    BY <1>1, <1>5 DEF WritePages, At, Write, WorkerOK, WorkerType, Job
  <2>2. \A j \in Jobs : j # Job => files'[j] = files[j]
    BY <1>1, <2>1 DEF FilesOK
  <2> QED
    BY <1>3, <2>1, <2>2 DEF Writing, SavedFits, Job
<1>6. CASE SaveResult
  <2>1. /\ worker.at = "wrote" /\ UNCHANGED <<row, fetch>>
        /\ worker'.job = Job /\ worker'.run = worker.run /\ worker'.at = "saved"
        /\ files' = [files EXCEPT ![Job]["result"] = worker.run]
    BY <1>1, <1>6 DEF SaveResult, At, Write, WorkerOK, WorkerType, Job
  <2>2. /\ \A j \in Jobs : j # Job => files'[j] = files[j]
        /\ files'[Job]["result"] = worker.run
    BY <1>1, <1>4, <2>1 DEF FilesOK, Kinds
  <2> QED
    BY <1>3, <2>1, <2>2 DEF Writing, SavedFits, Job
<1>7. ASSUME OpenSideFile \/ FillSideFile PROVE DInv'
  <2>1. worker.at \in {"committed", "writing"} /\ UNCHANGED <<row, fetch>>
    BY <1>7 DEF OpenSideFile, FillSideFile
  <2>2. PICK c : files' = [files EXCEPT ![Job]["side"] = c]
    BY <1>7 DEF OpenSideFile, FillSideFile, Write
  <2>3. \A j \in Jobs : files'[j]["result"] = files[j]["result"]
    BY <1>1, <2>2 DEF FilesOK, Kinds
  <2>4. CASE OpenSideFile
    <3>1. worker'.job = Job /\ worker'.run = worker.run /\ worker'.at = "writing"
      BY <1>1, <2>4 DEF OpenSideFile, At, WorkerOK, WorkerType, Job
    <3> QED
      BY <1>3, <2>1, <2>3, <3>1 DEF Writing, SavedFits
  <2>5. CASE FillSideFile
    <3>1. worker' = [job |-> NoJob, run |-> 0, at |-> "idle"]
      BY <2>5 DEF FillSideFile, Rest
    <3>2. RunFits' /\ SavedFits'
      BY <3>1 DEF RunFits, SavedFits
    <3>3. DoneFits' /\ FetchFits' /\ DownloadIsTheResult'
      BY <1>1, <2>1, <2>3, <3>1 DEF DInv, DoneFits, FetchFits, Fetching, FetchOK,
                                    Writing, DownloadIsTheResult
    <3> QED
      BY <3>2, <3>3 DEF DInv
  <2> QED
    BY <1>7, <2>4, <2>5
<1>8. ASSUME CommitOutcome \/ CommitFailure PROVE DInv'
  <2>1. /\ worker.at \in {"running", "wrote", "saved"}
        /\ UNCHANGED <<files, fetch>>
        /\ Job \in Jobs
        /\ worker'.at \in {"idle", "committed"}
    BY <1>1, <1>4, <1>8 DEF CommitOutcome, CommitFailure, At, Rest, WorkerOK,
                            WorkerType
  <2>2. PICK s \in {"done", "failed"} :
           /\ SetStatus(Job, s)
           /\ s = "done" => worker.at = "saved"
    BY <1>8 DEF CommitOutcome, CommitFailure
  <2>3. \A j \in Jobs :
           /\ j # Job \/ ~Exists(Job) => row'[j] = row[j]
           /\ row'[j].run = row[j].run
           /\ j = Job /\ Exists(Job) => row'[j].status = s
    BY <1>1, <2>2 DEF SetStatus, RowsOK, RowType
  <2>4. \/ worker' = [worker EXCEPT !.at = "committed"]
        \/ worker' = [job |-> NoJob, run |-> 0, at |-> "idle"]
    BY <1>8 DEF CommitOutcome, CommitFailure, At, Rest
  <2>5. RunFits' /\ SavedFits'
    <3>1. CASE worker'.at = "idle"
      BY <3>1 DEF RunFits, SavedFits
    <3>2. CASE worker'.at = "committed"
      <4>1. worker'.job = Job /\ worker'.run = worker.run
        BY <1>1, <2>4, <3>2 DEF WorkerOK, WorkerType, Job
      <4>2. Exists(Job)' => Exists(Job)
        BY <2>1, <2>3, <4>1 DEF Exists, Job
      <4> QED
        BY <1>1, <2>1, <2>3, <3>2, <4>1, <4>2
           DEF RunFits, SavedFits, Writing, Job
    <3> QED
      BY <2>1, <3>1, <3>2
  <2>6. DoneFits'
    <3>1. ASSUME NEW j \in Jobs, row'[j].status = "done"
          PROVE  files[j]["result"] \in {Missing, row[j].run}
      <4>1. CASE j = Job /\ Exists(Job)
        <5>1. worker.at = "saved"
          BY <2>2, <2>3, <3>1, <4>1
        <5> QED
          BY <1>1, <4>1, <5>1 DEF SavedFits, RunFits, Job
      <4>2. CASE j # Job \/ ~Exists(Job)
        BY <1>1, <2>3, <3>1, <4>2 DEF DoneFits
      <4> QED
        BY <4>1, <4>2
    <3> QED
      BY <2>1, <2>3, <3>1 DEF DoneFits
  <2>7. FetchFits' /\ DownloadIsTheResult'
    BY <1>1, <2>1 DEF DInv, FetchFits, Fetching, Writing, DownloadIsTheResult
  <2> QED
    BY <2>5, <2>6, <2>7 DEF DInv
<1> QED
  BY <1>2, <1>5, <1>6, <1>7, <1>8 DEF Works

LEMMA ManageDownload == ASSUME DInv, Manages, TInv' PROVE DInv'
<1>1. /\ TInv /\ RunFits /\ SavedFits /\ DoneFits /\ FetchFits
      /\ RowsOK /\ FilesOK /\ WorkerOK /\ FetchOK
  BY DEF DInv, TInv
<1>2. PICK j \in Jobs : \/ Submit(j) \/ Stop(j) \/ Restart(j) \/ Delete(j)
                        \/ PurgeFiles(j) \/ PurgeRow(j)
  BY DEF Manages
<1>3. UNCHANGED <<worker, fetch>>
  BY <1>2 DEF Submit, Stop, Restart, Delete, PurgeFiles, PurgeRow
<1>4. files' = files \/ files' = [files EXCEPT ![j] = NoFiles]
  BY <1>2 DEF Submit, Stop, Restart, Delete, PurgeFiles, PurgeRow
<1>5. \A i \in Jobs : files'[i]["result"] \in {files[i]["result"], Missing}
  BY <1>1, <1>4 DEF FilesOK, NoFiles, Kinds
<1>6. \A i \in Jobs :
         \/ row'[i] = row[i]
         \/ /\ row'[i].status = "pending" \/ row'[i].status = "failed"
            /\ row'[i].run = row[i].run
            /\ Exists(i) \/ row[i].status = "absent"
         \/ row'[i].status = "deleted"
  <2>1. \A i \in Jobs : i # j => row'[i] = row[i]
    BY <1>1, <1>2 DEF Submit, Stop, Restart, Delete, PurgeFiles, PurgeRow,
                      SetStatus, RowsOK
  <2>2. CASE Submit(j)
    <3>1. row[j].status = "absent"
      BY <2>2, JobsAssumption DEF Submit
    <3> QED
      BY <1>1, <2>1, <2>2, <3>1 DEF Submit, RowsOK, RowType
  <2>3. CASE Stop(j) \/ Restart(j)
    BY <1>1, <2>1, <2>3 DEF Stop, Restart, SetStatus, Exists, RowsOK, RowType
  <2>4. CASE Delete(j) \/ PurgeRow(j)
    BY <1>1, <2>1, <2>4 DEF Delete, PurgeRow, Deleted, NoRow, RowsOK
  <2>5. CASE PurgeFiles(j)
    BY <2>5 DEF PurgeFiles
  <2> QED
    BY <1>2, <2>2, <2>3, <2>4, <2>5
<1>7. RunFits'
  <2>1. ASSUME worker.at # "idle"
        PROVE  /\ row'[Job].status # "absent"
               /\ row'[Job].status \in Statuses =>
                     /\ row'[Job].run = worker.run
                     /\ Writing(Job) => row'[Job].status # "done"
    <3>1. Job \in Jobs /\ row[Job].status # "absent"
      BY <1>1, <2>1, BusyJob DEF RunFits
    <3>2. CASE row'[Job] = row[Job]
      BY <1>1, <2>1, <3>1, <3>2 DEF RunFits, Exists
    <3>3. CASE row'[Job].status = "deleted"
      BY <3>3 DEF Statuses
    <3>4. CASE /\ row'[Job].status = "pending" \/ row'[Job].status = "failed"
               /\ row'[Job].run = row[Job].run
               /\ Exists(Job)
      BY <1>1, <2>1, <3>4 DEF RunFits
    <3> QED
      BY <1>6, <3>1, <3>2, <3>3, <3>4
  <2> QED
    BY <1>3, <2>1 DEF RunFits, Writing, Job, Exists
<1>8. SavedFits'
  BY <1>1, <1>3, <1>5, BusyJob DEF SavedFits, Job
<1>9. DoneFits'
  BY <1>1, <1>5, <1>6 DEF DoneFits
<1>10. FetchFits' /\ DownloadIsTheResult'
  BY <1>1, <1>3, <1>5 DEF DInv, FetchFits, Fetching, FetchOK, Writing,
                          DownloadIsTheResult
<1> QED
  BY <1>7, <1>8, <1>9, <1>10 DEF DInv

LEMMA FetchDownload == ASSUME DInv, Fetches, TInv' PROVE DInv'
<1>1. /\ TInv /\ RunFits /\ SavedFits /\ DoneFits /\ FetchFits
      /\ RowsOK /\ FilesOK /\ WorkerOK /\ FetchOK
  BY DEF DInv, TInv
<1>2. UNCHANGED <<row, files, worker>>
  BY DEF Fetches, Ask, FindFile, TakeSize, SendBody, EndFetch
<1>3. RunFits' /\ SavedFits' /\ DoneFits'
  BY <1>1, <1>2 DEF RunFits, SavedFits, DoneFits, Exists, Writing, Job
<1>4. ASSUME NEW answer \in {"404", "409", "410", "500", "broken"}, FetchEnds(answer)
      PROVE  FetchFits' /\ DownloadIsTheResult'
  BY <1>4 DEF FetchEnds, FetchFits, Fetching, DownloadIsTheResult, NoFetch
<1>5. ASSUME NEW j \in Jobs, NEW k \in Kinds, Ask(j, k)
      PROVE  FetchFits' /\ DownloadIsTheResult'
  <2>1. CASE /\ row[j].status = "done" /\ Exists(j)
             /\ fetch' = [NoFetch EXCEPT !.at = "read", !.job = j, !.kind = k,
                                         !.run = row[j].run]
    <3>1. /\ fetch'.at = "read" /\ fetch'.job = j /\ fetch'.run = row[j].run
          /\ fetch'.answer = "none"
      BY <2>1 DEF NoFetch
    <3>2. ~Writing(j)
      BY <1>1, <2>1 DEF RunFits, Writing, Job
    <3>3. files[j]["result"] \in {Missing, row[j].run}
      BY <1>1, <2>1 DEF DoneFits
    <3> QED
      BY <1>2, <3>1, <3>2, <3>3
         DEF FetchFits, Fetching, DownloadIsTheResult, Writing
  <2> QED
    BY <1>4, <1>5, <2>1 DEF Ask
<1>6. ASSUME FindFile PROVE FetchFits' /\ DownloadIsTheResult'
  <2>1. CASE fetch' = [fetch EXCEPT !.at = "found"]
    <3>1. /\ fetch'.job = fetch.job /\ fetch'.kind = fetch.kind
          /\ fetch'.run = fetch.run /\ fetch'.rerun = fetch.rerun
          /\ fetch'.answer = fetch.answer /\ fetch'.body = fetch.body
          /\ fetch'.at = "found"
      BY <1>1, <2>1 DEF FetchOK, FetchType
    <3>2. Fetching /\ DownloadIsTheResult
      BY <1>6 DEF FindFile, Fetching, DInv
    <3> QED
      BY <1>1, <1>2, <3>1, <3>2
         DEF FetchFits, Fetching, Writing, DownloadIsTheResult
  <2> QED
    BY <1>4, <1>6, <2>1 DEF FindFile
<1>7. ASSUME TakeSize PROVE FetchFits' /\ DownloadIsTheResult'
  <2>1. CASE fetch' = [fetch EXCEPT !.at = "sending", !.size = File] /\ File # Missing
    <3>1. /\ fetch'.job = fetch.job /\ fetch'.kind = fetch.kind
          /\ fetch'.run = fetch.run /\ fetch'.rerun = fetch.rerun
          /\ fetch'.answer = fetch.answer /\ fetch'.body = fetch.body
          /\ fetch'.at = "sending" /\ fetch'.size = File
      BY <1>1, <2>1 DEF FetchOK, FetchType
    <3>2. Fetching /\ DownloadIsTheResult
      BY <1>7 DEF TakeSize, Fetching, DInv
    <3> QED
      BY <1>1, <1>2, <2>1, <3>1, <3>2
         DEF FetchFits, Fetching, Writing, DownloadIsTheResult
  <2> QED
    BY <1>4, <1>7, <2>1 DEF TakeSize
<1>8. ASSUME SendBody PROVE FetchFits' /\ DownloadIsTheResult'
  <2>1. CASE /\ File = fetch.size
             /\ fetch' = [fetch EXCEPT !.at = "ended", !.size = Missing,
                                       !.answer = "200", !.body = File]
    <3>1. /\ fetch'.at = "ended" /\ fetch'.kind = fetch.kind
          /\ fetch'.run = fetch.run /\ fetch'.rerun = fetch.rerun
          /\ fetch'.body = File
      BY <1>1, <2>1 DEF FetchOK, FetchType
    <3>2. fetch.at = "sending" /\ File # Missing
      BY <1>1, <1>8, <2>1 DEF SendBody, FetchFits
    <3>3. ~fetch.rerun /\ fetch.kind = "result" => File = fetch.run
      BY <1>1, <3>2 DEF FetchFits, Fetching, File
    <3> QED
      BY <3>1, <3>3 DEF FetchFits, Fetching, DownloadIsTheResult
  <2> QED
    BY <1>4, <1>8, <2>1 DEF SendBody
<1>9. ASSUME EndFetch PROVE FetchFits' /\ DownloadIsTheResult'
  BY <1>9 DEF EndFetch, NoFetch, FetchFits, Fetching, DownloadIsTheResult
<1> QED
  BY <1>3, <1>5, <1>6, <1>7, <1>8, <1>9 DEF Fetches, DInv

LEMMA DownloadInvariance == Spec => []DInv
<1>1. Init => DInv
  BY TypeInit DEF Init, DInv, RunFits, SavedFits, DoneFits, FetchFits, Fetching,
                  DownloadIsTheResult, NoRow, NoFetch, NoFiles
<1>2. ASSUME DInv, [Next]_vars PROVE DInv'
  <2>1. TInv'
    BY <1>2, NextTypes DEF DInv
  <2>2. CASE Lists \/ UNCHANGED vars
    <3>1. UNCHANGED <<row, files, worker, fetch>>
      BY <2>2 DEF Lists, StartWalk, CountJobs, ReadPage, EndWalk, vars
    <3> QED
      BY <1>2, <2>1, <3>1 DEF DInv, RunFits, SavedFits, DoneFits, FetchFits,
           Fetching, Writing, Exists, Job, DownloadIsTheResult
  <2> QED
    BY <1>2, <2>1, <2>2, WorkDownload, ManageDownload, FetchDownload DEF Next
<1> QED
  BY <1>1, <1>2, PTL DEF Spec

(* A result that get_job_result sends with 200 is the whole result of the   *)
(* run the row spoke of, unless a later run began meanwhile, for any number *)
(* of jobs, runs, stops, restarts, deletions and purges.                    *)
THEOREM ResultsAreWhole == Spec => []DownloadIsTheResult
<1>1. DInv => DownloadIsTheResult
  BY DEF DInv
<1> QED
  BY <1>1, DownloadInvariance, PTL
=============================================================================
