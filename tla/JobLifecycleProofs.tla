------------------------- MODULE JobLifecycleProofs -------------------------
(***************************************************************************)
(* Theorems about JobLifecycle, for any sets of jobs and queue entries.     *)
(***************************************************************************)
EXTENDS JobLifecycle, TLAPS

-----------------------------------------------------------------------------
(* The rows commits write are rows.                                        *)

LEMMA FlushType ==
    ASSUME NEW cur \in Rows, NEW loaded \in Rows, NEW new \in Rows
    PROVE  Flush(cur, loaded, new) \in Rows
BY DEF Flush, Column, Rows

LEMMA RowTypes ==
    ASSUME NEW cur \in Rows, NEW loaded \in Rows,
           NEW why \in {"none", "stopped", "failure"}
    PROVE  /\ NoRow \in Rows
           /\ NewRow \in Rows
           /\ Processing(cur, loaded) \in Rows
           /\ Failed(cur, loaded, why) \in Rows
           /\ Done(cur, loaded) \in Rows
           /\ Reset(cur, loaded) \in Rows
<1>1. NoRow \in Rows /\ NewRow \in Rows
  BY DEF NoRow, NewRow, Rows, Open
<1>2. [loaded EXCEPT !.status = "processing"] \in Rows
  BY DEF Rows, Open
<1>3. [loaded EXCEPT !.status = "failed", !.error = why] \in Rows
  BY DEF Rows, Terminal
<1>4. [loaded EXCEPT !.status = "done"] \in Rows
  BY DEF Rows, Terminal
<1>5. /\ Flush(cur, loaded, [loaded EXCEPT !.status = "processing"]) \in Rows
      /\ Flush(cur, loaded, [loaded EXCEPT !.status = "failed",
                                           !.error = why]) \in Rows
      /\ Flush(cur, loaded, [loaded EXCEPT !.status = "done"]) \in Rows
      /\ Flush(cur, loaded, NewRow) \in Rows
  BY <1>1, <1>2, <1>3, <1>4, FlushType
<1>6. \A r \in Rows : /\ [r EXCEPT !.started = TRUE] \in Rows
                      /\ [r EXCEPT !.finished = TRUE] \in Rows
  BY DEF Rows
<1> QED
  BY <1>1, <1>5, <1>6 DEF Processing, Failed, Done, Reset

LEMMA CommitType ==
    ASSUME NEW j \in Jobs, NEW new \in Rows, row \in [Jobs -> Rows],
           Commit(j, new)
    PROVE  row' \in [Jobs -> Rows]
BY DEF Commit

-----------------------------------------------------------------------------
(* Type correctness, one lemma for each process.                           *)

(* What TypeOK says of the entries, and the updates that preserve it.       *)
EntriesOK ==
    /\ entry \in [Entries -> EntryRecords]
    /\ \A e \in Entries : entry[e].at # "free" => entry[e].job \in Jobs

LEMMA EntryType ==
    ASSUME NEW e \in Entries, EntriesOK,
           NEW r \in EntryRecords, r.job \in Jobs,
           entry' = [entry EXCEPT ![e] = r]
    PROVE  EntriesOK'
BY DEF EntriesOK

LEMMA PostType ==
    ASSUME NEW e \in Entries, NEW j \in Jobs, EntriesOK, Post(j, e)
    PROVE  EntriesOK'
<1> DEFINE r == [entry[e] EXCEPT !.at = "posting", !.job = j]
<1>1. entry[e] \in EntryRecords
  BY DEF EntriesOK
<1>2. r \in EntryRecords /\ r.job \in Jobs
  BY <1>1 DEF EntryRecords, EntryStates
<1>3. entry' = [entry EXCEPT ![e] = r]
  BY DEF Post
<1> QED
  BY <1>2, <1>3, EntryType

(* GoTo, Close and Finish, for an entry that has a job.                     *)
LEMMA MoveType ==
    ASSUME NEW e \in Entries, EntriesOK, entry[e].at # "free",
           NEW s \in EntryStates,
           GoTo(e, s) \/ Close(e, s) \/ Finish(e)
    PROVE  EntriesOK'
<1> DEFINE go == [entry[e] EXCEPT !.at = s]
<1> DEFINE close == [entry[e] EXCEPT !.at = s, !.loaded = NoRow]
<1>1. entry[e] \in EntryRecords /\ entry[e].job \in Jobs
  BY DEF EntriesOK
<1>2. NoRow \in Rows
  BY DEF NoRow, Rows
<1>3. go \in EntryRecords /\ go.job \in Jobs
  BY <1>1 DEF EntryRecords
<1>4. close \in EntryRecords /\ close.job \in Jobs
  BY <1>1, <1>2 DEF EntryRecords
<1>5. Gone(e) \in EntryRecords /\ Gone(e).job \in Jobs
  BY <1>1, <1>2, BoundsAssumption DEF EntryRecords, Gone, EntryStates
<1>6. \/ entry' = [entry EXCEPT ![e] = go]
      \/ entry' = [entry EXCEPT ![e] = close]
      \/ entry' = [entry EXCEPT ![e] = Gone(e)]
  BY DEF GoTo, Close, Finish
<1> QED
  BY <1>3, <1>4, <1>5, <1>6, EntryType

LEMMA RequestType == TypeOK /\ Request => TypeOK'
<1> SUFFICES ASSUME TypeOK, NEW j \in Jobs,
                    SubmitInsert(j) \/ StopRead(j) \/ RestartRead(j)
                      \/ DeleteRead(j)
             PROVE  TypeOK'
  BY DEF Request
<1>0. NewRow \in Rows /\ NoRow \in Rows
  BY DEF NewRow, NoRow, Rows, Open
<1>1. CASE SubmitInsert(j)
  BY <1>0, <1>1 DEF TypeOK, SubmitInsert, Handlers
<1>2. CASE StopRead(j)
  BY <1>2 DEF TypeOK, StopRead, Enter, Handlers
<1>3. CASE RestartRead(j)
  BY <1>3 DEF TypeOK, RestartRead, Enter, Handlers
<1>4. CASE DeleteRead(j)
  BY <1>0, <1>4 DEF TypeOK, DeleteRead, Handlers
<1> QED
  BY <1>1, <1>2, <1>3, <1>4

LEMMA ApiStepType == TypeOK /\ ApiStep => TypeOK'
<1> SUFFICES ASSUME TypeOK, ApiStep PROVE TypeOK'
  OBVIOUS
<1>r. /\ api.at # "idle" => /\ api.job \in Jobs
                            /\ row[api.job] \in Rows
      /\ api.loaded \in Rows
      /\ NoRow \in Rows
  BY RowTypes DEF TypeOK
<1>w. ASSUME api.at # "idle"
      PROVE  /\ Processing(row[api.job], api.loaded) \in Rows
             /\ Failed(row[api.job], api.loaded, "failure") \in Rows
             /\ Failed(row[api.job], api.loaded, "stopped") \in Rows
             /\ Done(row[api.job], api.loaded) \in Rows
             /\ Reset(row[api.job], api.loaded) \in Rows
  BY <1>r, <1>w, RowTypes
<1>1. CASE SubmitSave
  BY <1>1, <1>r DEF TypeOK, SubmitSave, In, Move, Handlers, Artefacts
<1>2. CASE SubmitSaveFails
  BY <1>2, <1>r, <1>w, CommitType
     DEF TypeOK, SubmitSaveFails, In, Leave, Idle, Handlers
<1>3. CASE SubmitNoPool
  BY <1>3, <1>r DEF TypeOK, SubmitNoPool, In, Leave, Idle, Handlers
<1>4. CASE SyncStart
  BY <1>4, <1>r, <1>w, CommitType DEF TypeOK, SyncStart, In, Handlers
<1>5. CASE SyncFails
  BY <1>5, <1>r, <1>w, CommitType
     DEF TypeOK, SyncFails, In, Leave, Idle, Handlers
<1>6. CASE SyncRuns
  BY <1>6, <1>r DEF TypeOK, SyncRuns, In, Move, Handlers
<1>7. CASE SyncSave
  BY <1>7, <1>r DEF TypeOK, SyncSave, In, Move, Handlers, Artefacts
<1>8. CASE SyncSaveFails
  BY <1>8, <1>r DEF TypeOK, SyncSaveFails, In, Leave, Idle, Handlers
<1>9. CASE SyncEnd
  BY <1>9, <1>r, <1>w, CommitType
     DEF TypeOK, SyncEnd, In, Leave, Idle, Handlers
<1>10. CASE StopCommit
  BY <1>10, <1>r, <1>w, CommitType
     DEF TypeOK, StopCommit, In, Leave, Idle, Handlers
<1>11. CASE RestartNoPool
  BY <1>11, <1>r, <1>w, CommitType
     DEF TypeOK, RestartNoPool, In, Leave, Idle, Handlers
<1>12. CASE RestartGone
  BY <1>12, <1>r DEF TypeOK, RestartGone, In, Leave, Idle, Handlers
<1>13. CASE DeleteFiles
  BY <1>13, <1>r DEF TypeOK, DeleteFiles, In, Move, Handlers
<1>14. CASE DeleteFilesFails
  BY <1>14, <1>r DEF TypeOK, DeleteFilesFails, In, Leave, Idle, Handlers
<1>15. CASE DeleteCommit
  BY <1>15, <1>r DEF TypeOK, DeleteCommit, In, Leave, Idle, Handlers
<1>16. ASSUME NEW e \in Entries, SubmitAsync(e) PROVE TypeOK'
  <2>1. EntriesOK'
    BY <1>16, <1>r, PostType DEF TypeOK, EntriesOK, SubmitAsync, In
  <2> QED
    BY <1>16, <1>r, <2>1
       DEF TypeOK, EntriesOK, SubmitAsync, Leave, Idle, Handlers
<1>17. ASSUME NEW e \in Entries, RestartCommit(e) PROVE TypeOK'
  <2>1. row' \in [Jobs -> Rows]
    BY <1>17, <1>r, <1>w, CommitType DEF TypeOK, RestartCommit, In
  <2>2. EntriesOK'
    BY <1>17, <1>r, PostType DEF TypeOK, EntriesOK, RestartCommit, In
  <2> QED
    BY <1>17, <1>r, <2>1, <2>2
       DEF TypeOK, EntriesOK, RestartCommit, Leave, Idle, Handlers
<1> QED
  BY <1>1, <1>2, <1>3, <1>4, <1>5, <1>6, <1>7, <1>8, <1>9, <1>10, <1>11,
     <1>12, <1>13, <1>14, <1>15, <1>16, <1>17 DEF ApiStep

LEMMA EnqueueType ==
    ASSUME TypeOK, NEW e \in Entries, EnqueueStep(e)
    PROVE  TypeOK'
<1>1. entry[e].at # "free" /\ entry[e].job \in Jobs
  BY DEF TypeOK, EnqueueStep, EnqueueArrives, EnqueueFails
<1>2. GoTo(e, "queued") \/ Finish(e)
  BY DEF EnqueueStep, EnqueueArrives, EnqueueFails
<1>3. EntriesOK'
  BY <1>1, <1>2, MoveType DEF TypeOK, EntriesOK, EntryStates
<1>4. CASE EnqueueArrives(e)
  BY <1>3, <1>4 DEF TypeOK, EntriesOK, EnqueueArrives
<1>5. CASE EnqueueFails(e)
  BY <1>1, <1>3, <1>5 DEF TypeOK, EntriesOK, EnqueueFails
<1> QED
  BY <1>4, <1>5 DEF EnqueueStep

LEMMA WorkerType ==
    ASSUME TypeOK, NEW e \in Entries, WorkerStep(e)
    PROVE  TypeOK'
<1>a. /\ entry[e].at # "free"
      /\ entry[e].at \notin {"queued", "posting", "free"} \/ entry[e].at = "queued"
  BY DEF WorkerStep, Pick, Exhausted, MarkProcessing, Refresh, RunWrites,
         RunFails, SaveResult, CommitFailure, CommitOutcome, WriteSidecars,
         WebhookReturns
<1>b. /\ entry[e] \in EntryRecords
      /\ JobOf(e) \in Jobs
      /\ RowOf(e) \in Rows
      /\ Loaded(e) \in Rows
  BY <1>a DEF TypeOK, EntryRecords, JobOf, RowOf, Loaded
<1>c. /\ Processing(RowOf(e), Loaded(e)) \in Rows
      /\ Failed(RowOf(e), Loaded(e), "failure") \in Rows
      /\ Done(RowOf(e), Loaded(e)) \in Rows
  BY <1>b, RowTypes
<1>m. ASSUME NEW s \in EntryStates, GoTo(e, s) \/ Close(e, s) \/ Finish(e)
      PROVE  EntriesOK'
  BY <1>a, <1>m, MoveType DEF TypeOK, EntriesOK
<1>s. {"queued", "loaded", "marked", "running", "wrote", "saved", "failing",
       "sidecars", "webhook"} \subseteq EntryStates
  BY DEF EntryStates, Active, Blocking
<1>1. CASE Pick(e)
  <2> DEFINE r == [entry[e] EXCEPT !.at = "loaded", !.try = @ + 1,
                                   !.loaded = RowOf(e)]
  <2>1. entry[e].try + 1 \in 0..MaxTries
    BY <1>1, <1>b, BoundsAssumption DEF Pick, EntryRecords
  <2>2. r \in EntryRecords /\ r.job \in Jobs
    BY <2>1, <1>b, <1>s DEF EntryRecords, JobOf
  <2>3. entry' = [entry EXCEPT ![e] = r] \/ Finish(e)
    BY <1>1 DEF Pick
  <2>4. EntriesOK'
    BY <2>2, <2>3, <1>m, <1>s, EntryType DEF TypeOK, EntriesOK
  <2> QED
    BY <1>1, <2>4 DEF TypeOK, EntriesOK, Pick
<1>2. CASE Exhausted(e)
  <2>1. EntriesOK'
    BY <1>2, <1>m, <1>s DEF Exhausted
  <2> QED
    BY <1>2, <1>b, <2>1 DEF TypeOK, EntriesOK, Exhausted
<1>3. CASE MarkProcessing(e)
  <2>1. EntriesOK'
    BY <1>3, <1>m, <1>s DEF MarkProcessing
  <2>2. row' \in [Jobs -> Rows]
    BY <1>3, <1>b, <1>c, CommitType DEF TypeOK, MarkProcessing
  <2> QED
    BY <1>3, <2>1, <2>2 DEF TypeOK, EntriesOK, MarkProcessing
<1>4. CASE Refresh(e)
  <2> DEFINE r(s) == [entry[e] EXCEPT !.at = s, !.loaded = RowOf(e)]
  <2>1. \A s \in EntryStates : r(s) \in EntryRecords /\ r(s).job \in Jobs
    BY <1>b DEF EntryRecords, JobOf
  <2>2. \/ entry' = [entry EXCEPT ![e] = r("running")]
        \/ entry' = [entry EXCEPT ![e] = r("failing")]
        \/ Finish(e)
    BY <1>4 DEF Refresh
  <2>3. EntriesOK'
    <3> HIDE DEF r
    <3> QED
      BY <2>1, <2>2, <1>m, <1>s, EntryType DEF TypeOK, EntriesOK
  <2> QED
    BY <1>4, <2>3 DEF TypeOK, EntriesOK, Refresh
<1>5. CASE RunWrites(e)
  <2>1. EntriesOK'
    BY <1>5, <1>m, <1>s DEF RunWrites
  <2> QED
    BY <1>5, <1>b, <2>1 DEF TypeOK, EntriesOK, RunWrites, Artefacts
<1>6. CASE RunFails(e)
  <2>1. EntriesOK'
    BY <1>6, <1>m, <1>s DEF RunFails
  <2> QED
    BY <1>6, <2>1 DEF TypeOK, EntriesOK, RunFails
<1>7. CASE SaveResult(e)
  <2>1. EntriesOK'
    BY <1>7, <1>m, <1>s DEF SaveResult
  <2> QED
    BY <1>7, <1>b, <2>1 DEF TypeOK, EntriesOK, SaveResult, Artefacts
<1>8. CASE CommitFailure(e)
  <2>1. EntriesOK'
    BY <1>8, <1>m, <1>s DEF CommitFailure
  <2>2. row' \in [Jobs -> Rows]
    BY <1>8, <1>b, <1>c, CommitType DEF TypeOK, CommitFailure
  <2> QED
    BY <1>8, <2>1, <2>2 DEF TypeOK, EntriesOK, CommitFailure
<1>9. CASE CommitOutcome(e)
  <2>1. EntriesOK'
    BY <1>9, <1>m, <1>s DEF CommitOutcome
  <2>2. row' \in [Jobs -> Rows]
    BY <1>9, <1>b, <1>c, CommitType DEF TypeOK, CommitOutcome
  <2> QED
    BY <1>9, <2>1, <2>2 DEF TypeOK, EntriesOK, CommitOutcome
<1>10. CASE WriteSidecars(e)
  <2>1. EntriesOK'
    BY <1>10, <1>m, <1>s DEF WriteSidecars
  <2> QED
    BY <1>10, <2>1 DEF TypeOK, EntriesOK, WriteSidecars
<1>11. CASE WebhookReturns(e)
  <2>1. EntriesOK'
    BY <1>11, <1>m, <1>s DEF WebhookReturns
  <2> QED
    BY <1>11, <2>1 DEF TypeOK, EntriesOK, WebhookReturns
<1> QED
  BY <1>1, <1>2, <1>3, <1>4, <1>5, <1>6, <1>7, <1>8, <1>9, <1>10, <1>11
     DEF WorkerStep

LEMMA CleanerType == TypeOK /\ CleanerStep => TypeOK'
<1> SUFFICES ASSUME TypeOK, CleanerStep PROVE TypeOK'
  OBVIOUS
<1>0. NoRow \in Rows
  BY DEF NoRow, Rows
<1>1. CASE SelectExpired
  <2>1. PICK expired \in (SUBSET Finished) \ {{}} :
            cleaner' = [at |-> "purging", todo |-> expired, doomed |-> {}]
    BY <1>1 DEF SelectExpired
  <2>2. cleaner' \in CleanerRecords
    BY <2>1 DEF CleanerRecords, Finished
  <2> QED
    BY <1>1, <2>2 DEF TypeOK, SelectExpired
<1>2. CASE CommitDeletes
  <2>1. row' \in [Jobs -> Rows]
    BY <1>0, <1>2 DEF TypeOK, CommitDeletes
  <2>2. cleaner' \in CleanerRecords
    BY <1>2 DEF CommitDeletes, NoPass, CleanerRecords
  <2> QED
    BY <1>2, <2>1, <2>2 DEF TypeOK, CommitDeletes
<1>3. ASSUME NEW j \in Jobs, PurgeFiles(j) PROVE TypeOK'
  BY <1>3 DEF TypeOK, PurgeFiles, CleanerRecords
<1>4. ASSUME NEW j \in Jobs, PurgeFails(j) PROVE TypeOK'
  BY <1>4 DEF TypeOK, PurgeFails, CleanerRecords
<1> QED
  BY <1>1, <1>2, <1>3, <1>4 DEF CleanerStep

LEMMA CrashType == TypeOK /\ Crash => TypeOK'
<1> SUFFICES ASSUME TypeOK, Crash PROVE TypeOK'
  OBVIOUS
<1>0. NoRow \in Rows
  BY DEF NoRow, Rows
<1>1. CASE ApiCrash
  <2>1. EntriesOK'
    <3>1. ASSUME NEW e \in Entries, entry[e].at = "posting"
          PROVE  Gone(e) \in EntryRecords /\ Gone(e).job \in Jobs
      BY <1>0, <3>1, BoundsAssumption
         DEF TypeOK, Gone, EntryRecords, EntryStates
    <3>2. \A e \in Entries :
             entry'[e] = IF entry[e].at = "posting" THEN Gone(e) ELSE entry[e]
      BY <1>1 DEF ApiCrash
    <3>3. entry' = [e \in Entries |-> entry'[e]]
      BY <1>1 DEF ApiCrash
    <3> QED
      BY <3>1, <3>2, <3>3 DEF TypeOK, EntriesOK
  <2>2. stranded' \subseteq Jobs
    BY <1>1 DEF TypeOK, ApiCrash, Submitting
  <2> QED
    BY <1>0, <1>1, <2>1, <2>2 DEF TypeOK, EntriesOK, ApiCrash, Leave, Idle, Handlers
<1>2. CASE WorkerCrash
  <2> DEFINE again(e) == [entry[e] EXCEPT !.at = "queued", !.loaded = NoRow]
  <2>1. EntriesOK'
    <3>1. ASSUME NEW e \in Entries, entry[e].at \in Active
          PROVE  again(e) \in EntryRecords /\ again(e).job \in Jobs
      <4>1. entry[e] \in EntryRecords /\ entry[e].job \in Jobs
        BY <3>1 DEF TypeOK, Active, Blocking
      <4> QED
        BY <1>0, <4>1 DEF EntryRecords, EntryStates
    <3>2. \A e \in Entries :
             entry'[e] = IF entry[e].at \in Active THEN again(e) ELSE entry[e]
      BY <1>2 DEF WorkerCrash
    <3>3. entry' = [e \in Entries |-> entry'[e]]
      BY <1>2 DEF WorkerCrash
    <3> HIDE DEF again
    <3> QED
      BY <3>1, <3>2, <3>3 DEF TypeOK, EntriesOK
  <2> QED
    BY <1>2, <2>1 DEF TypeOK, EntriesOK, WorkerCrash
<1>3. CASE CleanerCrash
  BY <1>3 DEF TypeOK, CleanerCrash, NoPass, CleanerRecords
<1> QED
  BY <1>1, <1>2, <1>3 DEF Crash

(* Every reachable state is well typed: handlers, tasks and the cleanup     *)
(* only ever work on jobs, and commits only ever write rows.                *)
THEOREM TypeCorrect == Spec => []TypeOK
<1>1. Init => TypeOK
  BY BoundsAssumption
     DEF Init, TypeOK, NoRow, Rows, FreeEntry, EntryRecords, EntryStates,
         Idle, Handlers, NoPass, CleanerRecords
<1>2. TypeOK /\ [Next]_vars => TypeOK'
  <2> SUFFICES ASSUME TypeOK, [Next]_vars PROVE TypeOK'
    OBVIOUS
  <2>1. CASE UNCHANGED vars
    BY <2>1 DEF TypeOK, vars
  <2>2. CASE Next
    BY <2>2, RequestType, ApiStepType, EnqueueType, WorkerType, CleanerType,
       CrashType DEF Next
  <2> QED
    BY <2>1, <2>2
<1> QED
  BY <1>1, <1>2, PTL DEF Spec

-----------------------------------------------------------------------------
(* No job is lost.                                                         *)

(* The status a commit leaves: the one it assigns, unless the copy already  *)
(* said so; then the one the table holds.                                   *)
LEMMA StatusAfter ==
    ASSUME NEW cur \in Rows, NEW loaded \in Rows,
           NEW why \in {"none", "stopped", "failure"}
    PROVE  /\ Failed(cur, loaded, why).status =
                 IF loaded.status = "failed" THEN cur.status ELSE "failed"
           /\ Done(cur, loaded).status =
                 IF loaded.status = "done" THEN cur.status ELSE "done"
           /\ Processing(cur, loaded).status =
                 IF loaded.status = "processing" THEN cur.status
                                                 ELSE "processing"
           /\ Reset(cur, loaded).status =
                 IF loaded.status = "pending" THEN cur.status ELSE "pending"
BY DEF Failed, Done, Processing, Reset, Flush, Column, NewRow, NoRow, Rows

(* A submission still holds the copy it made of its new row, or of the row  *)
(* that it marked.                                                          *)
SubmitsOpenRow ==
    /\ api.at \in {"upload", "dispatch"} => api.loaded.status = "pending"
    /\ api.at \in {"sync", "syncsave", "syncend"} =>
          api.loaded.status = "processing"

LostInv == TypeOK /\ SubmitsOpenRow /\ NoLostJob

LEMMA RequestLost == LostInv /\ Request => SubmitsOpenRow' /\ NoLostJob'
<1> SUFFICES ASSUME LostInv, NEW j \in Jobs,
                    SubmitInsert(j) \/ StopRead(j) \/ RestartRead(j)
                      \/ DeleteRead(j)
             PROVE  SubmitsOpenRow' /\ NoLostJob'
  BY DEF Request
<1>1. api = Idle /\ UNCHANGED <<entry, stranded>>
  BY DEF SubmitInsert, StopRead, RestartRead, DeleteRead, Enter
<1>2. CASE SubmitInsert(j)
  <2>1. /\ api'.at = "upload" /\ api'.job = j
        /\ api'.loaded.status = "pending"
        /\ \A k \in Jobs : k # j => row'[k] = row[k]
    BY <1>2 DEF SubmitInsert, NewRow, NoRow, LostInv, TypeOK
  <2> QED
    BY <1>1, <2>1
       DEF LostInv, NoLostJob, SubmitsOpenRow, Served, Serves, Submitting,
           Idle, Open
<1>3. CASE StopRead(j) \/ RestartRead(j) \/ DeleteRead(j)
  <2>1. /\ api'.at \notin Submitting
        /\ UNCHANGED row
    BY <1>3 DEF StopRead, RestartRead, DeleteRead, Enter, Submitting
  <2> QED
    BY <1>1, <2>1
       DEF LostInv, NoLostJob, SubmitsOpenRow, Served, Serves, Submitting, Idle
<1> QED
  BY <1>2, <1>3

LEMMA ApiStepLost == LostInv /\ ApiStep => SubmitsOpenRow' /\ NoLostJob'
<1> SUFFICES ASSUME LostInv, ApiStep PROVE SubmitsOpenRow' /\ NoLostJob'
  OBVIOUS
<1> PICK j : j = api.job
  OBVIOUS
<1> DEFINE cur == row[j]
<1>r. /\ j = api.job
      /\ api.at # "idle" => j \in Jobs /\ cur \in Rows
      /\ api.loaded \in Rows
      /\ row \in [Jobs -> Rows]
      /\ api.at \in Submitting => api.loaded.status \in {"pending", "processing"}
  BY DEF LostInv, TypeOK, SubmitsOpenRow, Submitting
<1>s. ASSUME api.at # "idle"
      PROVE  /\ Failed(cur, api.loaded, "failure").status =
                  IF api.loaded.status = "failed" THEN cur.status ELSE "failed"
             /\ Failed(cur, api.loaded, "stopped").status \in {"failed", cur.status}
             /\ Done(cur, api.loaded).status =
                  IF api.loaded.status = "done" THEN cur.status ELSE "done"
             /\ Processing(cur, api.loaded).status =
                  IF api.loaded.status = "processing" THEN cur.status
                                                      ELSE "processing"
  BY <1>r, <1>s, StatusAfter
(* The submission goes on with the row as it is, or ends it.                *)
<1>1. CASE SubmitSave \/ SyncRuns \/ SyncSave
  BY <1>1 DEF SubmitSave, SyncRuns, SyncSave, In, Move, LostInv, TypeOK,
              SubmitsOpenRow, NoLostJob, Served, Serves, Submitting
<1>2. CASE SyncStart
  <2>1. /\ api.at = "dispatch" /\ api'.at = "sync" /\ api'.job = j
        /\ api'.loaded = Processing(cur, api.loaded)
        /\ UNCHANGED <<entry, stranded>>
        /\ \A k \in Jobs : k # j => row'[k] = row[k]
        /\ j \in Jobs
    BY <1>2, <1>r DEF SyncStart, In, Commit, LostInv, TypeOK
  <2>2. api.loaded.status = "pending"
    BY <2>1 DEF LostInv, SubmitsOpenRow
  <2>3. Processing(cur, api.loaded).status = "processing"
    BY <2>1, <2>2, <1>s
  <2> QED
    BY <2>1, <2>3
       DEF LostInv, SubmitsOpenRow, NoLostJob, Served, Serves, Submitting
<1>3. CASE SubmitSaveFails \/ SyncFails \/ SyncEnd
  <2>1. /\ api.at \in Submitting /\ api' = Idle
        /\ UNCHANGED <<entry, stranded>>
        /\ \/ Commit(j, Failed(cur, api.loaded, "failure"))
           \/ Commit(j, Done(cur, api.loaded))
    BY <1>3 DEF SubmitSaveFails, SyncFails, SyncEnd, In, Leave, Submitting
  <2>2. j \in Jobs
    BY <2>1, <1>r DEF Submitting
  <2>3. /\ row'[j].status \notin Open
        /\ \A k \in Jobs : k # j => row'[k] = row[k]
    BY <2>1, <2>2, <1>r, <1>s DEF Commit, Exists, Open, Submitting
  <2> QED
    BY <2>1, <2>2, <2>3
       DEF LostInv, SubmitsOpenRow, NoLostJob, Served, Serves, Submitting, Idle
<1>4. CASE SubmitNoPool \/ SyncSaveFails
  BY <1>4, <1>r
     DEF SubmitNoPool, SyncSaveFails, In, Leave, Idle, LostInv, SubmitsOpenRow,
         NoLostJob, Served, Serves, Submitting
<1>5. CASE StopCommit
  <2>1. /\ api.at = "stop" /\ api' = Idle /\ UNCHANGED <<entry, stranded>>
        /\ Commit(j, Failed(cur, api.loaded, "stopped"))
    BY <1>5 DEF StopCommit, In, Leave
  <2>2. \A k \in Jobs : row'[k].status \in Open => row[k].status \in Open
    BY <2>1, <1>r, <1>s DEF Commit, Open
  <2> QED
    BY <2>1, <2>2
       DEF LostInv, SubmitsOpenRow, NoLostJob, Served, Serves, Submitting, Idle
<1>6. CASE RestartNoPool
  <2>1. /\ api.at = "restart" /\ api' = Idle /\ UNCHANGED entry
        /\ stranded' = stranded \cup {j} /\ j \in Jobs
        /\ \A k \in Jobs : k # j => row'[k] = row[k]
    BY <1>6, <1>r DEF RestartNoPool, In, Leave, Commit
  <2> QED
    BY <2>1
       DEF LostInv, SubmitsOpenRow, NoLostJob, Served, Serves, Submitting, Idle
<1>7. CASE RestartGone \/ DeleteFiles \/ DeleteFilesFails
  BY <1>7
     DEF RestartGone, DeleteFiles, DeleteFilesFails, In, Leave, Move, Idle,
         LostInv, TypeOK, SubmitsOpenRow, NoLostJob, Served, Serves, Submitting
<1>8. CASE DeleteCommit
  <2>1. /\ api.at = "delete" /\ api' = Idle /\ UNCHANGED <<entry, stranded>>
        /\ row' = [row EXCEPT ![j] = NoRow]
    BY <1>8 DEF DeleteCommit, In, Leave
  <2>2. \A k \in Jobs : row'[k].status \in Open => row[k].status \in Open
    BY <2>1, <1>r DEF NoRow, Open
  <2> QED
    BY <2>1, <2>2
       DEF LostInv, SubmitsOpenRow, NoLostJob, Served, Serves, Submitting, Idle
(* The job leaves the handler with an entry of its own.                     *)
<1>9. ASSUME NEW e \in Entries, SubmitAsync(e) \/ RestartCommit(e)
      PROVE  SubmitsOpenRow' /\ NoLostJob'
  <2>1. /\ api' = Idle /\ j \in Jobs /\ api.at # "idle"
        /\ Post(j, e)
        /\ \A k \in Jobs \ {j} : /\ row'[k] = row[k]
                                 /\ k \in stranded => k \in stranded'
        /\ api.at = "dispatch" \/ api.at = "restart"
    BY <1>9, <1>r DEF SubmitAsync, RestartCommit, In, Leave, Commit
  <2>2. /\ entry'[e].at = "posting" /\ entry'[e].job = j
        /\ entry[e].at = "free"
        /\ \A f \in Entries : f # e => entry'[f] = entry[f]
    <3>1. entry \in [Entries -> EntryRecords]
      BY DEF LostInv, TypeOK
    <3> QED
      BY <2>1, <3>1 DEF Post, EntryRecords
  <2>3. Served(j)'
    BY <2>2 DEF Served, Serves
  <2>4. \A k \in Jobs \ {j} : Served(k) => Served(k)'
    BY <2>1, <2>2 DEF Served, Serves
  <2> QED
    BY <2>1, <2>3, <2>4
       DEF LostInv, SubmitsOpenRow, NoLostJob, Submitting, Idle
<1> QED
  BY <1>1, <1>2, <1>3, <1>4, <1>5, <1>6, <1>7, <1>8, <1>9 DEF ApiStep

LEMMA EnqueueLost ==
    ASSUME LostInv, NEW e \in Entries, EnqueueStep(e)
    PROVE  SubmitsOpenRow' /\ NoLostJob'
<1>0. /\ entry \in [Entries -> EntryRecords]
      /\ entry[e].job \in Jobs
  BY DEF LostInv, TypeOK, EnqueueStep, EnqueueArrives, EnqueueFails
<1>1. UNCHANGED <<row, api>> /\ entry[e].at = "posting"
  BY DEF EnqueueStep, EnqueueArrives, EnqueueFails
<1>2. \A f \in Entries : f # e => entry'[f] = entry[f]
  BY <1>0 DEF EnqueueStep, EnqueueArrives, EnqueueFails, GoTo, Finish
<1>3. CASE EnqueueArrives(e)
  <2>1. entry'[e].at = "queued" /\ entry'[e].job = entry[e].job /\ UNCHANGED stranded
    BY <1>0, <1>3 DEF EnqueueArrives, GoTo, EntryRecords
  <2> QED
    BY <1>1, <1>2, <2>1 DEF LostInv, SubmitsOpenRow, NoLostJob, Served, Serves
<1>4. CASE EnqueueFails(e)
  <2>1. stranded' = stranded \cup {entry[e].job}
    BY <1>4 DEF EnqueueFails
  <2> QED
    BY <1>1, <1>2, <2>1 DEF LostInv, SubmitsOpenRow, NoLostJob, Served, Serves
<1> QED
  BY <1>3, <1>4 DEF EnqueueStep

LEMMA WorkerLost ==
    ASSUME LostInv, NEW e \in Entries, WorkerStep(e)
    PROVE  SubmitsOpenRow' /\ NoLostJob'
<1> PICK j : j = JobOf(e)
  OBVIOUS
<1> DEFINE cur == row[j]
<1>0. /\ entry \in [Entries -> EntryRecords]
      /\ row \in [Jobs -> Rows]
      /\ entry[e].at # "free"
      /\ j = entry[e].job /\ j \in Jobs
      /\ cur \in Rows /\ cur = RowOf(e)
      /\ Loaded(e) \in Rows /\ Loaded(e) = entry[e].loaded
  BY DEF LostInv, TypeOK, EntryRecords, WorkerStep, Pick, Exhausted,
         MarkProcessing, Refresh, RunWrites, RunFails, SaveResult,
         CommitFailure, CommitOutcome, WriteSidecars, WebhookReturns,
         JobOf, RowOf, Loaded
<1>1. /\ UNCHANGED api
      /\ stranded \subseteq stranded'
      /\ \A f \in Entries : f # e => entry'[f] = entry[f]
      /\ \A k \in Jobs : k # j => row'[k] = row[k]
  BY <1>0
     DEF WorkerStep, Pick, Exhausted, MarkProcessing, Refresh, RunWrites,
         RunFails, SaveResult, CommitFailure, CommitOutcome, WriteSidecars,
         WebhookReturns, GoTo, Close, Finish, Commit
<1>2. \A k \in Jobs : k # j => ~Serves(e, k) /\ ~Serves(e, k)'
  <2>1. entry'[e].job = j
    BY <1>0
       DEF WorkerStep, Pick, Exhausted, MarkProcessing, Refresh, RunWrites,
           RunFails, SaveResult, CommitFailure, CommitOutcome, WriteSidecars,
           WebhookReturns, GoTo, Close, Finish, Gone, EntryRecords
  <2> QED
    BY <1>0, <2>1 DEF Serves
<1>3. SubmitsOpenRow'
  BY <1>1 DEF LostInv, SubmitsOpenRow
(* Jobs of other entries are as they were; it remains to look at j.         *)
<1>k. ASSUME NEW k \in Jobs, k # j, row'[k].status \in Open
      PROVE  k \in stranded' \/ Served(k)'
  BY <1>k, <1>1, <1>2 DEF LostInv, NoLostJob, Served, Serves
<1>o. ASSUME row[j].status \in Open, ~Serves(e, j)
      PROVE  j \in stranded' \/ Served(j)'
  BY <1>o, <1>0, <1>1 DEF LostInv, NoLostJob, Served, Serves
<1>e. ASSUME Serves(e, j)' PROVE Served(j)'
  BY <1>e DEF Served
<1>4. ASSUME row'[j].status \in Open PROVE j \in stranded' \/ Served(j)'
  <2>1. CASE Pick(e)
    <3>1. row[j].status \in Open /\ Exists(j)
      BY <1>4, <2>1 DEF Pick, Exists, Open
    <3>2. entry'[e].at = "loaded" /\ entry'[e].job = j
      BY <1>0, <2>1, <3>1 DEF Pick, EntryRecords
    <3> QED
      BY <3>2, <1>e DEF Serves
  <2>2. CASE Exhausted(e)
    BY <1>0, <2>2 DEF Exhausted
  <2>3. CASE MarkProcessing(e)
    <3>1. Exists(j)
      BY <1>4, <1>0, <2>3 DEF MarkProcessing, Commit, Exists, Open
    <3>2. entry'[e].at = "marked" /\ entry'[e].job = j
      BY <1>0, <2>3, <3>1 DEF MarkProcessing, Close, EntryRecords
    <3> QED
      BY <3>2, <1>e DEF Serves
  <2>4. CASE Refresh(e)
    <3>1. row[j].status \in Open /\ Exists(j)
      BY <1>4, <2>4 DEF Refresh, Exists, Open
    <3>2. /\ entry'[e].at \in {"running", "failing"}
          /\ entry'[e].job = j /\ entry'[e].loaded = row[j]
      BY <1>0, <2>4, <3>1 DEF Refresh, EntryRecords
    <3> QED
      BY <3>1, <3>2, <1>e DEF Serves
  <2>5. CASE RunWrites(e) \/ RunFails(e) \/ SaveResult(e)
    <3>1. row[j].status \in Open
      BY <1>4, <2>5 DEF RunWrites, RunFails, SaveResult
    <3>2. /\ entry'[e].at \in {"wrote", "saved", "failing"}
          /\ entry'[e].job = j /\ entry'[e].loaded = entry[e].loaded
          /\ entry[e].at \in {"running", "wrote"}
      BY <1>0, <2>5 DEF RunWrites, RunFails, SaveResult, GoTo, EntryRecords
    <3>3. CASE Serves(e, j)
      BY <3>2, <3>3, <1>e DEF Serves
    <3> QED
      BY <3>1, <3>3, <1>o
  <2>6. CASE CommitFailure(e)
    <3>1. /\ entry[e].at = "failing"
          /\ Commit(j, Failed(cur, Loaded(e), "failure"))
      BY <1>0, <2>6 DEF CommitFailure
    <3>2. row[j].status \in Open /\ Loaded(e).status = "failed"
      BY <1>0, <1>4, <3>1, StatusAfter DEF Commit, Exists, Open
    <3>3. ~Serves(e, j)
      BY <1>0, <3>1, <3>2 DEF Serves, Open
    <3> QED
      BY <3>2, <3>3, <1>o
  <2>7. CASE CommitOutcome(e)
    <3>1. /\ entry[e].at = "saved"
          /\ \/ Commit(j, Failed(cur, Loaded(e), "failure"))
             \/ Commit(j, Done(cur, Loaded(e)))
      BY <1>0, <2>7 DEF CommitOutcome
    <3>2. row[j].status \in Open /\ Loaded(e).status \in {"failed", "done"}
      BY <1>0, <1>4, <3>1, StatusAfter DEF Commit, Exists, Open
    <3>3. ~Serves(e, j)
      BY <1>0, <3>1, <3>2 DEF Serves, Open
    <3> QED
      BY <3>2, <3>3, <1>o
  <2>8. CASE WriteSidecars(e) \/ WebhookReturns(e)
    <3>1. row[j].status \in Open /\ entry[e].at \in {"sidecars", "webhook"}
      BY <1>4, <2>8 DEF WriteSidecars, WebhookReturns
    <3>2. ~Serves(e, j)
      BY <3>1 DEF Serves
    <3> QED
      BY <3>1, <3>2, <1>o
  <2> QED
    BY <2>1, <2>2, <2>3, <2>4, <2>5, <2>6, <2>7, <2>8 DEF WorkerStep
<1> QED
  BY <1>3, <1>4, <1>k DEF NoLostJob

LEMMA CleanerLost == LostInv /\ CleanerStep => SubmitsOpenRow' /\ NoLostJob'
<1> SUFFICES ASSUME LostInv, CleanerStep PROVE SubmitsOpenRow' /\ NoLostJob'
  OBVIOUS
<1>1. UNCHANGED <<entry, api, stranded>>
  BY DEF CleanerStep, SelectExpired, CommitDeletes, PurgeFiles, PurgeFails
<1>2. \A k \in Jobs : row'[k].status \in Open => row[k].status \in Open
  <2>1. CASE UNCHANGED row
    BY <2>1
  <2>2. CASE CommitDeletes
    BY <2>2 DEF CommitDeletes, NoRow, Open
  <2> QED
    BY <2>1, <2>2 DEF CleanerStep, SelectExpired, PurgeFiles, PurgeFails
<1> QED
  BY <1>1, <1>2 DEF LostInv, SubmitsOpenRow, NoLostJob, Served, Serves

LEMMA CrashLost == LostInv /\ Crash => SubmitsOpenRow' /\ NoLostJob'
<1> SUFFICES ASSUME LostInv, Crash PROVE SubmitsOpenRow' /\ NoLostJob'
  OBVIOUS
<1>1. CASE ApiCrash
  <2>1. /\ UNCHANGED row /\ api' = Idle
        /\ stranded \subseteq stranded'
        /\ \A f \in Entries : /\ entry[f].at # "posting" => entry'[f] = entry[f]
                              /\ entry[f].at = "posting" => entry[f].job \in stranded'
        /\ api.at \in Submitting => api.job \in stranded'
    BY <1>1 DEF ApiCrash, Leave
  <2> QED
    BY <2>1
       DEF LostInv, SubmitsOpenRow, NoLostJob, Served, Serves, Idle, Submitting
<1>2. CASE WorkerCrash
  <2>1. /\ UNCHANGED <<row, api, stranded>>
        /\ \A f \in Entries : /\ entry[f].at \notin Active => entry'[f] = entry[f]
                              /\ entry[f].at \in Active =>
                                    /\ entry'[f].at = "queued"
                                    /\ entry'[f].job = entry[f].job
    BY <1>2 DEF WorkerCrash, LostInv, TypeOK, EntryRecords
  <2> QED
    BY <2>1 DEF LostInv, SubmitsOpenRow, NoLostJob, Served, Serves
<1>3. CASE CleanerCrash
  BY <1>3
     DEF CleanerCrash, LostInv, SubmitsOpenRow, NoLostJob, Served, Serves
<1> QED
  BY <1>1, <1>2, <1>3 DEF Crash

(* Whatever the interleaving, a job that is pending or processing is being  *)
(* submitted, has an entry or a task that ends it, or was stranded by one   *)
(* of the failures JobLifecycle names.                                      *)
THEOREM NoJobIsLost == Spec => []NoLostJob
<1>1. Init => LostInv
  <2>1. Init => TypeOK
    BY BoundsAssumption
       DEF Init, TypeOK, NoRow, Rows, FreeEntry, EntryRecords, EntryStates,
           Idle, Handlers, NoPass, CleanerRecords
  <2> QED
    BY <2>1 DEF Init, LostInv, SubmitsOpenRow, NoLostJob, NoRow, Open, Idle
<1>2. LostInv /\ [Next]_vars => LostInv'
  <2> SUFFICES ASSUME LostInv, [Next]_vars PROVE LostInv'
    OBVIOUS
  <2>1. TypeOK'
    <3>1. CASE UNCHANGED vars
      BY <3>1 DEF LostInv, TypeOK, vars
    <3>2. CASE Next
      BY <3>2, RequestType, ApiStepType, EnqueueType, WorkerType, CleanerType,
         CrashType DEF Next, LostInv
    <3> QED
      BY <3>1, <3>2
  <2>2. CASE UNCHANGED vars
    BY <2>1, <2>2
       DEF vars, LostInv, SubmitsOpenRow, NoLostJob, Served, Serves
  <2>3. CASE Next
    BY <2>1, <2>3, RequestLost, ApiStepLost, EnqueueLost, WorkerLost,
       CleanerLost, CrashLost DEF Next, LostInv
  <2> QED
    BY <2>2, <2>3
<1>3. LostInv => NoLostJob
  BY DEF LostInv
<1> QED
  BY <1>1, <1>2, <1>3, PTL DEF Spec

-----------------------------------------------------------------------------
(* Deletion is final.                                                      *)

LEMMA CommitKeepsGone ==
    ASSUME NEW j \in Jobs, NEW k \in Jobs, NEW new, row[k] = NoRow,
           row \in [Jobs -> Rows], Commit(j, new)
    PROVE  row'[k] = NoRow
<1>1. CASE k = j
  <2>1. ~Exists(j)
    BY <1>1 DEF Exists, NoRow
  <2> QED
    BY <1>1, <2>1 DEF Commit
<1>2. CASE k # j
  BY <1>2 DEF Commit
<1> QED
  BY <1>1, <1>2

(* No step of any process writes back a row that was deleted.               *)
LEMMA GoneStaysGone ==
    ASSUME TypeOK, Next, NEW k \in used, row[k] = NoRow
    PROVE  row'[k] = NoRow
<1>0. /\ k \in Jobs /\ row \in [Jobs -> Rows]
      /\ api.at # "idle" => api.job \in Jobs
  BY DEF TypeOK
<1>1. CASE Request
  <2>1. ASSUME NEW j \in Jobs, SubmitInsert(j) PROVE row'[k] = NoRow
    BY <1>0, <2>1 DEF SubmitInsert
  <2> QED
    BY <1>1, <2>1 DEF Request, StopRead, RestartRead, DeleteRead
<1>2. CASE ApiStep
  <2>1. CASE UNCHANGED row
    BY <2>1
  <2>2. CASE DeleteCommit
    BY <1>0, <2>2 DEF DeleteCommit
  <2>3. ASSUME NEW new, api.at # "idle", Commit(api.job, new)
        PROVE  row'[k] = NoRow
    BY <1>0, <2>3, CommitKeepsGone
  <2>4. \/ UNCHANGED row \/ DeleteCommit
        \/ api.at # "idle" /\ \E new \in {Failed(row[api.job], api.loaded, "failure"),
                          Failed(row[api.job], api.loaded, "stopped"),
                          Processing(row[api.job], api.loaded),
                          Done(row[api.job], api.loaded),
                          Reset(row[api.job], api.loaded)} : Commit(api.job, new)
    BY <1>2
       DEF ApiStep, SubmitSave, SubmitSaveFails, SubmitNoPool, SyncStart,
           SyncFails, SyncRuns, SyncSave, SyncSaveFails, SyncEnd, StopCommit,
           RestartNoPool, RestartGone, DeleteFiles, DeleteFilesFails,
           SubmitAsync, RestartCommit, In
  <2> QED
    BY <2>1, <2>2, <2>3, <2>4
<1>3. ASSUME NEW e \in Entries, EnqueueStep(e) \/ WorkerStep(e)
      PROVE  row'[k] = NoRow
  <2>1. CASE UNCHANGED row
    BY <2>1
  <2>2. ASSUME NEW new, JobOf(e) \in Jobs, Commit(JobOf(e), new)
        PROVE  row'[k] = NoRow
    BY <1>0, <2>2, CommitKeepsGone
  <2>3. \/ UNCHANGED row
        \/ /\ JobOf(e) \in Jobs
           /\ \E new \in {Failed(RowOf(e), Loaded(e), "failure"),
                          Processing(RowOf(e), Loaded(e)),
                          Done(RowOf(e), Loaded(e))} : Commit(JobOf(e), new)
    BY <1>3
       DEF TypeOK, JobOf, EnqueueStep, EnqueueArrives, EnqueueFails,
           WorkerStep, Pick, Exhausted, MarkProcessing, Refresh, RunWrites,
           RunFails, SaveResult, CommitFailure, CommitOutcome, WriteSidecars,
           WebhookReturns
  <2> QED
    BY <2>1, <2>2, <2>3
<1>4. CASE CleanerStep \/ Crash
  <2>1. CASE CommitDeletes
    BY <1>0, <2>1 DEF CommitDeletes
  <2>2. CASE UNCHANGED row
    BY <2>2
  <2> QED
    BY <1>4, <2>1, <2>2
       DEF CleanerStep, SelectExpired, PurgeFiles, PurgeFails, Crash, ApiCrash,
           WorkerCrash, CleanerCrash
<1> QED
  BY <1>1, <1>2, <1>3, <1>4 DEF Next

(* A job whose row was deleted stays deleted, whoever had loaded it before. *)
THEOREM DeletionIsFinal == Spec => DeletedStaysDeleted
<1>1. TypeOK /\ [Next]_vars =>
         [\A j \in used : row[j] = NoRow => row'[j] = NoRow]_vars
  BY GoneStaysGone
<1> QED
  BY <1>1, TypeCorrect, PTL DEF Spec, DeletedStaysDeleted

-----------------------------------------------------------------------------
(* Without restarts, finished rows are complete.                           *)

Complete(r) == /\ r.status \in Terminal => r.finished
               /\ r.status = "failed" => r.error # "none"

(* What copy c of a row says of its end, the row r says too.                *)
Holds(c, r) == /\ c.finished => r.finished
               /\ c.error # "none" => r.error # "none"

(* The handlers and tasks that are under way hold copies of rows whose end  *)
(* is not taken back.                                                       *)
CopiesHold ==
    /\ api.at # "restart"
    /\ \A j \in Jobs : Exists(j) => j \in used
    /\ api.at # "idle" =>
          /\ api.job \in used
          /\ Exists(api.job) => Holds(api.loaded, row[api.job])
    /\ \A e \in Entries : entry[e].at = "free" => entry[e].loaded = NoRow
    /\ \A e \in Entries : entry[e].at # "free" =>
          /\ entry[e].job \in used
          /\ Exists(entry[e].job) => Holds(entry[e].loaded, row[entry[e].job])

SettledInv == TypeOK /\ CopiesHold /\ SettledRowsComplete

(* A commit over a row that has moved on since the copy was made leaves it  *)
(* complete, and takes neither time stamp nor reason back.                  *)
LEMMA CommitCompletes ==
    ASSUME NEW cur \in Rows, NEW loaded \in Rows,
           NEW why \in {"stopped", "failure"},
           Holds(loaded, cur), Complete(cur),
           NEW new \in {Processing(cur, loaded), Failed(cur, loaded, why),
                        Done(cur, loaded)}
    PROVE  Complete(new) /\ Holds(cur, new)
<1>1. CASE new = Processing(cur, loaded)
  BY <1>1
     DEF Processing, Flush, Column, Complete, Holds, Rows, Terminal, Open
<1>2. CASE new = Failed(cur, loaded, why)
  BY <1>2 DEF Failed, Flush, Column, Complete, Holds, Rows, Terminal, Open
<1>3. CASE new = Done(cur, loaded)
  BY <1>3 DEF Done, Flush, Column, Complete, Holds, Rows, Terminal, Open
<1> QED
  BY <1>1, <1>2, <1>3

(* What a step may do to row k.                                             *)
Moved(k) ==
    \/ row'[k] = row[k]
    \/ row'[k] = NoRow
    \/ Exists(k) /\ Complete(row'[k]) /\ Holds(row[k], row'[k])
    \/ k \in used' \ used /\ row'[k] = NewRow

LEMMA CommitMoves ==
    ASSUME SettledInv, NEW j \in Jobs, NEW loaded \in Rows,
           NEW why \in {"stopped", "failure"},
           Exists(j) => Holds(loaded, row[j]),
           \E new \in {Processing(row[j], loaded), Failed(row[j], loaded, why),
                       Done(row[j], loaded)} : Commit(j, new),
           NEW k \in Jobs
    PROVE  Moved(k)
<1>1. row \in [Jobs -> Rows] /\ row[j] \in Rows
  BY DEF SettledInv, TypeOK
<1>2. CASE ~Exists(j) \/ k # j
  BY <1>1, <1>2 DEF Commit, Moved
<1>3. CASE Exists(j) /\ k = j
  <2>1. Complete(row[j])
    BY DEF SettledInv, SettledRowsComplete, Complete
  <2>2. PICK new \in {Processing(row[j], loaded), Failed(row[j], loaded, why),
                      Done(row[j], loaded)} : Commit(j, new)
    OBVIOUS
  <2>3. Complete(new) /\ Holds(row[j], new)
    BY <1>1, <1>3, <2>1, CommitCompletes
  <2>4. row'[j] = new
    BY <1>1, <1>3, <2>2 DEF Commit
  <2> QED
    BY <1>3, <2>3, <2>4 DEF Moved
<1> QED
  BY <1>2, <1>3

LEMMA RowsMove ==
    ASSUME "restart" \notin Operations, SettledInv, Next, NEW k \in Jobs
    PROVE  Moved(k)
<1>0. /\ row \in [Jobs -> Rows]
      /\ api.at # "idle" => api.job \in Jobs
      /\ api.loaded \in Rows
      /\ api.at # "restart"
  BY DEF SettledInv, TypeOK, CopiesHold
<1>u. CASE row' = row
  BY <1>u DEF Moved
<1>1. CASE Request
  <2>1. ASSUME NEW j \in Jobs, SubmitInsert(j) PROVE Moved(k)
    BY <1>0, <2>1 DEF SubmitInsert, Moved
  <2> QED
    BY <1>1, <2>1, <1>u DEF Request, StopRead, RestartRead, DeleteRead
<1>2. CASE ApiStep
  <2>1. CASE DeleteCommit
    BY <1>0, <2>1 DEF DeleteCommit, Moved
  <2>2. ASSUME api.at # "idle", NEW why \in {"stopped", "failure"},
               \E new \in {Processing(row[api.job], api.loaded),
                           Failed(row[api.job], api.loaded, why),
                           Done(row[api.job], api.loaded)} :
                  Commit(api.job, new)
        PROVE  Moved(k)
    <3>1. Exists(api.job) => Holds(api.loaded, row[api.job])
      BY <2>2 DEF SettledInv, CopiesHold
    <3> QED
      BY <1>0, <2>2, <3>1, CommitMoves
  <2>3. \/ row' = row \/ DeleteCommit
        \/ /\ api.at # "idle"
           /\ \E why \in {"stopped", "failure"} :
                 \E new \in {Processing(row[api.job], api.loaded),
                             Failed(row[api.job], api.loaded, why),
                             Done(row[api.job], api.loaded)} :
                    Commit(api.job, new)
    BY <1>2, <1>0
       DEF ApiStep, SubmitSave, SubmitSaveFails, SubmitNoPool, SyncStart,
           SyncFails, SyncRuns, SyncSave, SyncSaveFails, SyncEnd, StopCommit,
           RestartNoPool, RestartGone, DeleteFiles, DeleteFilesFails,
           SubmitAsync, RestartCommit, In
  <2> QED
    BY <1>u, <2>1, <2>2, <2>3
<1>3. ASSUME NEW e \in Entries, EnqueueStep(e) \/ WorkerStep(e)
      PROVE  Moved(k)
  <2>1. ASSUME \E new \in {Processing(RowOf(e), Loaded(e)),
                           Failed(RowOf(e), Loaded(e), "failure"),
                           Done(RowOf(e), Loaded(e))} : Commit(JobOf(e), new),
               entry[e].at # "free"
        PROVE  Moved(k)
    <3>1. JobOf(e) \in Jobs /\ Loaded(e) \in Rows
      BY <2>1 DEF SettledInv, TypeOK, EntryRecords, JobOf, Loaded
    <3>2. Exists(JobOf(e)) => Holds(Loaded(e), row[JobOf(e)])
      BY <2>1 DEF SettledInv, CopiesHold, JobOf, Loaded
    <3>3. \E new \in {Processing(row[JobOf(e)], Loaded(e)),
                      Failed(row[JobOf(e)], Loaded(e), "failure"),
                      Done(row[JobOf(e)], Loaded(e))} : Commit(JobOf(e), new)
      BY <2>1 DEF RowOf
    <3> QED
      BY <3>1, <3>2, <3>3, CommitMoves
  <2>2. \/ row' = row
        \/ /\ entry[e].at # "free"
           /\ \E new \in {Processing(RowOf(e), Loaded(e)),
                          Failed(RowOf(e), Loaded(e), "failure"),
                          Done(RowOf(e), Loaded(e))} : Commit(JobOf(e), new)
    BY <1>3
       DEF EnqueueStep, EnqueueArrives, EnqueueFails,
           WorkerStep, Pick, Exhausted, MarkProcessing, Refresh, RunWrites,
           RunFails, SaveResult, CommitFailure, CommitOutcome, WriteSidecars,
           WebhookReturns
  <2> QED
    BY <1>u, <2>1, <2>2
<1>4. CASE CleanerStep \/ Crash
  <2>1. CASE CommitDeletes
    BY <1>0, <2>1 DEF CommitDeletes, Moved
  <2> QED
    BY <1>4, <2>1, <1>u
       DEF CleanerStep, SelectExpired, PurgeFiles, PurgeFails, Crash, ApiCrash,
           WorkerCrash, CleanerCrash
<1> QED
  BY <1>1, <1>2, <1>3, <1>4 DEF Next

(* A copy that is kept, and the row it was taken from.                      *)
LEMMA CopyKept ==
    ASSUME SettledInv, NEW k \in used, NEW c,
           Exists(k) => Holds(c, row[k]), Moved(k)
    PROVE  row'[k].status # "absent" => Holds(c, row'[k])
<1>1. CASE row'[k] = row[k] \/ row'[k] = NoRow
  BY <1>1 DEF Exists, NoRow
<1>2. CASE Exists(k) /\ Holds(row[k], row'[k])
  BY <1>2 DEF Holds
<1> QED
  BY <1>1, <1>2 DEF Moved

LEMMA UsedGrows == Next => used \subseteq used'
BY DEF Next, Request, SubmitInsert, StopRead, RestartRead, DeleteRead, ApiStep,
       SubmitSave, SubmitSaveFails, SubmitNoPool, SyncStart, SyncFails,
       SyncRuns, SyncSave, SyncSaveFails, SyncEnd, StopCommit, RestartNoPool,
       RestartGone, DeleteFiles, DeleteFilesFails, DeleteCommit, SubmitAsync,
       RestartCommit, EnqueueStep, EnqueueArrives, EnqueueFails, WorkerStep,
       Pick, Exhausted, MarkProcessing, Refresh, RunWrites, RunFails,
       SaveResult, CommitFailure, CommitOutcome, WriteSidecars, WebhookReturns,
       CleanerStep, SelectExpired, CommitDeletes, PurgeFiles, PurgeFails,
       Crash, ApiCrash, WorkerCrash, CleanerCrash

(* The copy of the API's handler.                                           *)
LEMMA ApiCopyKept ==
    ASSUME "restart" \notin Operations, SettledInv, Next,
           \A k \in Jobs : Moved(k), api'.at # "idle"
    PROVE  /\ api'.at # "restart"
           /\ api'.job \in used'
           /\ (Exists(api.job) => Holds(api.loaded, row[api.job]))'
<1>0. /\ used \subseteq used' /\ used \subseteq Jobs
      /\ row \in [Jobs -> Rows]
      /\ api \in [at : Handlers, job : Jobs \cup {NoJob}, loaded : Rows]
      /\ api.at # "restart"
      /\ \A r : Holds(NoRow, r) /\ Holds(r, r)
      /\ \A j \in Jobs : Exists(j) => j \in used
  BY UsedGrows DEF SettledInv, TypeOK, CopiesHold, Holds, NoRow
<1>k. CASE /\ api.at # "idle" /\ api'.at # "restart"
           /\ api'.job = api.job /\ api'.loaded = api.loaded
  <2>1. api.job \in used /\ api.job \in Jobs /\ Moved(api.job)
    BY <1>k, <1>0 DEF SettledInv, CopiesHold
  <2>2. Exists(api.job) => Holds(api.loaded, row[api.job])
    BY <1>k DEF SettledInv, CopiesHold
  <2>3. row'[api.job].status # "absent" => Holds(api.loaded, row'[api.job])
    BY <2>1, <2>2, CopyKept
  <2> QED
    BY <1>0, <1>k, <2>1, <2>3 DEF Exists
<1>u. CASE api' = api
  BY <1>0, <1>k, <1>u
<1>1. CASE Request
  <2>1. ASSUME NEW j \in Jobs, SubmitInsert(j)
        PROVE  /\ api'.job \in used' /\ api'.at # "restart"
               /\ Holds(api'.loaded, row'[api'.job])
    BY <1>0, <2>1 DEF SubmitInsert
  <2>2. ASSUME NEW j \in Jobs, StopRead(j)
        PROVE  /\ api'.job \in used' /\ api'.at # "restart"
               /\ Holds(api'.loaded, row'[api'.job])
    BY <1>0, <2>2 DEF StopRead, Enter, Exists, Open
  <2>3. ASSUME NEW j \in Jobs, DeleteRead(j)
        PROVE  /\ api'.job \in used' /\ api'.at # "restart"
               /\ Holds(api'.loaded, row'[api'.job])
    BY <1>0, <2>3 DEF DeleteRead
  <2> QED
    BY <1>1, <2>1, <2>2, <2>3 DEF Request, RestartRead
<1>2. CASE ApiStep
  <2>1. CASE SyncStart
    <3>1. /\ api.at # "idle" /\ api'.job = api.job /\ api'.at = "sync"
          /\ api'.loaded = Processing(row[api.job], api.loaded)
          /\ api.job \in used /\ api.job \in Jobs
      BY <1>0, <2>1 DEF SyncStart, In, SettledInv, TypeOK, CopiesHold
    <3>2. CASE Exists(api.job)
      <4>1. row'[api.job] = api'.loaded
        BY <1>0, <2>1, <3>1, <3>2 DEF SyncStart, Commit
      <4> QED
        BY <1>0, <3>1, <4>1
    <3>3. CASE ~Exists(api.job)
      <4>1. row'[api.job].status = "absent"
        BY <2>1, <3>1, <3>3 DEF SyncStart, Commit, Exists
      <4> QED
        BY <1>0, <3>1, <4>1 DEF Exists
    <3> QED
      BY <3>2, <3>3
  <2>2. CASE ~SyncStart
    <3>1. /\ api.at # "idle" /\ api'.at # "restart"
          /\ api'.job = api.job /\ api'.loaded = api.loaded
      BY <1>0, <1>2, <2>2
         DEF ApiStep, SubmitSave, SubmitSaveFails, SubmitNoPool,
             SyncFails, SyncRuns, SyncSave, SyncSaveFails, SyncEnd, StopCommit,
             RestartNoPool, RestartGone, DeleteFiles, DeleteFilesFails,
             DeleteCommit, SubmitAsync, RestartCommit, In, Leave, Idle, Move
    <3> QED
      BY <1>k, <3>1
  <2> QED
    BY <2>1, <2>2
<1>3. CASE ApiCrash
  BY <1>3 DEF ApiCrash, Leave, Idle
<1>4. ASSUME NEW e \in Entries, EnqueueStep(e) \/ WorkerStep(e)
      PROVE  api' = api
  BY <1>4
     DEF EnqueueStep, EnqueueArrives, EnqueueFails,
         WorkerStep, Pick, Exhausted, MarkProcessing, Refresh, RunWrites,
         RunFails, SaveResult, CommitFailure, CommitOutcome, WriteSidecars,
         WebhookReturns
<1>5. CleanerStep \/ WorkerCrash \/ CleanerCrash => api' = api
  BY DEF CleanerStep, SelectExpired, CommitDeletes, PurgeFiles, PurgeFails,
         WorkerCrash, CleanerCrash
<1> QED
  BY <1>u, <1>1, <1>2, <1>3, <1>4, <1>5 DEF Next, Crash

(* The copies of the tasks.                                                 *)
LEMMA TaskCopyKept ==
    ASSUME "restart" \notin Operations, SettledInv, Next,
           \A k \in Jobs : Moved(k), NEW e \in Entries
    PROVE  /\ entry'[e].at = "free" => entry'[e].loaded = NoRow
           /\ entry'[e].at # "free" =>
                 /\ entry'[e].job \in used'
                 /\ (Exists(entry[e].job)
                       => Holds(entry[e].loaded, row[entry[e].job]))'
<1> DEFINE same == entry'[e].job = entry[e].job
           copy == \/ entry'[e].loaded = entry[e].loaded
                   \/ entry'[e].loaded = NoRow
                   \/ /\ row' = row
                      /\ entry'[e].loaded = row[entry[e].job]
<1>0. /\ used \subseteq used' /\ used \subseteq Jobs
      /\ row \in [Jobs -> Rows] /\ entry \in [Entries -> EntryRecords]
      /\ entry[e] \in EntryRecords
      /\ \A r : Holds(NoRow, r) /\ Holds(r, r)
      /\ entry[e].at = "free" => entry[e].loaded = NoRow
      /\ api.at # "idle" => api.job \in used
      /\ api.at # "restart"
  BY UsedGrows DEF SettledInv, TypeOK, CopiesHold, Holds, NoRow
<1>u. CASE entry'[e] = entry[e] /\ entry[e].at = "free"
  BY <1>0, <1>u
<1>k. CASE entry[e].at # "free" /\ entry'[e].at # "free" /\ same /\ copy
  <2>1. entry[e].job \in used /\ entry[e].job \in Jobs /\ Moved(entry[e].job)
    BY <1>k, <1>0 DEF SettledInv, CopiesHold
  <2>2. Exists(entry[e].job) => Holds(entry[e].loaded, row[entry[e].job])
    BY <1>k DEF SettledInv, CopiesHold
  <2>3. row'[entry[e].job].status # "absent" => Holds(entry[e].loaded, row'[entry[e].job])
    BY <2>1, <2>2, CopyKept
  <2> QED
    BY <1>0, <1>k, <2>1, <2>3 DEF Exists
<1>p. ASSUME Post(api.job, e), api.at # "idle"
      PROVE  /\ entry'[e].at = "posting" /\ entry'[e].job \in used'
             /\ entry'[e].loaded = NoRow
  BY <1>0, <1>p DEF Post, EntryRecords
<1>s. CASE entry' = entry
  BY <1>0, <1>u, <1>k, <1>s
<1>1. CASE Request \/ CleanerStep \/ CleanerCrash
  <2>1. entry' = entry
    BY <1>1
       DEF Request, SubmitInsert, StopRead, RestartRead, DeleteRead,
           CleanerStep, SelectExpired, CommitDeletes, PurgeFiles, PurgeFails,
           CleanerCrash
  <2> QED
    BY <1>s, <2>1
<1>2. CASE ApiStep
  <2>1. \/ entry' = entry
        \/ /\ api.at # "idle"
           /\ \E f \in Entries : Post(api.job, f)
    BY <1>0, <1>2
       DEF ApiStep, SubmitSave, SubmitSaveFails, SubmitNoPool, SyncStart,
           SyncFails, SyncRuns, SyncSave, SyncSaveFails, SyncEnd, StopCommit,
           RestartNoPool, RestartGone, DeleteFiles, DeleteFilesFails,
           DeleteCommit, SubmitAsync, RestartCommit, In
  <2>2. ASSUME NEW f \in Entries, Post(api.job, f), f # e
        PROVE  entry'[e] = entry[e]
    BY <1>0, <2>2 DEF Post
  <2> QED
    BY <1>0, <1>s, <1>p, <1>u, <1>k, <2>1, <2>2
<1>3. ASSUME NEW f \in Entries, EnqueueStep(f) \/ WorkerStep(f)
      PROVE  \/ entry'[e] = entry[e]
             \/ entry[e].at # "free" /\ entry'[e].at # "free" /\ same /\ copy
  <2>1. CASE f # e
    BY <1>0, <1>3, <2>1
       DEF EnqueueStep, EnqueueArrives, EnqueueFails,
           WorkerStep, Pick, Exhausted, MarkProcessing, Refresh, RunWrites,
           RunFails, SaveResult, CommitFailure, CommitOutcome, WriteSidecars,
           WebhookReturns, GoTo, Close, Finish
  <2>2. CASE f = e
    <3>1. entry[e].at # "free"
      BY <1>3, <2>2
         DEF EnqueueStep, EnqueueArrives, EnqueueFails,
             WorkerStep, Pick, Exhausted, MarkProcessing, Refresh, RunWrites,
             RunFails, SaveResult, CommitFailure, CommitOutcome,
             WriteSidecars, WebhookReturns
    <3>2. \/ \E s \in EntryStates \ {"free"} : GoTo(e, s) \/ Close(e, s)
          \/ Finish(e)
          \/ Pick(e) \/ Refresh(e)
      BY <1>3, <2>2
         DEF EnqueueStep, EnqueueArrives, EnqueueFails,
             WorkerStep, Exhausted, MarkProcessing, RunWrites,
             RunFails, SaveResult, CommitFailure, CommitOutcome,
             WriteSidecars, WebhookReturns, EntryStates, Active, Blocking
    <3>3. CASE \E s \in EntryStates \ {"free"} : GoTo(e, s) \/ Close(e, s)
      BY <1>0, <3>1, <3>3 DEF GoTo, Close, EntryRecords
    <3>4. CASE Finish(e)
      BY <1>0, <3>1, <3>4 DEF Finish, Gone
    <3>5. CASE Pick(e) \/ Refresh(e)
      BY <1>0, <3>1, <3>5
         DEF Pick, Refresh, Finish, Gone, EntryRecords, JobOf, RowOf
    <3> QED
      BY <3>2, <3>3, <3>4, <3>5
  <2> QED
    BY <2>1, <2>2
<1>4. CASE ApiCrash
  <2>1. \/ entry'[e] = entry[e]
        \/ entry'[e] = Gone(e) /\ entry[e].at = "posting"
    BY <1>4 DEF ApiCrash
  <2>2. CASE entry'[e] = Gone(e) /\ entry[e].at = "posting"
    BY <1>k, <2>2 DEF Gone
  <2> QED
    BY <1>u, <1>k, <2>1, <2>2
<1>5. CASE WorkerCrash
  <2>1. \/ entry'[e] = entry[e]
        \/ /\ entry[e].at \in Active /\ entry'[e].at = "queued" /\ same
           /\ entry'[e].loaded = NoRow
    BY <1>0, <1>5 DEF WorkerCrash, EntryRecords
  <2>2. entry[e].at \in Active => entry[e].at # "free"
    BY DEF Active, Blocking
  <2> QED
    BY <1>u, <1>k, <2>1, <2>2
<1>6. (\E f \in Entries : EnqueueStep(f) \/ WorkerStep(f))
         => \/ entry'[e] = entry[e]
            \/ entry[e].at # "free" /\ entry'[e].at # "free" /\ same /\ copy
  BY <1>3
<1>7. CASE \E f \in Entries : EnqueueStep(f) \/ WorkerStep(f)
  BY <1>6, <1>7, <1>u, <1>k
<1> QED
  BY <1>1, <1>2, <1>4, <1>5, <1>7 DEF Next, Crash

LEMMA SettledStep ==
    ASSUME "restart" \notin Operations, SettledInv, Next
    PROVE  SettledInv'
<1>0. TypeOK'
  BY RequestType, ApiStepType, EnqueueType, WorkerType, CleanerType, CrashType
     DEF Next, SettledInv
<1>1. \A k \in Jobs : Moved(k)
  BY RowsMove
<1>2. \A j \in Jobs : Exists(j)' => j \in used'
  <2> TAKE j \in Jobs
  <2>1. Exists(j) => j \in used
    BY DEF SettledInv, CopiesHold
  <2>2. Exists(j)' => Exists(j) \/ j \in used'
    BY <1>1 DEF Moved, Exists, NoRow
  <2> QED
    BY <2>1, <2>2, UsedGrows
<1>3. CopiesHold'
  <2>1. api.at # "restart"
    BY DEF SettledInv, CopiesHold
  <2>2. /\ api'.at # "idle" => /\ api'.at # "restart"
                               /\ api'.job \in used'
                               /\ (Exists(api.job)
                                     => Holds(api.loaded, row[api.job]))'
    BY <1>1, ApiCopyKept
  <2>3. \A e \in Entries :
           /\ entry'[e].at = "free" => entry'[e].loaded = NoRow
           /\ entry'[e].at # "free" =>
                 /\ entry'[e].job \in used'
                 /\ (Exists(entry[e].job)
                       => Holds(entry[e].loaded, row[entry[e].job]))'
    BY <1>1, TaskCopyKept
  <2> QED
    BY <1>2, <2>2, <2>3 DEF CopiesHold, Exists
<1>4. SettledRowsComplete'
  <2> SUFFICES ASSUME NEW j \in Jobs
               PROVE  /\ row'[j].status \in Terminal => row'[j].finished
                      /\ row'[j].status = "failed" => row'[j].error # "none"
    BY DEF SettledRowsComplete
  <2> QED
    BY <1>1
       DEF Moved, SettledInv, SettledRowsComplete, Complete, NewRow, NoRow,
           Terminal
<1> QED
  BY <1>0, <1>3, <1>4 DEF SettledInv

(* As long as no operator restarts a job, a finished row carries its time   *)
(* stamp and a failed one the reason, in whatever order submission, stop,   *)
(* worker, re-delivery and cleanup commit their copies.                     *)
THEOREM FinishedRowsAreComplete ==
    ASSUME "restart" \notin Operations
    PROVE  Spec => []SettledRowsComplete
<1>1. Init => SettledInv
  <2>1. Init => TypeOK
    BY BoundsAssumption
       DEF Init, TypeOK, NoRow, Rows, FreeEntry, EntryRecords, EntryStates,
           Idle, Handlers, NoPass, CleanerRecords
  <2>2. Init => /\ api.at = "idle"
                /\ \A j \in Jobs : row[j].status = "absent"
                /\ \A e \in Entries : /\ entry[e].at = "free"
                                      /\ entry[e].loaded = NoRow
    <3>1. /\ Idle.at = "idle" /\ NoRow.status = "absent"
          /\ FreeEntry.at = "free" /\ FreeEntry.loaded = NoRow
      BY DEF NoRow, FreeEntry, Idle
    <3> QED
      BY <3>1 DEF Init
  <2>3. Init => CopiesHold
    BY <2>2 DEF CopiesHold, Exists, Init
  <2>4. Init => SettledRowsComplete
    BY <2>2 DEF SettledRowsComplete, Terminal
  <2> QED
    BY <2>1, <2>3, <2>4 DEF SettledInv
<1>2. SettledInv /\ [Next]_vars => SettledInv'
  <2>1. SettledInv /\ Next => SettledInv'
    BY SettledStep
  <2>2. SettledInv /\ UNCHANGED vars => SettledInv'
    BY DEF vars, SettledInv, TypeOK, CopiesHold, SettledRowsComplete, Exists
  <2> QED
    BY <2>1, <2>2
<1>3. SettledInv => SettledRowsComplete
  BY DEF SettledInv
<1> QED
  BY <1>1, <1>2, <1>3, PTL DEF Spec

-----------------------------------------------------------------------------
(* Who works on a job.                                                     *)

(* Rows, entries and handlers are of jobs that were submitted, and a job    *)
(* has no entry before its submission is over.                              *)
UsedJobs ==
    /\ \A j \in Jobs : Exists(j) => j \in used
    /\ \A e \in Entries : /\ entry[e].job \in used \cup {NoJob}
                          /\ entry[e].at = "free" => entry[e].job = NoJob
    /\ api.at # "idle" => api.job \in used
    /\ api.at \in Submitting => \A e \in Entries : entry[e].job # api.job

(* One task at a time holds the worker's event loop.                        *)
OneTask ==
    \A e, f \in Entries :
       entry[e].at \in Blocking /\ entry[f].at \in Blocking => e = f

(* What a step may do to an entry: nothing, post it for the job of the      *)
(* handler, or move it on.                                                  *)
LEMMA EntryMoves ==
    ASSUME TypeOK, Next, NEW e \in Entries
    PROVE  \/ entry'[e] = entry[e]
           \/ /\ SubmitAsync(e) \/ RestartCommit(e)
              /\ entry[e].at = "free" /\ entry'[e].at = "posting"
              /\ entry'[e].job = api.job /\ entry'[e].try = entry[e].try
              /\ \A f \in Entries \ {e} : entry'[f] = entry[f]
           \/ /\ entry[e].at # "free" /\ entry'[e].at # "free"
              /\ entry'[e].job = entry[e].job
              /\ \/ EnqueueStep(e) \/ WorkerStep(e)
                 \/ entry'[e].at = "gone"
                 \/ WorkerCrash /\ entry'[e].at = "queued" /\ entry'[e].try = entry[e].try
<1>0. entry \in [Entries -> EntryRecords] /\ entry[e] \in EntryRecords
  BY DEF TypeOK
<1>1. CASE Request \/ CleanerStep \/ CleanerCrash
  BY <1>1
     DEF Request, SubmitInsert, StopRead, RestartRead, DeleteRead,
         CleanerStep, SelectExpired, CommitDeletes, PurgeFiles, PurgeFails,
         CleanerCrash
<1>2. CASE ApiStep
  <2>1. \/ entry' = entry
        \/ \E f \in Entries : /\ SubmitAsync(f) \/ RestartCommit(f)
                              /\ Post(api.job, f)
    BY <1>2
       DEF ApiStep, SubmitSave, SubmitSaveFails, SubmitNoPool, SyncStart,
           SyncFails, SyncRuns, SyncSave, SyncSaveFails, SyncEnd, StopCommit,
           RestartNoPool, RestartGone, DeleteFiles, DeleteFilesFails,
           DeleteCommit, SubmitAsync, RestartCommit
  <2>2. ASSUME NEW f \in Entries, Post(api.job, f)
        PROVE  /\ entry[f].at = "free" /\ entry'[f].at = "posting"
               /\ entry'[f].job = api.job /\ entry'[f].try = entry[f].try
               /\ \A g \in Entries \ {f} : entry'[g] = entry[g]
    BY <1>0, <2>2 DEF Post, EntryRecords
  <2> QED
    BY <2>1, <2>2
<1>3. ASSUME NEW f \in Entries, EnqueueStep(f) \/ WorkerStep(f)
      PROVE  \/ entry'[e] = entry[e]
             \/ /\ e = f /\ entry[e].at # "free" /\ entry'[e].at # "free"
                /\ entry'[e].job = entry[e].job
  <2>1. CASE f # e
    BY <1>0, <1>3, <2>1
       DEF EnqueueStep, EnqueueArrives, EnqueueFails,
           WorkerStep, Pick, Exhausted, MarkProcessing, Refresh, RunWrites,
           RunFails, SaveResult, CommitFailure, CommitOutcome, WriteSidecars,
           WebhookReturns, GoTo, Close, Finish
  <2>2. CASE f = e
    <3>1. entry[e].at # "free"
      BY <1>3, <2>2
         DEF EnqueueStep, EnqueueArrives, EnqueueFails,
             WorkerStep, Pick, Exhausted, MarkProcessing, Refresh, RunWrites,
             RunFails, SaveResult, CommitFailure, CommitOutcome,
             WriteSidecars, WebhookReturns
    <3>2. entry'[e].at # "free" /\ entry'[e].job = entry[e].job
      BY <1>0, <1>3, <2>2
         DEF EnqueueStep, EnqueueArrives, EnqueueFails,
             WorkerStep, Pick, Exhausted, MarkProcessing, Refresh, RunWrites,
             RunFails, SaveResult, CommitFailure, CommitOutcome,
             WriteSidecars, WebhookReturns, GoTo, Close, Finish, Gone,
             EntryRecords
    <3> QED
      BY <2>2, <3>1, <3>2
  <2> QED
    BY <2>1, <2>2
<1>4. CASE ApiCrash
  <2>1. \/ entry'[e] = entry[e]
        \/ entry'[e] = Gone(e) /\ entry[e].at = "posting"
    BY <1>4 DEF ApiCrash
  <2> QED
    BY <2>1 DEF Gone
<1>5. CASE WorkerCrash
  <2>1. \/ entry'[e] = entry[e]
        \/ /\ entry[e].at \in Active /\ entry'[e].at = "queued"
           /\ entry'[e].job = entry[e].job /\ entry'[e].try = entry[e].try
    BY <1>0, <1>5 DEF WorkerCrash, EntryRecords
  <2> QED
    BY <1>5, <2>1 DEF Active, Blocking
<1>6. CASE \E f \in Entries : EnqueueStep(f) \/ WorkerStep(f)
  BY <1>3, <1>6
<1> QED
  BY <1>1, <1>2, <1>4, <1>5, <1>6 DEF Next, Crash

(* A handler goes on with its job, ends, or is entered for a job.           *)
LEMMA ApiMoves ==
    ASSUME TypeOK, Next
    PROVE  \/ api' = api
           \/ api' = Idle
           \/ /\ api.at # "idle" /\ ApiStep /\ api'.job = api.job
              /\ api'.at \in Submitting <=> api.at \in Submitting
              /\ entry' = entry
           \/ \E j \in Jobs : /\ SubmitInsert(j) /\ api'.at = "upload"
                              /\ api'.job = j
           \/ \E j \in Jobs : /\ Exists(j) /\ api'.job = j
                              /\ api'.at \in {"stop", "restart", "rmtree"}
                              /\ UNCHANGED <<row, entry>>
                              /\ api'.at \in {"stop", "restart"} => api'.loaded = row[j]
<1>0. api \in [at : Handlers, job : Jobs \cup {NoJob}, loaded : Rows]
  BY DEF TypeOK
<1>1. CASE Request
  BY <1>1 DEF Request, SubmitInsert, StopRead, RestartRead, DeleteRead, Enter,
              Exists, Open
<1>2. CASE ApiStep
  <2>1. CASE api' = Idle
    BY <2>1
  <2>2. CASE api' # Idle
    BY <1>0, <1>2, <2>2
       DEF ApiStep, SubmitSave, SubmitSaveFails, SubmitNoPool, SyncStart,
           SyncFails, SyncRuns, SyncSave, SyncSaveFails, SyncEnd, StopCommit,
           RestartNoPool, RestartGone, DeleteFiles, DeleteFilesFails,
           DeleteCommit, SubmitAsync, RestartCommit, In, Move, Leave, Submitting
  <2> QED
    BY <2>1, <2>2
<1>3. CASE \E e \in Entries : EnqueueStep(e) \/ WorkerStep(e)
  BY <1>3
     DEF EnqueueStep, EnqueueArrives, EnqueueFails,
         WorkerStep, Pick, Exhausted, MarkProcessing, Refresh, RunWrites,
         RunFails, SaveResult, CommitFailure, CommitOutcome, WriteSidecars,
         WebhookReturns
<1>4. CASE CleanerStep \/ Crash
  BY <1>4
     DEF CleanerStep, SelectExpired, CommitDeletes, PurgeFiles, PurgeFails,
         Crash, ApiCrash, WorkerCrash, CleanerCrash, Leave
<1> QED
  BY <1>1, <1>2, <1>3, <1>4 DEF Next

(* A row that appears is that of a submission.                              *)
LEMMA RowsAppear ==
    ASSUME TypeOK, Next, NEW k \in Jobs, ~Exists(k)
    PROVE  row'[k].status = "absent" \/ (SubmitInsert(k) /\ row'[k] = NewRow)
<1>0. /\ row \in [Jobs -> Rows] /\ row[k].status = "absent"
      /\ api.at # "idle" => api.job \in Jobs
      /\ \A e \in Entries : entry[e].at # "free" => JobOf(e) \in Jobs
  BY DEF TypeOK, Exists, JobOf
<1>c. ASSUME NEW j \in Jobs, NEW new, Commit(j, new)
      PROVE  row'[k] = row[k]
  BY <1>0, <1>c DEF Commit, Exists
<1>1. CASE Request
  <2>1. ASSUME NEW j \in Jobs, SubmitInsert(j)
        PROVE  row'[k].status = "absent" \/ (SubmitInsert(k) /\ row'[k] = NewRow)
    BY <1>0, <2>1 DEF SubmitInsert
  <2> QED
    BY <1>0, <1>1, <2>1 DEF Request, StopRead, RestartRead, DeleteRead
<1>2. CASE ApiStep
  <2>1. \/ row' = row
        \/ row' = [row EXCEPT ![api.job] = NoRow]
        \/ api.at # "idle" /\ \E new : Commit(api.job, new)
    BY <1>2
       DEF ApiStep, SubmitSave, SubmitSaveFails, SubmitNoPool, SyncStart,
           SyncFails, SyncRuns, SyncSave, SyncSaveFails, SyncEnd, StopCommit,
           RestartNoPool, RestartGone, DeleteFiles, DeleteFilesFails,
           DeleteCommit, SubmitAsync, RestartCommit, In
  <2>2. CASE row' = [row EXCEPT ![api.job] = NoRow]
    BY <1>0, <2>2 DEF NoRow
  <2> QED
    BY <1>0, <1>c, <2>1, <2>2
<1>3. ASSUME NEW e \in Entries, EnqueueStep(e) \/ WorkerStep(e)
      PROVE  row'[k] = row[k]
  <2>1. \/ row' = row
        \/ entry[e].at # "free" /\ \E new : Commit(JobOf(e), new)
    BY <1>3
       DEF EnqueueStep, EnqueueArrives, EnqueueFails,
           WorkerStep, Pick, Exhausted, MarkProcessing, Refresh, RunWrites,
           RunFails, SaveResult, CommitFailure, CommitOutcome, WriteSidecars,
           WebhookReturns
  <2> QED
    BY <1>0, <1>c, <2>1
<1>4. CASE CleanerStep \/ Crash
  <2>1. CASE CommitDeletes
    BY <1>0, <2>1 DEF CommitDeletes, NoRow
  <2> QED
    BY <1>0, <1>4, <2>1
       DEF CleanerStep, SelectExpired, PurgeFiles, PurgeFails, Crash, ApiCrash,
           WorkerCrash, CleanerCrash
<1> QED
  BY <1>0, <1>1, <1>2, <1>3, <1>4 DEF Next

LEMMA UsedJobsStep ==
    ASSUME TypeOK, UsedJobs, Next
    PROVE  UsedJobs'
<1>0. used \subseteq used'
  BY UsedGrows
<1>1. \A j \in Jobs : Exists(j)' => j \in used'
  <2> SUFFICES ASSUME NEW j \in Jobs, row'[j].status # "absent" PROVE j \in used'
    BY DEF Exists
  <2>1. CASE Exists(j)
    BY <1>0, <2>1 DEF UsedJobs
  <2>2. CASE ~Exists(j)
    <3>1. SubmitInsert(j)
      BY <2>2, RowsAppear
    <3> QED
      BY <3>1 DEF SubmitInsert
  <2> QED
    BY <2>1, <2>2
<1>2. \A e \in Entries : /\ entry'[e].job \in used' \cup {NoJob}
                         /\ entry'[e].at = "free" => entry'[e].job = NoJob
  <2> TAKE e \in Entries
  <2>1. SubmitAsync(e) \/ RestartCommit(e) => api.job \in used
    BY DEF SubmitAsync, RestartCommit, In, UsedJobs
  <2>2. /\ entry[e].job \in used \cup {NoJob}
        /\ entry[e].at = "free" => entry[e].job = NoJob
    BY DEF UsedJobs
  <2> QED
    BY <1>0, <2>1, <2>2, EntryMoves
<1>3. api'.at # "idle" => api'.job \in used'
  <2>1. Idle.at = "idle"
    BY DEF Idle
  <2>2. \A j \in Jobs : SubmitInsert(j) => j \in used'
    BY DEF SubmitInsert
  <2>3. /\ api.at # "idle" => api.job \in used
        /\ \A j \in Jobs : Exists(j) => j \in used
    BY DEF UsedJobs
  <2> QED
    BY <1>0, <2>1, <2>2, <2>3, ApiMoves
<1>4. api'.at \in Submitting => \A e \in Entries : entry'[e].job # api'.job
  <2> SUFFICES ASSUME api'.at \in Submitting PROVE \A e \in Entries : entry'[e].job # api'.job
    OBVIOUS
  <2>1. ASSUME NEW j \in Jobs, SubmitInsert(j), api'.job = j
        PROVE  \A e \in Entries : entry'[e].job # api'.job
    BY <2>1, NoJobAssumption DEF SubmitInsert, UsedJobs
  <2>2. CASE api.at \in Submitting /\ api'.job = api.job /\ entry' = entry
    BY <2>2 DEF UsedJobs
  <2>3. CASE api' = api
    <3>1. api.at \in Submitting /\ \A e \in Entries : entry[e].job # api.job
      BY <2>3 DEF UsedJobs
    <3>2. api' = Idle \/ ~(\E e \in Entries : SubmitAsync(e) \/ RestartCommit(e))
      BY DEF SubmitAsync, RestartCommit, Leave
    <3>3. \A e \in Entries : ~(SubmitAsync(e) \/ RestartCommit(e))
      BY <2>3, <3>1, <3>2 DEF Idle, Submitting
    <3> QED
      BY <2>3, <3>1, <3>3, EntryMoves
  <2>4. api' # Idle /\ ~(api'.at \in {"stop", "restart", "rmtree"})
    BY DEF Idle, Submitting
  <2> QED
    BY <2>1, <2>2, <2>3, <2>4, ApiMoves
<1> QED
  BY <1>1, <1>2, <1>3, <1>4 DEF UsedJobs, Exists

LEMMA OneTaskStep ==
    ASSUME TypeOK, OneTask, Next
    PROVE  OneTask'
<1> SUFFICES ASSUME NEW e \in Entries, NEW f \in Entries, e # f,
                    entry'[e].at \in Blocking, entry'[f].at \in Blocking
             PROVE  FALSE
  BY DEF OneTask
<1>0. entry \in [Entries -> EntryRecords]
  BY DEF TypeOK
<1>1. ASSUME NEW g \in Entries, entry'[g].at \in Blocking
      PROVE  \/ entry[g].at \in Blocking
             \/ Pick(g)
  <2>1. CASE entry'[g] = entry[g]
    BY <1>1, <2>1
  <2>2. CASE EnqueueStep(g) \/ WorkerStep(g)
    BY <1>0, <1>1, <2>2
       DEF EnqueueStep, EnqueueArrives, EnqueueFails, WorkerStep, Exhausted,
           MarkProcessing, Refresh, RunWrites, RunFails, SaveResult,
           CommitFailure, CommitOutcome, WriteSidecars, WebhookReturns,
           GoTo, Close, Finish, Gone, Blocking, EntryRecords
  <2>3. CASE entry'[g].at \in {"gone", "posting", "queued"}
    BY <1>1, <2>3 DEF Blocking
  <2> QED
    BY <2>1, <2>2, <2>3, EntryMoves
<1>2. ASSUME NEW g \in Entries, NEW h \in Entries, g # h,
             Pick(g), entry'[h].at \in Blocking
      PROVE  FALSE
  <2>1. entry'[h] = entry[h]
    BY <1>0, <1>2 DEF Pick, Finish
  <2> QED
    BY <1>2, <2>1 DEF Pick, WorkerFree
<1> QED
  BY <1>1, <1>2 DEF OneTask

-----------------------------------------------------------------------------
(* A done job has a result to serve.                                       *)

HasResult(j) == "result" \in files[j] \/ j \in purged

(* A submission works in a directory no run has touched, and ends a sync    *)
(* run with a result in it.                                                 *)
SubmissionServes ==
    /\ \A j \in Jobs \ used : "partial" \notin files[j]
    /\ api.at \in Submitting => "partial" \notin files[api.job]
    /\ api.at = "syncend" => HasResult(api.job)

(* While a task may write the file of a run, or has just written it, the    *)
(* row does not say done: it was marked, from a copy that does not already  *)
(* say processing when the row says done.                                   *)
RunAhead == {"marked", "running", "wrote", "saved", "failing"}
TaskServes(e) ==
    /\ entry[e].at = "loaded" /\ entry[e].loaded.status = "processing" =>
          row[entry[e].job].status # "done"
    /\ entry[e].at \in RunAhead => row[entry[e].job].status # "done"
    /\ entry[e].at = "saved" => /\ "partial" \notin files[entry[e].job]
                                /\ HasResult(entry[e].job)

ServeInv ==
    /\ TypeOK /\ UsedJobs /\ OneTask
    /\ ResultServable
    /\ SubmissionServes
    /\ \A e \in Entries : TaskServes(e)

(* Only two steps make a row done.                                          *)
LEMMA NoNewDone ==
    ASSUME TypeOK, Next, NEW k \in Jobs,
           row'[k].status = "done", row[k].status # "done"
    PROVE  \/ SyncEnd /\ api.job = k
           \/ \E e \in Entries : CommitOutcome(e) /\ JobOf(e) = k
<1>0. /\ row \in [Jobs -> Rows]
      /\ api.loaded \in Rows
      /\ api.at # "idle" => api.job \in Jobs
      /\ \A e \in Entries : Loaded(e) \in Rows
      /\ \A e \in Entries : entry[e].at # "free" => JobOf(e) \in Jobs
  BY DEF TypeOK, EntryRecords, Loaded, JobOf
<1>c. ASSUME NEW j \in Jobs, NEW loaded \in Rows,
             \/ Commit(j, Processing(row[j], loaded))
             \/ \E why \in {"none", "stopped", "failure"} :
                   Commit(j, Failed(row[j], loaded, why))
             \/ Commit(j, Reset(row[j], loaded))
      PROVE  FALSE
  <2>1. row[j] \in Rows
    BY <1>0
  <2>2. PICK why \in {"none", "stopped", "failure"} :
             \/ Commit(j, Processing(row[j], loaded))
             \/ Commit(j, Failed(row[j], loaded, why))
             \/ Commit(j, Reset(row[j], loaded))
    BY <1>c
  <2>3. /\ Failed(row[j], loaded, why).status \in {row[j].status, "failed"}
        /\ Processing(row[j], loaded).status \in {row[j].status, "processing"}
        /\ Reset(row[j], loaded).status \in {row[j].status, "pending"}
    BY <2>1, StatusAfter
  <2> QED
    BY <1>0, <2>2, <2>3 DEF Commit
<1>1. CASE Request
  <2>1. ASSUME NEW j \in Jobs, SubmitInsert(j) PROVE FALSE
    BY <1>0, <2>1 DEF SubmitInsert, NewRow, NoRow
  <2> QED
    BY <1>1, <2>1 DEF Request, StopRead, RestartRead, DeleteRead
<1>2. CASE ApiStep
  <2>1. \/ row' = row
        \/ row' = [row EXCEPT ![api.job] = NoRow]
        \/ SyncEnd
        \/ /\ api.at # "idle"
           /\ \/ Commit(api.job, Processing(row[api.job], api.loaded))
              \/ \E why \in {"none", "stopped", "failure"} :
                    Commit(api.job, Failed(row[api.job], api.loaded, why))
              \/ Commit(api.job, Reset(row[api.job], api.loaded))
    BY <1>2
       DEF ApiStep, SubmitSave, SubmitSaveFails, SubmitNoPool, SyncStart,
           SyncFails, SyncRuns, SyncSave, SyncSaveFails, StopCommit,
           RestartNoPool, RestartGone, DeleteFiles, DeleteFilesFails,
           DeleteCommit, SubmitAsync, RestartCommit, In
  <2>2. CASE row' = [row EXCEPT ![api.job] = NoRow]
    BY <1>0, <2>2 DEF NoRow
  <2>3. CASE SyncEnd
    <3>1. api.job # k => row'[k] = row[k]
      BY <1>0, <2>3 DEF SyncEnd, Commit
    <3> QED
      BY <2>3, <3>1
  <2> QED
    BY <1>0, <1>c, <2>1, <2>2, <2>3
<1>3. ASSUME NEW e \in Entries, EnqueueStep(e) \/ WorkerStep(e)
      PROVE  CommitOutcome(e) /\ JobOf(e) = k
  <2>1. \/ row' = row
        \/ CommitOutcome(e)
        \/ /\ entry[e].at # "free"
           /\ \/ Commit(JobOf(e), Processing(row[JobOf(e)], Loaded(e)))
              \/ \E why \in {"none", "stopped", "failure"} :
                    Commit(JobOf(e), Failed(row[JobOf(e)], Loaded(e), why))
    BY <1>3
       DEF EnqueueStep, EnqueueArrives, EnqueueFails,
           WorkerStep, Pick, Exhausted, MarkProcessing, Refresh, RunWrites,
           RunFails, SaveResult, CommitFailure, WriteSidecars,
           WebhookReturns, RowOf
  <2>2. CASE CommitOutcome(e)
    <3>1. JobOf(e) # k => row'[k] = row[k]
      BY <1>0, <2>2 DEF CommitOutcome, Commit
    <3> QED
      BY <2>2, <3>1
  <2> QED
    BY <1>0, <1>c, <2>1, <2>2
<1>4. CASE CleanerStep \/ Crash
  <2>1. CASE CommitDeletes
    BY <1>0, <2>1 DEF CommitDeletes, NoRow
  <2> QED
    BY <1>4, <2>1
       DEF CleanerStep, SelectExpired, PurgeFiles, PurgeFails, Crash, ApiCrash,
           WorkerCrash, CleanerCrash
<1> QED
  BY <1>1, <1>2, <1>3, <1>4 DEF Next

(* Only a run takes the result away or leaves its own file; who removes a   *)
(* directory has it recorded as purged.                                     *)
LEMMA DirectoryKept ==
    ASSUME TypeOK, Next, NEW k \in Jobs,
           \A e \in Entries : RunWrites(e) => JobOf(e) # k
    PROVE  /\ "partial" \in files'[k] => "partial" \in files[k]
           /\ HasResult(k) => HasResult(k)'
<1>0. files \in [Jobs -> SUBSET Artefacts]
  BY DEF TypeOK
<1>u. CASE UNCHANGED <<files, purged>>
  BY <1>u DEF HasResult
<1>1. CASE ApiStep \/ Request
  <2>1. CASE SubmitSave \/ SyncSave
    BY <1>0, <2>1 DEF SubmitSave, SyncSave, HasResult
  <2>2. CASE DeleteFiles \/ DeleteFilesFails
    BY <1>0, <2>2 DEF DeleteFiles, DeleteFilesFails, HasResult
  <2> QED
    BY <1>1, <1>u, <2>1, <2>2
       DEF Request, SubmitInsert, StopRead, RestartRead, DeleteRead,
           ApiStep, SubmitSaveFails, SubmitNoPool, SyncStart,
           SyncFails, SyncRuns, SyncSaveFails, SyncEnd, StopCommit,
           RestartNoPool, RestartGone, DeleteCommit, SubmitAsync, RestartCommit
<1>2. ASSUME NEW e \in Entries, EnqueueStep(e) \/ WorkerStep(e)
      PROVE  /\ "partial" \in files'[k] => "partial" \in files[k]
             /\ HasResult(k) => HasResult(k)'
  <2>1. CASE RunWrites(e)
    BY <1>0, <2>1 DEF RunWrites, HasResult
  <2>2. CASE SaveResult(e)
    BY <1>0, <2>2 DEF SaveResult, HasResult
  <2> QED
    BY <1>2, <1>u, <2>1, <2>2
       DEF EnqueueStep, EnqueueArrives, EnqueueFails,
           WorkerStep, Pick, Exhausted, MarkProcessing, Refresh,
           RunFails, CommitFailure, CommitOutcome, WriteSidecars,
           WebhookReturns
<1>3. CASE CleanerStep \/ Crash
  <2>1. ASSUME NEW j \in Jobs, PurgeFiles(j) \/ PurgeFails(j)
        PROVE  /\ "partial" \in files'[k] => "partial" \in files[k]
               /\ HasResult(k) => HasResult(k)'
    BY <1>0, <2>1 DEF PurgeFiles, PurgeFails, HasResult
  <2> QED
    BY <1>3, <1>u, <2>1
       DEF CleanerStep, SelectExpired, CommitDeletes, Crash, ApiCrash,
           WorkerCrash, CleanerCrash
<1> QED
  BY <1>1, <1>2, <1>3 DEF Next

(* The steps by which a task comes to where TaskServes speaks of it.        *)
LEMMA TaskMoves ==
    ASSUME TypeOK, Next, NEW e \in Entries,
           entry'[e].at \in RunAhead \cup {"loaded"}, entry'[e] # entry[e]
    PROVE  /\ entry[e].at # "free" /\ entry'[e].job = entry[e].job
           /\ \/ entry'[e].at = "loaded" /\ Pick(e) /\ entry'[e].loaded = row[entry[e].job]
              \/ entry'[e].at = "marked" /\ MarkProcessing(e)
              \/ entry'[e].at = "saved" /\ SaveResult(e)
              \/ /\ entry'[e].at \in RunAhead \ {"saved"}
                 /\ entry[e].at \in RunAhead /\ UNCHANGED row
<1>0. entry \in [Entries -> EntryRecords] /\ entry[e] \in EntryRecords
  BY DEF TypeOK
<1>1. /\ entry[e].at # "free" /\ entry'[e].job = entry[e].job
      /\ EnqueueStep(e) \/ WorkerStep(e)
  BY EntryMoves DEF RunAhead
<1>2. CASE Pick(e)
  BY <1>0, <1>1, <1>2 DEF Pick, Finish, Gone, RunAhead, EntryRecords, RowOf, JobOf
<1>3. CASE MarkProcessing(e)
  BY <1>0, <1>1, <1>3 DEF MarkProcessing, Close, Finish, Gone, RunAhead, EntryRecords
<1>4. CASE SaveResult(e)
  BY <1>0, <1>1, <1>4 DEF SaveResult, GoTo, EntryRecords
<1>5. CASE Refresh(e) \/ RunWrites(e) \/ RunFails(e)
  BY <1>0, <1>1, <1>5
     DEF Refresh, RunWrites, RunFails, GoTo, Finish, Gone, RunAhead, EntryRecords
<1>6. CASE EnqueueStep(e) \/ Exhausted(e) \/ CommitFailure(e) \/ CommitOutcome(e)
             \/ WriteSidecars(e) \/ WebhookReturns(e)
  BY <1>0, <1>6
     DEF EnqueueStep, EnqueueArrives, EnqueueFails, Exhausted, CommitFailure,
         CommitOutcome, WriteSidecars, WebhookReturns, GoTo, Close, Finish, Gone,
         RunAhead, EntryRecords
<1> QED
  BY <1>1, <1>2, <1>3, <1>4, <1>5, <1>6 DEF WorkerStep

LEMMA TaskServesStep ==
    ASSUME ServeInv, Next, NEW e \in Entries
    PROVE  TaskServes(e)'
<1>0. /\ TypeOK /\ UsedJobs /\ OneTask
      /\ entry \in [Entries -> EntryRecords] /\ entry[e] \in EntryRecords
      /\ row \in [Jobs -> Rows] /\ files \in [Jobs -> SUBSET Artefacts]
      /\ entry[e].at # "free" => entry[e].job \in Jobs
      /\ TaskServes(e)
  BY DEF ServeInv, TypeOK
<1>b. RunAhead \subseteq Blocking /\ "free" \notin RunAhead \cup {"loaded"}
      /\ "loaded" \in Blocking
  BY DEF RunAhead, Blocking
(* A task that stays where it is: the row was not made done, because no     *)
(* other task commits meanwhile, and a submission has no task.              *)
<1>d. ASSUME entry[e].at \in RunAhead \cup {"loaded"},
             row[entry[e].job].status # "done",
             ~CommitOutcome(e)
      PROVE  row'[entry[e].job].status # "done"
  <2>1. ASSUME NEW f \in Entries, CommitOutcome(f), f # e PROVE FALSE
    BY <1>0, <1>b, <1>d, <2>1 DEF CommitOutcome, OneTask, Blocking
  <2>2. SyncEnd => api.job # entry[e].job
    BY <1>0 DEF SyncEnd, In, UsedJobs, Submitting
  <2> QED
    BY <1>0, <1>b, <1>d, <2>1, <2>2, NoNewDone
<1>k. CASE entry'[e] = entry[e]
  <2>1. ~CommitOutcome(e)
    BY <1>0, <1>k DEF CommitOutcome, Close, Finish, Gone, EntryRecords
  <2>2. CASE entry[e].at = "saved"
    <3>1. ASSUME NEW f \in Entries, RunWrites(f) PROVE FALSE
      <4>1. f # e
        BY <2>2, <3>1 DEF RunWrites
      <4> QED
        BY <1>0, <2>2, <3>1, <4>1 DEF RunWrites, OneTask, Blocking
    <3>2. /\ "partial" \in files'[entry[e].job] => "partial" \in files[entry[e].job]
          /\ HasResult(entry[e].job) => HasResult(entry[e].job)'
      <4>1. /\ "partial" \in files'[entry[e].job] => "partial" \in files[entry[e].job]
            /\ HasResult(entry[e].job) => \/ "result" \in files'[entry[e].job]
                                          \/ entry[e].job \in purged'
        BY <1>0, <2>2, <3>1, DirectoryKept DEF HasResult
      <4> QED
        BY <1>k, <4>1 DEF HasResult
    <3> QED
      BY <1>0, <1>d, <1>k, <2>1, <2>2, <3>2 DEF TaskServes, RunAhead, HasResult
  <2>3. CASE entry[e].at # "saved"
    BY <1>0, <1>d, <1>k, <2>1, <2>3 DEF TaskServes
  <2> QED
    BY <2>2, <2>3
<1>m. CASE entry'[e] # entry[e] /\ entry'[e].at \in RunAhead \cup {"loaded"}
  <2>0. entry'[e].job = entry[e].job /\ entry[e].job \in Jobs
    BY <1>0, <1>m, TaskMoves
  <2>1. CASE entry'[e].at = "loaded" /\ Pick(e) /\ entry'[e].loaded = row[entry[e].job]
    <3>1. row' = row
      BY <2>1 DEF Pick
    <3> QED
      BY <2>0, <2>1, <3>1 DEF TaskServes, RunAhead
  <2>2. CASE entry'[e].at = "marked" /\ MarkProcessing(e)
    <3>1. row'[entry[e].job].status # "done"
      <4>1. /\ entry[e].at = "loaded" /\ Loaded(e) \in Rows
            /\ Commit(entry[e].job, Processing(row[entry[e].job], entry[e].loaded))
        BY <1>0, <2>2 DEF MarkProcessing, JobOf, RowOf, Loaded, EntryRecords
      <4>2. Exists(entry[e].job)
        BY <1>0, <2>2 DEF MarkProcessing, Finish, Gone, JobOf
      <4>3. row'[entry[e].job] = Processing(row[entry[e].job], entry[e].loaded)
        BY <1>0, <2>0, <4>1, <4>2 DEF Commit
      <4>4. Processing(row[entry[e].job], entry[e].loaded).status =
               IF entry[e].loaded.status = "processing" THEN row[entry[e].job].status
                                                        ELSE "processing"
        BY <1>0, <2>0, <4>1, StatusAfter DEF Loaded
      <4> QED
        BY <1>0, <4>1, <4>3, <4>4 DEF TaskServes
    <3> QED
      BY <2>0, <2>2, <3>1 DEF TaskServes
  <2>3. CASE entry'[e].at = "saved" /\ SaveResult(e)
    <3>1. /\ row' = row /\ entry[e].at = "wrote"
          /\ files'[entry[e].job] = (files[entry[e].job] \ {"partial"}) \cup {"result"}
      BY <1>0, <2>0, <2>3 DEF SaveResult, JobOf
    <3> QED
      BY <1>0, <2>0, <2>3, <3>1 DEF TaskServes, RunAhead, HasResult
  <2>4. CASE /\ entry'[e].at \in RunAhead \ {"saved"}
             /\ entry[e].at \in RunAhead /\ UNCHANGED row
    BY <1>0, <2>0, <2>4 DEF TaskServes, RunAhead
  <2> QED
    BY <1>0, <1>m, <2>1, <2>2, <2>3, <2>4, TaskMoves
<1>o. CASE entry'[e].at \notin RunAhead \cup {"loaded"}
  BY <1>o DEF TaskServes, RunAhead
<1> QED
  BY <1>k, <1>m, <1>o

LEMMA SubmissionServesStep ==
    ASSUME ServeInv, Next
    PROVE  SubmissionServes'
<1>0. /\ TypeOK /\ UsedJobs /\ SubmissionServes
      /\ files \in [Jobs -> SUBSET Artefacts]
      /\ api.at # "idle" => api.job \in Jobs
      /\ used \subseteq used' /\ used \subseteq Jobs
  BY UsedGrows DEF ServeInv, TypeOK
<1>1. ASSUME NEW j \in Jobs,
             j \notin used \/ (api.at \in Submitting /\ j = api.job),
             "partial" \notin files[j]
      PROVE  "partial" \notin files'[j] /\ (HasResult(j) => HasResult(j)')
  <2>1. ASSUME NEW e \in Entries, RunWrites(e) PROVE JobOf(e) # j
    <3>1. entry[e].at # "free" /\ entry[e].job \in Jobs
      BY <1>0, <2>1 DEF RunWrites, TypeOK
    <3> QED
      BY <1>0, <1>1, <3>1, NoJobAssumption DEF UsedJobs, JobOf
  <2> QED
    BY <1>0, <1>1, <2>1, DirectoryKept
<1>2. \A j \in Jobs \ used' : "partial" \notin files'[j]
  BY <1>0, <1>1 DEF SubmissionServes
<1>3. api'.at \in Submitting => "partial" \notin files'[api'.job]
  <2>1. CASE api.at \in Submitting /\ api'.job = api.job
    BY <1>0, <1>1, <2>1 DEF SubmissionServes, Submitting
  <2>2. ASSUME NEW j \in Jobs, SubmitInsert(j), api'.job = j
        PROVE  "partial" \notin files'[api'.job]
    BY <1>0, <2>2 DEF SubmitInsert, SubmissionServes
  <2> QED
    BY <1>0, <2>1, <2>2, ApiMoves DEF Idle, Submitting
<1>4. api'.at = "syncend" => HasResult(api.job)'
  <2> SUFFICES ASSUME api'.at = "syncend" PROVE HasResult(api.job)'
    OBVIOUS
  <2>1. CASE api' = api
    <3>1. /\ api.job \in Jobs /\ HasResult(api.job)
          /\ "partial" \notin files[api.job] /\ api.at \in Submitting
      BY <1>0, <2>1 DEF SubmissionServes, Submitting
    <3>2. \A j \in Jobs : j = api.job => \/ "result" \in files'[j] \/ j \in purged'
      BY <1>1, <3>1 DEF HasResult
    <3> QED
      BY <2>1, <3>1, <3>2 DEF HasResult
  <2>2. CASE SyncSave
    BY <1>0, <2>2 DEF SyncSave, In, Move, HasResult
  <2>3. ApiStep => SyncSave \/ api' = Idle
    <3>1. api \in [at : Handlers, job : Jobs \cup {NoJob}, loaded : Rows]
      BY <1>0 DEF TypeOK
    <3> QED
      BY <3>1
         DEF ApiStep, SubmitSave, SubmitSaveFails, SubmitNoPool, SyncStart,
             SyncFails, SyncRuns, SyncSaveFails, SyncEnd, StopCommit,
             RestartNoPool, RestartGone, DeleteFiles, DeleteFilesFails,
             DeleteCommit, SubmitAsync, RestartCommit, In, Move, Leave
  <2> QED
    BY <1>0, <2>1, <2>2, <2>3, ApiMoves DEF Idle
<1> QED
  BY <1>2, <1>3, <1>4 DEF SubmissionServes

LEMMA ResultServableStep ==
    ASSUME ServeInv, Next
    PROVE  ResultServable'
<1> SUFFICES ASSUME NEW k \in Jobs, row'[k].status = "done"
             PROVE  "partial" \notin files'[k] /\ HasResult(k)'
  BY DEF ResultServable, HasResult
<1>0. /\ TypeOK /\ UsedJobs /\ SubmissionServes
      /\ \A e \in Entries : TaskServes(e)
  BY DEF ServeInv
<1>1. CASE \E e \in Entries : RunWrites(e) /\ JobOf(e) = k
  <2>1. PICK e \in Entries : RunWrites(e) /\ JobOf(e) = k
    BY <1>1
  <2>2. row' = row /\ entry[e].at = "running" /\ entry[e].job = k
    BY <2>1 DEF RunWrites, JobOf
  <2> QED
    BY <1>0, <2>2 DEF TaskServes, RunAhead
<1>2. CASE \A e \in Entries : RunWrites(e) => JobOf(e) # k
  <2>1. CASE row[k].status = "done"
    BY <1>0, <1>2, <2>1, DirectoryKept DEF ServeInv, ResultServable, HasResult
  <2>2. CASE SyncEnd /\ api.job = k
    BY <1>0, <2>2 DEF SyncEnd, In, SubmissionServes, Submitting, HasResult
  <2>3. ASSUME NEW e \in Entries, CommitOutcome(e), JobOf(e) = k
        PROVE  "partial" \notin files'[k] /\ HasResult(k)'
    <3>1. entry[e].at = "saved" /\ entry[e].job = k /\ UNCHANGED <<files, purged>>
      BY <2>3 DEF CommitOutcome, JobOf
    <3> QED
      BY <1>0, <3>1 DEF TaskServes, HasResult
  <2> QED
    BY <1>0, <2>1, <2>2, <2>3, NoNewDone
<1> QED
  BY <1>1, <1>2

(* GET .../result of a done job finds what save_result wrote, never the     *)
(* file of a run in progress, whatever stops, restarts, deletions, clean-   *)
(* ups, crashes and re-deliveries there are, unless the directory has been  *)
(* removed since.                                                           *)
THEOREM DoneJobsAreServed == Spec => []ResultServable
<1>1. Init => ServeInv
  <2>1. Init => TypeOK
    BY BoundsAssumption
       DEF Init, TypeOK, NoRow, Rows, FreeEntry, EntryRecords, EntryStates,
           Idle, Handlers, NoPass, CleanerRecords
  <2>2. Init => UsedJobs
    <3>1. /\ Idle.at = "idle" /\ NoRow.status = "absent"
          /\ FreeEntry.at = "free" /\ FreeEntry.job = NoJob
      BY DEF NoRow, FreeEntry, Idle
    <3> QED
      BY <3>1 DEF Init, UsedJobs, Exists, Submitting
  <2>3. Init => OneTask /\ \A e \in Entries : TaskServes(e)
    BY DEF Init, OneTask, TaskServes, FreeEntry, Blocking, RunAhead
  <2>4. Init => ResultServable /\ SubmissionServes
    BY DEF Init, ResultServable, SubmissionServes, NoRow, Idle, Submitting
  <2> QED
    BY <2>1, <2>2, <2>3, <2>4 DEF ServeInv
<1>2. ServeInv /\ [Next]_vars => ServeInv'
  <2>1. ServeInv /\ Next => ServeInv'
    <3> SUFFICES ASSUME ServeInv, Next PROVE ServeInv'
      OBVIOUS
    <3>1. TypeOK'
      BY RequestType, ApiStepType, EnqueueType, WorkerType, CleanerType, CrashType
         DEF Next, ServeInv
    <3>2. UsedJobs' /\ OneTask'
      BY UsedJobsStep, OneTaskStep DEF ServeInv
    <3> QED
      BY <3>1, <3>2, ResultServableStep, SubmissionServesStep, TaskServesStep DEF ServeInv
  <2>2. ServeInv /\ UNCHANGED vars => ServeInv'
    BY DEF vars, ServeInv, TypeOK, UsedJobs, OneTask, ResultServable,
           SubmissionServes, TaskServes, HasResult, Exists
  <2> QED
    BY <2>1, <2>2
<1>3. ServeInv => ResultServable
  BY DEF ServeInv
<1> QED
  BY <1>1, <1>2, <1>3, PTL DEF Spec

-----------------------------------------------------------------------------
(* A finished job is run again only on a new delivery.                     *)

(* An entry that was handed to the worker at most once, and is the only one *)
(* its job ever had.                                                        *)
Fresh(e) ==
    \/ entry[e].at \in {"posting", "queued"} /\ entry[e].try = 0
    \/ entry[e].at = "loaded" /\ entry[e].try < 2
First(e) == /\ Fresh(e)
            /\ \A f \in Entries \ {e} : entry[f].job # entry[e].job

(* Before the first run of a job nobody but the API writes its row, so that *)
(* the copy of a handler is the row, and only a stop can have finished it.  *)
FirstInv ==
    /\ TypeOK /\ UsedJobs
    /\ \A e \in Entries : entry[e].at \in Active => entry[e].try # 0
    /\ api.at \in {"upload", "dispatch"} => row[api.job].status \notin Terminal
    /\ api.at \in {"stop", "restart"} =>
          \/ ~Exists(api.job)
          \/ api.loaded = row[api.job]
          \/ \E e \in Entries : entry[e].job = api.job /\ ~First(e)
    /\ \A e \in Entries :
          First(e) /\ row[entry[e].job].status \in Terminal =>
             row[entry[e].job].error = "stopped"

(* Who may have written a row that changed.                                 *)
ApiCommits == \/ SubmitSaveFails \/ SyncStart \/ SyncFails \/ SyncEnd
              \/ StopCommit \/ RestartNoPool
              \/ \E e \in Entries : RestartCommit(e)
TaskCommits(e) == MarkProcessing(e) \/ CommitFailure(e) \/ CommitOutcome(e)

LEMMA RowWriters ==
    ASSUME TypeOK, Next, NEW k \in Jobs, row'[k] # row[k]
    PROVE  \/ row'[k] = NoRow
           \/ SubmitInsert(k)
           \/ api.at # "idle" /\ ApiCommits /\ api.job = k /\ Exists(k)
           \/ \E e \in Entries : /\ TaskCommits(e) /\ Exists(k)
                                 /\ entry[e].at # "free" /\ entry[e].job = k
<1>0. row \in [Jobs -> Rows]
  BY DEF TypeOK
<1>c. ASSUME NEW j \in Jobs, NEW new, Commit(j, new)
      PROVE  j = k /\ Exists(k)
  BY <1>0, <1>c DEF Commit
<1>1. CASE Request
  BY <1>0, <1>1 DEF Request, SubmitInsert, StopRead, RestartRead, DeleteRead
<1>2. CASE ApiStep
  <2>1. CASE DeleteCommit
    BY <1>0, <2>1 DEF DeleteCommit
  <2>2. CASE ~DeleteCommit
    <3>1. /\ ApiCommits /\ api.at # "idle"
          /\ \E new : Commit(api.job, new)
      BY <1>2, <2>2
         DEF ApiCommits, ApiStep, SubmitSave, SubmitSaveFails, SubmitNoPool,
             SyncStart, SyncFails, SyncRuns, SyncSave, SyncSaveFails, SyncEnd,
             StopCommit, RestartNoPool, RestartGone, DeleteFiles,
             DeleteFilesFails, SubmitAsync, RestartCommit, In
    <3>2. api.job \in Jobs
      BY <3>1 DEF TypeOK
    <3> QED
      BY <1>c, <3>1, <3>2
  <2> QED
    BY <2>1, <2>2
<1>3. ASSUME NEW e \in Entries, EnqueueStep(e) \/ WorkerStep(e)
      PROVE  /\ TaskCommits(e) /\ Exists(k)
             /\ entry[e].at # "free" /\ entry[e].job = k
  <2>1. /\ TaskCommits(e) /\ entry[e].at # "free"
        /\ \E new : Commit(JobOf(e), new)
    BY <1>3
       DEF TaskCommits, EnqueueStep, EnqueueArrives, EnqueueFails,
           WorkerStep, Pick, Exhausted, MarkProcessing, Refresh, RunWrites,
           RunFails, SaveResult, CommitFailure, CommitOutcome, WriteSidecars,
           WebhookReturns
  <2>2. JobOf(e) \in Jobs
    BY <2>1 DEF TypeOK, JobOf
  <2> QED
    BY <1>c, <2>1, <2>2 DEF JobOf
<1>4. CASE CleanerStep \/ Crash
  BY <1>4
     DEF CleanerStep, CommitDeletes, SelectExpired, PurgeFiles, PurgeFails, Crash,
         ApiCrash, WorkerCrash, CleanerCrash
<1> QED
  BY <1>1, <1>2, <1>3, <1>4 DEF Next

(* A task that commits has an entry that is no longer fresh.                *)
LEMMA CommitsLate ==
    ASSUME TypeOK, NEW e \in Entries, TaskCommits(e)
    PROVE  entry'[e].at \in {"marked", "sidecars", "gone"}
<1>1. entry \in [Entries -> EntryRecords] /\ entry[e] \in EntryRecords
  BY DEF TypeOK
<1> QED
  BY <1>1 DEF TaskCommits, MarkProcessing, CommitFailure, CommitOutcome, Close, Finish,
              Gone, EntryRecords

LEMMA TriedStep ==
    ASSUME TypeOK, Next, NEW e \in Entries,
           entry[e].at \in Active => entry[e].try # 0
    PROVE  entry'[e].at \in Active => entry'[e].try # 0
<1>0. entry \in [Entries -> EntryRecords] /\ entry[e] \in EntryRecords
      /\ entry[e].try \in Nat
  BY BoundsAssumption DEF TypeOK, EntryRecords
<1>1. CASE EnqueueStep(e) \/ WorkerStep(e)
  <2>1. CASE Pick(e)
    BY <1>0, <2>1 DEF Pick, Finish, Gone, Active, Blocking, EntryRecords
  <2>2. CASE ~Pick(e)
    <3>1. \/ entry'[e].at \notin Active
          \/ entry[e].at \in Active /\ entry'[e].try = entry[e].try
      BY <1>0, <1>1, <2>2
         DEF EnqueueStep, EnqueueArrives, EnqueueFails, WorkerStep, Exhausted,
             MarkProcessing, Refresh, RunWrites, RunFails, SaveResult,
             CommitFailure, CommitOutcome, WriteSidecars, WebhookReturns,
             GoTo, Close, Finish, Gone, Active, Blocking, EntryRecords
    <3> QED
      BY <3>1
  <2> QED
    BY <2>1, <2>2
<1> QED
  BY <1>1, EntryMoves DEF Active, Blocking

(* What is no longer the first run of a job never is again.                 *)
LEMMA StaysLate ==
    ASSUME FirstInv, Next, NEW e \in Entries, entry[e].at # "free", ~First(e)
    PROVE  ~First(e)' /\ entry'[e].job = entry[e].job
<1>0. /\ TypeOK /\ UsedJobs
      /\ entry \in [Entries -> EntryRecords] /\ entry[e] \in EntryRecords
      /\ entry[e].job \in Jobs /\ entry[e].try \in Nat
      /\ entry[e].at \in Active => entry[e].try # 0
  BY BoundsAssumption DEF FirstInv, TypeOK, EntryRecords
<1>1. \A f \in Entries : entry[f].at # "free" => entry'[f].job = entry[f].job
  BY <1>0, EntryMoves
<1>2. CASE \E f \in Entries \ {e} : entry[f].job = entry[e].job
  <2>1. PICK f \in Entries \ {e} : entry[f].job = entry[e].job
    BY <1>2
  <2>2. entry[f].at # "free"
    BY <1>0, <2>1, NoJobAssumption DEF UsedJobs
  <2> QED
    BY <1>1, <2>1, <2>2 DEF First
<1>3. CASE ~Fresh(e)
  <2>1. CASE entry'[e] = entry[e]
    BY <1>3, <2>1 DEF First, Fresh
  <2>2. CASE EnqueueStep(e) \/ WorkerStep(e)
    <3>1. ~Fresh(e)'
      <4>1. CASE Pick(e)
        BY <1>0, <1>3, <4>1 DEF Pick, Fresh, Finish, Gone, EntryRecords
      <4>2. CASE EnqueueArrives(e)
        BY <1>0, <1>3, <4>2 DEF EnqueueArrives, Fresh, GoTo, EntryRecords
      <4>3. CASE ~Pick(e) /\ ~EnqueueArrives(e)
        <5>1. entry'[e].at \notin {"posting", "queued", "loaded"}
          BY <1>0, <2>2, <4>3
             DEF EnqueueStep, EnqueueFails, WorkerStep, Exhausted,
                 MarkProcessing, Refresh, RunWrites, RunFails, SaveResult,
                 CommitFailure, CommitOutcome, WriteSidecars, WebhookReturns,
                 GoTo, Close, Finish, Gone, EntryRecords
        <5> QED
          BY <5>1 DEF Fresh
      <4> QED
        BY <4>1, <4>2, <4>3
    <3> QED
      BY <1>1, <3>1 DEF First
  <2>3. CASE entry'[e].at = "gone"
    BY <1>1, <2>3 DEF First, Fresh
  <2>4. CASE WorkerCrash /\ entry'[e].at = "queued" /\ entry'[e].try = entry[e].try
    <3>1. entry[e].at \in Active \/ entry'[e] = entry[e]
      BY <2>4 DEF WorkerCrash
    <3> QED
      BY <1>0, <1>1, <2>1, <2>4, <3>1 DEF First, Fresh
  <2> QED
    BY <1>0, <2>1, <2>2, <2>3, <2>4, EntryMoves
<1> QED
  BY <1>2, <1>3 DEF First

(* A handler that commits the copy it has just read.                        *)
LEMMA CurrentCopy ==
    ASSUME NEW r \in Rows
    PROVE  /\ Failed(r, r, "stopped").error = "stopped"
           /\ Reset(r, r).status = "pending"
BY DEF Failed, Reset, Flush, Column, Rows, NewRow, NoRow

LEMMA FirstStep ==
    ASSUME FirstInv, Next
    PROVE  FirstInv'
<1>0. /\ TypeOK /\ UsedJobs
      /\ row \in [Jobs -> Rows] /\ used \subseteq Jobs
      /\ api \in [at : Handlers, job : Jobs \cup {NoJob}, loaded : Rows]
      /\ api.at # "idle" => api.job \in Jobs
      /\ \A e \in Entries : entry[e].at # "free" => entry[e].job \in Jobs
      /\ Idle.at = "idle"
  BY DEF FirstInv, TypeOK, Idle
<1>1. TypeOK' /\ UsedJobs'
  BY <1>0, UsedJobsStep, RequestType, ApiStepType, EnqueueType, WorkerType,
     CleanerType, CrashType DEF Next
<1>2. \A e \in Entries : entry'[e].at \in Active => entry'[e].try # 0
  BY <1>0, TriedStep DEF FirstInv
<1>3. api'.at \in {"upload", "dispatch"} => row'[api'.job].status \notin Terminal
  <2> SUFFICES ASSUME api'.at \in {"upload", "dispatch"}
               PROVE  row'[api'.job].status \notin Terminal
    OBVIOUS
  <2>1. ASSUME NEW j \in Jobs, SubmitInsert(j), api'.job = j
        PROVE  row'[j].status \notin Terminal
    BY <1>0, <2>1 DEF SubmitInsert, NewRow, NoRow, Terminal
  <2>2. CASE api.at \in Submitting /\ api'.job = api.job
    <3>1. api.at \in {"upload", "dispatch"}
      <4>1. ApiStep => api.at \in {"upload", "dispatch"}
        BY <1>0, <2>2
           DEF ApiStep, SubmitSave, SubmitSaveFails, SubmitNoPool, SyncStart,
               SyncFails, SyncRuns, SyncSave, SyncSaveFails, SyncEnd, StopCommit,
               RestartNoPool, RestartGone, DeleteFiles, DeleteFilesFails,
               DeleteCommit, SubmitAsync, RestartCommit, In, Move, Leave
      <4>2. ~ApiStep => api' = api
        <5>1. Submitting \cap {"stop", "restart", "rmtree", "idle"} = {}
          BY DEF Submitting
        <5>2. \A j \in Jobs : ~SubmitInsert(j)
          BY <1>0, <2>2, <5>1 DEF SubmitInsert
        <5> QED
          BY <1>0, <5>1, <5>2, ApiMoves
      <4> QED
        BY <4>1, <4>2
    <3>2. row[api.job].status \notin Terminal /\ api.job \in Jobs
      BY <1>0, <3>1 DEF FirstInv
    <3>3. CASE row'[api.job] = row[api.job]
      BY <2>2, <3>2, <3>3
    <3>4. CASE row'[api.job] # row[api.job]
      <4>1. ~SubmitInsert(api.job)
        BY <1>0, <3>1 DEF SubmitInsert
      <4>2. ~ApiCommits
        BY <1>0
           DEF ApiCommits, SubmitSaveFails, SyncStart, SyncFails, SyncEnd,
               StopCommit, RestartNoPool, RestartCommit, Leave
      <4>3. \A e \in Entries : entry[e].job # api.job
        BY <1>0, <2>2 DEF UsedJobs
      <4>4. row'[api.job] = NoRow
        BY <1>0, <3>2, <3>4, <4>1, <4>2, <4>3, RowWriters
      <4> QED
        BY <2>2, <4>4 DEF NoRow, Terminal
    <3> QED
      BY <3>3, <3>4
  <2>3. api'.at \in Submitting /\ api' # Idle /\ ~(api'.at \in {"stop", "restart", "rmtree"})
    BY DEF Submitting, Idle
  <2> QED
    BY <1>0, <2>1, <2>2, <2>3, ApiMoves
<1>4. api'.at \in {"stop", "restart"} =>
          \/ ~Exists(api.job)'
          \/ api'.loaded = row'[api'.job]
          \/ \E e \in Entries : entry'[e].job = api'.job /\ ~First(e)'
  <2> SUFFICES ASSUME api'.at \in {"stop", "restart"}
               PROVE  \/ row'[api'.job].status = "absent"
                      \/ api'.loaded = row'[api'.job]
                      \/ \E e \in Entries : entry'[e].job = api'.job /\ ~First(e)'
    BY DEF Exists
  <2>1. CASE api' = api
    <3>1. api.job \in Jobs /\ api.at \in {"stop", "restart"}
      BY <1>0, <2>1
    <3>2. ASSUME NEW e \in Entries, entry[e].job = api.job, ~First(e)
          PROVE  \E f \in Entries : entry'[f].job = api'.job /\ ~First(f)'
      <4>1. entry[e].at # "free"
        BY <1>0, <3>1, <3>2, NoJobAssumption DEF UsedJobs
      <4> QED
        BY <2>1, <3>2, <4>1, StaysLate
    <3>3. CASE ~Exists(api.job)
      <4>1. ~SubmitInsert(api.job)
        BY <1>0, <3>1 DEF SubmitInsert
      <4> QED
        BY <1>0, <2>1, <3>1, <3>3, <4>1, RowsAppear
    <3>4. CASE api.loaded = row[api.job] /\ row'[api.job] # row[api.job]
      <4>1. ~SubmitInsert(api.job)
        BY <1>0, <3>1 DEF SubmitInsert
      <4>2. ~ApiCommits
        <5>1. ApiCommits => api' = Idle \/ api'.at = "sync"
          BY <1>0 DEF ApiCommits, SubmitSaveFails, SyncStart, SyncFails, SyncEnd,
                      StopCommit, RestartNoPool, RestartCommit, Leave
        <5> QED
          BY <1>0, <5>1
      <4>3. ASSUME NEW e \in Entries, TaskCommits(e), entry[e].job = api.job,
                   entry[e].at # "free"
            PROVE  entry'[e].job = api'.job /\ ~First(e)'
        <5>1. ~First(e)'
          BY <1>0, <4>3, CommitsLate DEF First, Fresh
        <5> QED
          BY <1>0, <2>1, <4>3, <5>1, EntryMoves
      <4>4. row'[api.job] = NoRow \/ \E e \in Entries : entry'[e].job = api'.job /\ ~First(e)'
        BY <1>0, <3>1, <3>4, <4>1, <4>2, <4>3, RowWriters
      <4> QED
        BY <2>1, <4>4 DEF NoRow
    <3> QED
      BY <2>1, <3>1, <3>2, <3>3, <3>4 DEF FirstInv
  <2>2. CASE api' # api
    <3>1. ApiStep => api'.at \notin {"stop", "restart"}
      BY <1>0, <2>2
         DEF ApiStep, SubmitSave, SubmitSaveFails, SubmitNoPool, SyncStart,
             SyncFails, SyncRuns, SyncSave, SyncSaveFails, SyncEnd, StopCommit,
             RestartNoPool, RestartGone, DeleteFiles, DeleteFilesFails,
             DeleteCommit, SubmitAsync, RestartCommit, In, Move, Leave
    <3>2. \E j \in Jobs : api'.job = j /\ row' = row /\ api'.loaded = row[j]
      BY <1>0, <2>2, <3>1, ApiMoves
    <3> QED
      BY <3>2
  <2> QED
    BY <2>1, <2>2
<1>5. ASSUME NEW e \in Entries, First(e)', row'[entry'[e].job].status \in Terminal
      PROVE  row'[entry'[e].job].error = "stopped"
  <2>1. CASE entry[e].at = "free"
    <3>1. entry'[e] # entry[e]
      BY <1>5, <2>1 DEF First, Fresh
    <3>2. /\ SubmitAsync(e) \/ RestartCommit(e)
          /\ entry'[e].job = api.job
          /\ \A f \in Entries \ {e} : entry'[f] = entry[f]
      BY <1>0, <2>1, <3>1, EntryMoves
    <3>3. CASE SubmitAsync(e)
      BY <1>5, <3>2, <3>3 DEF SubmitAsync, In, FirstInv
    <3>4. CASE RestartCommit(e)
      <4>1. /\ api.at = "restart" /\ api.job \in Jobs /\ Exists(api.job)
            /\ Commit(api.job, Reset(row[api.job], api.loaded))
        BY <1>0, <3>4 DEF RestartCommit, In
      <4>2. \A f \in Entries : entry[f].job # api.job
        BY <1>0, <1>5, <2>1, <3>2, <4>1, NoJobAssumption DEF First, UsedJobs
      <4>3. api.loaded = row[api.job]
        BY <4>1, <4>2 DEF FirstInv
      <4>4. row'[api.job].status = "pending"
        BY <1>0, <4>1, <4>3, CurrentCopy DEF Commit
      <4> QED
        BY <1>5, <3>2, <4>4 DEF Terminal
    <3> QED
      BY <3>2, <3>3, <3>4
  <2>2. CASE entry[e].at # "free"
    <3> DEFINE k == entry[e].job
    <3>1. entry'[e].job = k /\ k \in Jobs /\ k \in used
      BY <1>0, <2>2, EntryMoves, NoJobAssumption DEF UsedJobs
    <3>2. First(e)
      BY <1>5, <2>2, StaysLate
    <3>3. CASE row'[k] = row[k]
      BY <1>5, <3>1, <3>2, <3>3 DEF FirstInv
    <3>4. CASE row'[k] # row[k]
      <4>1. row'[k] # NoRow
        BY <1>5, <3>1 DEF NoRow, Terminal
      <4>2. ~SubmitInsert(k)
        BY <3>1 DEF SubmitInsert
      <4>3. ASSUME NEW f \in Entries, TaskCommits(f), entry[f].job = k PROVE FALSE
        <5>1. f = e
          BY <3>2, <4>3 DEF First
        <5> QED
          BY <1>0, <1>5, <4>3, <5>1, CommitsLate DEF First, Fresh
      <4>4. ApiCommits /\ api.at # "idle" /\ api.job = k /\ Exists(k)
        BY <1>0, <3>1, <3>4, <4>1, <4>2, <4>3, RowWriters
      <4>5. StopCommit \/ RestartNoPool
        <5>1. api.at \notin Submitting
          BY <1>0, <4>4 DEF UsedJobs
        <5>2. ASSUME NEW f \in Entries, RestartCommit(f) PROVE FALSE
          <6>1. f # e /\ entry'[f].job = k
            BY <1>0, <2>2, <4>4, <5>2 DEF RestartCommit, Post, TypeOK, EntryRecords
          <6> QED
            BY <1>5, <3>1, <6>1 DEF First
        <5> QED
          BY <4>4, <5>1, <5>2
             DEF ApiCommits, SubmitSaveFails, SyncStart, SyncFails, SyncEnd, In,
                 Submitting
      <4>6. api.loaded = row[k] /\ row[k] \in Rows
        <5>1. \A f \in Entries : entry[f].job = k => First(f)
          BY <3>2 DEF First
        <5> QED
          BY <1>0, <3>1, <4>4, <4>5, <5>1 DEF FirstInv, StopCommit, RestartNoPool, In
      <4>7. CASE StopCommit
        BY <1>0, <3>1, <4>4, <4>6, <4>7, CurrentCopy DEF StopCommit, Commit
      <4>8. CASE RestartNoPool
        <5>1. row'[k].status = "pending"
          BY <1>0, <3>1, <4>4, <4>6, <4>8, CurrentCopy DEF RestartNoPool, Commit
        <5> QED
          BY <1>5, <3>1, <5>1 DEF Terminal
      <4> QED
        BY <4>5, <4>7, <4>8
    <3> QED
      BY <3>3, <3>4
  <2> QED
    BY <2>1, <2>2
<1> QED
  BY <1>1, <1>2, <1>3, <1>4, <1>5 DEF FirstInv

(* The step that opens a finished row again.                                *)
LEMMA RerunStep ==
    ASSUME FirstInv, Next, NEW j \in Jobs,
           row[j].status \in Terminal, row'[j].status = "processing"
    PROVE  \E e \in Entries :
              /\ entry[e].at = "loaded" /\ entry[e].job = j
              /\ \/ entry[e].try > 1
                 \/ row[j].error = "stopped"
                 \/ \E f \in Entries \ {e} : entry[f].job = j
<1>0. /\ TypeOK /\ row \in [Jobs -> Rows] /\ row[j] \in Rows
      /\ api.loaded \in Rows
      /\ \A e \in Entries : entry[e].loaded \in Rows /\ entry[e].try \in Nat
      /\ row'[j] # row[j] /\ row[j].status # "processing"
  BY BoundsAssumption DEF FirstInv, TypeOK, EntryRecords, Terminal
<1>1. row'[j] # NoRow /\ ~SubmitInsert(j)
  <2>1. SubmitInsert(j) => row'[j].status = "pending"
    BY <1>0 DEF SubmitInsert, NewRow, NoRow
  <2> QED
    BY <2>1 DEF NoRow
<1>2. ASSUME api.job = j, Exists(j), ApiCommits PROVE FALSE
  <2>1. ~SyncStart
    BY <1>2 DEF SyncStart, In, FirstInv
  <2>2. PICK why \in {"stopped", "failure"} :
           \/ Commit(j, Failed(row[j], api.loaded, why))
           \/ Commit(j, Done(row[j], api.loaded))
           \/ Commit(j, Reset(row[j], api.loaded))
    BY <1>2, <2>1
       DEF ApiCommits, SubmitSaveFails, SyncFails, SyncEnd, StopCommit,
           RestartNoPool, RestartCommit
  <2>3. /\ Failed(row[j], api.loaded, why).status \in {row[j].status, "failed"}
        /\ Done(row[j], api.loaded).status \in {row[j].status, "done"}
        /\ Reset(row[j], api.loaded).status \in {row[j].status, "pending"}
    BY <1>0, StatusAfter
  <2> QED
    BY <1>0, <1>2, <2>2, <2>3 DEF Commit
<1>3. PICK e \in Entries : TaskCommits(e) /\ Exists(j) /\ entry[e].job = j
  BY <1>0, <1>1, <1>2, RowWriters
<1>4. MarkProcessing(e)
  <2>1. ASSUME CommitFailure(e) \/ CommitOutcome(e) PROVE FALSE
    <3>1. \/ Commit(j, Failed(row[j], entry[e].loaded, "failure"))
          \/ Commit(j, Done(row[j], entry[e].loaded))
      BY <1>3, <2>1 DEF CommitFailure, CommitOutcome, JobOf, RowOf, Loaded
    <3>2. /\ Failed(row[j], entry[e].loaded, "failure").status \in {row[j].status, "failed"}
          /\ Done(row[j], entry[e].loaded).status \in {row[j].status, "done"}
      BY <1>0, StatusAfter
    <3> QED
      BY <1>0, <1>3, <3>1, <3>2 DEF Commit
  <2> QED
    BY <1>3, <2>1 DEF TaskCommits
<1>5. entry[e].at = "loaded"
  BY <1>4 DEF MarkProcessing
<1>6. CASE First(e)
  BY <1>3, <1>5, <1>6 DEF FirstInv
<1>7. CASE ~First(e)
  BY <1>0, <1>3, <1>5, <1>7 DEF First, Fresh
<1> QED
  BY <1>6, <1>7

(* A finished job is processed again only because it was enqueued again,    *)
(* because ARQ runs again an entry whose task died, or because the stop     *)
(* that finished it came before its only run: no order in which handlers    *)
(* and tasks commit their copies repeats a run by itself.                   *)
THEOREM RerunsAreDeliveries == Spec => RerunOnlyOnRedelivery
<1>1. Init => FirstInv
  <2>1. Init => TypeOK
    BY BoundsAssumption
       DEF Init, TypeOK, NoRow, Rows, FreeEntry, EntryRecords, EntryStates,
           Idle, Handlers, NoPass, CleanerRecords
  <2>2. /\ Idle.at = "idle" /\ NoRow.status = "absent"
        /\ FreeEntry.at = "free" /\ FreeEntry.job = NoJob
    BY DEF NoRow, FreeEntry, Idle
  <2>3. Init => UsedJobs
    BY <2>2 DEF Init, UsedJobs, Exists, Submitting
  <2>4. Init => \A e \in Entries : entry[e].at \notin Active /\ ~First(e)
    BY <2>2 DEF Init, First, Fresh, Active, Blocking
  <2>5. Init => api.at = "idle"
    BY <2>2 DEF Init
  <2> QED
    BY <2>1, <2>3, <2>4, <2>5 DEF FirstInv
<1>2. FirstInv /\ [Next]_vars => FirstInv'
  <2>1. FirstInv /\ UNCHANGED vars => FirstInv'
    BY DEF vars, FirstInv, TypeOK, UsedJobs, First, Fresh, Exists
  <2> QED
    BY <2>1, FirstStep
<1>3. FirstInv /\ [Next]_vars =>
         [\A j \in Jobs :
            row[j].status \in Terminal /\ row'[j].status = "processing" =>
               \E e \in Entries :
                  /\ entry[e].at = "loaded" /\ entry[e].job = j
                  /\ \/ entry[e].try > 1
                     \/ row[j].error = "stopped"
                     \/ \E f \in Entries \ {e} : entry[f].job = j]_vars
  BY RerunStep
<1> QED
  BY <1>1, <1>2, <1>3, PTL DEF Spec, RerunOnlyOnRedelivery

-----------------------------------------------------------------------------
(* JobLifecycle implements JobPromise.                                     *)

PromiseInv == TypeOK /\ UsedJobs /\ stranded \subseteq used

(* Only a submission makes a job used, and only used jobs are stranded.     *)
LEMMA UsedAndStranded ==
    ASSUME PromiseInv, Next
    PROVE  /\ stranded' \subseteq used'
           /\ \A k \in Jobs : k \in used' \ used => SubmitInsert(k)
           /\ \A k \in Jobs : SubmitInsert(k) => stranded' = stranded
<1>0. /\ used \subseteq used' /\ used \subseteq Jobs /\ stranded \subseteq used
      /\ api.at # "idle" => api.job \in used
      /\ \A e \in Entries : entry[e].at # "free" => entry[e].job \in used
  <2>1. \A e \in Entries : entry[e].at # "free" => entry[e].job # NoJob
    BY NoJobAssumption DEF PromiseInv, TypeOK
  <2> QED
    BY <2>1, UsedGrows DEF PromiseInv, UsedJobs, TypeOK
<1>1. \A k \in Jobs : SubmitInsert(k) => stranded' = stranded
  BY DEF SubmitInsert
<1>2. CASE Request
  BY <1>0, <1>1, <1>2 DEF Request, SubmitInsert, StopRead, RestartRead, DeleteRead
<1>3. CASE ApiStep
  <2>1. used' = used /\ stranded' \subseteq stranded \cup {api.job} /\ api.at # "idle"
    BY <1>3
       DEF ApiStep, SubmitSave, SubmitSaveFails, SubmitNoPool, SyncStart,
           SyncFails, SyncRuns, SyncSave, SyncSaveFails, SyncEnd, StopCommit,
           RestartNoPool, RestartGone, DeleteFiles, DeleteFilesFails,
           DeleteCommit, SubmitAsync, RestartCommit, In
  <2> QED
    BY <1>0, <1>1, <2>1
<1>4. ASSUME NEW e \in Entries, EnqueueStep(e) \/ WorkerStep(e)
      PROVE  used' = used /\ stranded' \subseteq used
  <2>1. /\ used' = used /\ entry[e].at # "free"
        /\ stranded' \subseteq stranded \cup {entry[e].job}
    BY <1>4
       DEF EnqueueStep, EnqueueArrives, EnqueueFails,
           WorkerStep, Pick, Exhausted, MarkProcessing, Refresh, RunWrites,
           RunFails, SaveResult, CommitFailure, CommitOutcome, WriteSidecars,
           WebhookReturns, JobOf
  <2> QED
    BY <1>0, <2>1
<1>5. CASE ApiCrash
  <2>1. /\ used' = used
        /\ stranded' = stranded \cup {entry[e].job : e \in {f \in Entries : entry[f].at = "posting"}}
                         \cup (IF api.at \in Submitting THEN {api.job} ELSE {})
    BY <1>5 DEF ApiCrash
  <2>2. {entry[e].job : e \in {f \in Entries : entry[f].at = "posting"}} \subseteq used
    BY <1>0
  <2>3. (IF api.at \in Submitting THEN {api.job} ELSE {}) \subseteq used
    BY <1>0 DEF Submitting
  <2> QED
    BY <1>0, <1>1, <2>1, <2>2, <2>3
<1>6. CASE CleanerStep \/ WorkerCrash \/ CleanerCrash
  <2>1. UNCHANGED <<used, stranded>>
    BY <1>6 DEF CleanerStep, CommitDeletes, SelectExpired, PurgeFiles, PurgeFails,
                WorkerCrash, CleanerCrash
  <2> QED
    BY <1>0, <1>1, <2>1
<1> QED
  BY <1>0, <1>1, <1>2, <1>3, <1>4, <1>5, <1>6 DEF Next, Crash

(* How one job moves in a step.                                             *)
LEMMA PhaseMoves ==
    ASSUME PromiseInv, Next, NEW k \in Jobs
    PROVE  /\ Phase(k)' \in Promise!Phases
           /\ Phase(k)' # Phase(k) => <<Phase(k), Phase(k)'>> \in Promise!Moves
<1> DEFINE now == Phase(k)
           then == Phase(k)'
<1>0. /\ row[k].status \in Open \cup Terminal \cup {"absent"}
      /\ row'[k].status \in Open \cup Terminal \cup {"absent"}
  <2>1. TypeOK'
    BY RequestType, ApiStepType, EnqueueType, WorkerType, CleanerType, CrashType
       DEF Next, PromiseInv
  <2> QED
    BY <2>1 DEF PromiseInv, TypeOK, Rows
<1>1. /\ now \in {"absent", "open", "settled", "stranded", "removed"}
      /\ now = "absent" <=> ~Exists(k) /\ k \notin used
      /\ now = "removed" <=> ~Exists(k) /\ k \in used
  BY <1>0 DEF Phase, Exists, Terminal
<1>2. /\ then \in {"absent", "open", "settled", "stranded", "removed"}
      /\ then = "absent" <=> ~Exists(k)' /\ k \notin used'
      /\ then = "removed" <=> ~Exists(k)' /\ k \in used'
      /\ Exists(k)' /\ row'[k].status \notin Terminal /\ k \notin stranded' => then = "open"
  BY <1>0 DEF Phase, Exists, Terminal
<1>3. /\ Exists(k) => k \in used
      /\ k \in used => k \in used'
      /\ k \in stranded => k \in used
  BY UsedGrows DEF PromiseInv, UsedJobs
<1>4. now = "removed" => then = "removed"
  <2>1. ~SubmitInsert(k) \/ k \notin used
    BY DEF SubmitInsert
  <2> QED
    BY <1>1, <1>2, <1>3, <2>1, RowsAppear DEF PromiseInv, Exists
<1>5. now = "absent" => then \in {"absent", "open"}
  <2>1. CASE SubmitInsert(k) /\ row'[k] = NewRow /\ now = "absent"
    <3>1. k \notin stranded'
      BY <1>1, <1>3, <2>1, UsedAndStranded
    <3>2. row'[k].status = "pending"
      BY <2>1 DEF NewRow, NoRow
    <3> QED
      BY <1>2, <3>1, <3>2 DEF Exists, Terminal
  <2>2. CASE row'[k].status = "absent" /\ now = "absent"
    <3>1. SubmitInsert(k) => row'[k].status = "pending"
      BY DEF SubmitInsert, NewRow, NoRow, PromiseInv, TypeOK
    <3>2. k \notin used'
      BY <1>1, <2>2, <3>1, UsedAndStranded
    <3> QED
      BY <1>2, <2>2, <3>2 DEF Exists
  <2> QED
    BY <1>1, <2>1, <2>2, RowsAppear DEF PromiseInv
<1>6. now \in {"open", "settled", "stranded"} => then # "absent"
  BY <1>1, <1>2, <1>3
<1> HIDE DEF now, then
<1>7. /\ then \in Promise!Phases
      /\ then # now => <<now, then>> \in Promise!Moves
  BY <1>1, <1>2, <1>4, <1>5, <1>6 DEF Promise!Phases, Promise!Moves
<1> QED
  BY <1>7 DEF now, then

(* Whatever happens inside, a client that polls sees each job move only as  *)
(* JobPromise allows: it is accepted once, comes to an end or is stranded   *)
(* by a named failure, and once removed is never seen again.  The steps of  *)
(* JobLifecycle that show nothing are stuttering steps of the promise.      *)
THEOREM PromiseIsSafe == Spec => Promise!Safety
<1>1. Init => PromiseInv /\ Promise!Init
  <2>1. Init => TypeOK
    BY BoundsAssumption
       DEF Init, TypeOK, NoRow, Rows, FreeEntry, EntryRecords, EntryStates,
           Idle, Handlers, NoPass, CleanerRecords
  <2>2. /\ Idle.at = "idle" /\ NoRow.status = "absent"
        /\ FreeEntry.at = "free" /\ FreeEntry.job = NoJob
    BY DEF NoRow, FreeEntry, Idle
  <2>3. Init => PromiseInv
    BY <2>1, <2>2 DEF Init, UsedJobs, Exists, Submitting, PromiseInv
  <2>4. Init => \A j \in Jobs : Phase(j) = "absent"
    BY <2>2 DEF Init, Phase, Exists, Terminal
  <2> QED
    BY <2>3, <2>4 DEF Promise!Init
<1>2. PromiseInv /\ [Next]_vars => PromiseInv'
  <2>1. PromiseInv /\ Next => PromiseInv'
    <3> SUFFICES ASSUME PromiseInv, Next PROVE PromiseInv'
      OBVIOUS
    <3>1. TypeOK'
      BY RequestType, ApiStepType, EnqueueType, WorkerType, CleanerType, CrashType
         DEF Next, PromiseInv
    <3> QED
      BY <3>1, UsedJobsStep, UsedAndStranded DEF PromiseInv
  <2>2. PromiseInv /\ UNCHANGED vars => PromiseInv'
    BY DEF vars, PromiseInv, TypeOK, UsedJobs, Exists
  <2> QED
    BY <2>1, <2>2
<1>3. PromiseInv /\ [Next]_vars => [Promise!Next]_([j \in Jobs |-> Phase(j)])
  <2> SUFFICES ASSUME PromiseInv, [Next]_vars
               PROVE  Promise!Next \/ UNCHANGED [j \in Jobs |-> Phase(j)]
    OBVIOUS
  <2>1. CASE Next
    BY <2>1, PhaseMoves DEF Promise!Next
  <2>2. CASE UNCHANGED vars
    BY <2>2 DEF vars, Phase, Exists
  <2> QED
    BY <2>1, <2>2
<1> QED
  BY <1>1, <1>2, <1>3, PTL DEF Spec, Promise!Safety
=============================================================================
