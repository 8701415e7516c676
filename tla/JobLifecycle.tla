---------------------------- MODULE JobLifecycle ----------------------------
(***************************************************************************)
(* The life of an OCR job across the four places that act on it:           *)
(*                                                                         *)
(*   - the API process (app/routers/ocr.py, app/routers/admin.py): one     *)
(*     event loop whose handlers block it, so at most one handler is       *)
(*     between two of its statements (api); it is released only while a    *)
(*     handler awaits the enqueue of a queue entry (entries in "posting"); *)
(*   - the ARQ queue in Redis and its one worker process                   *)
(*     (app/workers/ocr_worker.py): each queue entry carries the state of  *)
(*     the task that serves it (entry);                                    *)
(*   - the TTL cleanup (app/services/cleanup.py), which runs in a process  *)
(*     of its own when it is started by hand (cleaner);                    *)
(*   - the database (row) and the job directories (files) they share.      *)
(*                                                                         *)
(* Every read of a row keeps a copy, as a session object does, and every   *)
(* commit writes the columns that were assigned something else than the    *)
(* copy holds (Flush).  Reads, commits and file operations are steps of    *)
(* their own, so processes interleave between them.                        *)
(***************************************************************************)
EXTENDS Naturals, FiniteSets

CONSTANTS
    Jobs,       \* job identifiers; uuid4, so one is never handed out twice
    Entries,    \* queue entries; each enqueue_job call makes a new one
    MaxTries,   \* WorkerSettings leaves ARQ's max_tries at its default
    MaxJobs,    \* WorkerSettings.max_jobs
    Operations, \* the requests, passes and crashes a run considers
    NoJob       \* no job: the entry was never used, no handler is running

ASSUME BoundsAssumption == /\ MaxTries \in Nat \ {0}
                           /\ MaxJobs \in Nat \ {0}
ASSUME OperationsAssumption ==
    Operations \subseteq {"sync", "stop", "restart", "delete", "cleanup",
                          "apicrash", "workercrash", "cleanercrash"}
ASSUME NoJobAssumption == NoJob \notin Jobs

VARIABLES
    row,        \* the jobs table: row[j].status = "absent" when there is none
    files,      \* the artefacts in the directory of each job
    entry,      \* the queue and the tasks of the worker
    api,        \* the handler that occupies the API's event loop
    cleaner,    \* the cleanup pass
    used,       \* jobs that were ever inserted
    stranded,   \* open jobs that a named failure left without a queue entry
    purged      \* jobs whose directory was removed since the last save_result

vars == <<row, files, entry, api, cleaner, used, stranded, purged>>

-----------------------------------------------------------------------------
(* Rows, and what a commit writes.                                         *)

Open == {"pending", "processing"}
Terminal == {"done", "failed"}

Rows == [status : Open \cup Terminal \cup {"absent"},
         error : {"none", "stopped", "failure"},
         started : BOOLEAN,
         finished : BOOLEAN]

NoRow == [status |-> "absent", error |-> "none",
          started |-> FALSE, finished |-> FALSE]
NewRow == [NoRow EXCEPT !.status = "pending"]

Exists(j) == row[j].status # "absent"

(* An UPDATE holds the columns whose new value differs from the value that  *)
(* was loaded (a time stamp always does); the others keep what the table    *)
(* holds now.                                                               *)
Column(cur, loaded, new) == IF new # loaded THEN new ELSE cur

Flush(cur, loaded, new) ==
    [status   |-> Column(cur.status, loaded.status, new.status),
     error    |-> Column(cur.error, loaded.error, new.error),
     started  |-> Column(cur.started, loaded.started, new.started),
     finished |-> Column(cur.finished, loaded.finished, new.finished)]

Processing(cur, loaded) ==
    [Flush(cur, loaded, [loaded EXCEPT !.status = "processing"])
        EXCEPT !.started = TRUE]
Failed(cur, loaded, why) ==
    [Flush(cur, loaded, [loaded EXCEPT !.status = "failed", !.error = why])
        EXCEPT !.finished = TRUE]
Done(cur, loaded) ==
    [Flush(cur, loaded, [loaded EXCEPT !.status = "done"])
        EXCEPT !.finished = TRUE]
Reset(cur, loaded) == Flush(cur, loaded, NewRow)

\* Mutant: the row is merged back instead.
CommitMerges(j, new) == row' = [row EXCEPT ![j] = new]

(* UPDATE of a row that is gone raises and changes nothing.                *)
Commit(j, new) == row' = IF Exists(j) THEN [row EXCEPT ![j] = new] ELSE row

(* "partial" and "result" are the file result.<ext>, as a run in progress   *)
(* leaves it and as save_result writes it.                                  *)
Artefacts == {"input", "partial", "result"}

-----------------------------------------------------------------------------
(* Queue entries and tasks.                                                *)

\* The task holds the worker's event loop: its statements do not await.
Blocking == {"loaded", "marked", "running", "wrote", "saved", "failing",
             "sidecars"}
Active == Blocking \cup {"webhook"}
EntryStates == {"free", "posting", "queued", "gone"} \cup Active

EntryRecords == [at : EntryStates, job : Jobs \cup {NoJob},
                 try : 0..MaxTries, loaded : Rows]
FreeEntry == [at |-> "free", job |-> NoJob, try |-> 0, loaded |-> NoRow]

GoTo(e, s) == entry' = [entry EXCEPT ![e].at = s]
(* The copy dies with the session, the count of tries with the entry.      *)
Close(e, s) == entry' = [entry EXCEPT ![e].at = s, ![e].loaded = NoRow]
\* Mutant: a task that ends leaves its entry in the queue.
GoneRequeued(e) ==
    [at |-> "queued", job |-> entry[e].job, try |-> 0, loaded |-> NoRow]
\* Mutant: a task that ends loses its job id.
GoneForgetsJob(e) ==
    [at |-> "gone", job |-> NoJob, try |-> 0, loaded |-> NoRow]
Gone(e) == [at |-> "gone", job |-> entry[e].job, try |-> 0, loaded |-> NoRow]
Finish(e) == entry' = [entry EXCEPT ![e] = Gone(e)]

\* No task is between two awaits, and max_jobs is not reached.
WorkerFree ==
    /\ \A e \in Entries : entry[e].at \notin Blocking
    /\ Cardinality({e \in Entries : entry[e].at = "webhook"}) < MaxJobs

Post(j, e) ==
    /\ entry[e].at = "free"
    /\ entry' = [entry EXCEPT ![e].at = "posting", ![e].job = j]

-----------------------------------------------------------------------------
(* The API process.                                                        *)

Handlers == {"idle", "upload", "dispatch", "sync", "syncsave", "syncend",
             "stop", "restart", "rmtree", "delete"}
Idle == [at |-> "idle", job |-> NoJob, loaded |-> NoRow]

Enter(h, j) == /\ api = Idle
               /\ api' = [at |-> h, job |-> j, loaded |-> row[j]]
Move(h) == api' = [api EXCEPT !.at = h]
Leave == api' = Idle
In(h) == api.at = h

Submitting == {"upload", "dispatch", "sync", "syncsave", "syncend"}

(* submit_ocr inserts the row; the uploads it refuses leave no trace.      *)
SubmitInsert(j) ==
    /\ j \notin used
    /\ api = Idle
    /\ api' = [at |-> "upload", job |-> j, loaded |-> NewRow]
    /\ row' = [row EXCEPT ![j] = NewRow]
    /\ used' = used \cup {j}
    /\ UNCHANGED <<files, entry, cleaner, stranded, purged>>

SubmitSave ==
    /\ In("upload")
    /\ files' = [files EXCEPT ![api.job] = @ \cup {"input"}]
    /\ Move("dispatch")
    /\ UNCHANGED <<row, entry, cleaner, used, stranded, purged>>

SubmitSaveFails ==
    /\ In("upload")
    /\ Commit(api.job, Failed(row[api.job], api.loaded, "failure"))
    /\ Leave
    /\ UNCHANGED <<files, entry, cleaner, used, stranded, purged>>

(* mode=async: enqueue_job is awaited, the handler lets the loop go.       *)
SubmitAsync(e) ==
    /\ In("dispatch")
    /\ Post(api.job, e)
    /\ Leave
    /\ UNCHANGED <<row, files, cleaner, used, stranded, purged>>

(* get_arq_pool answers 503 when Redis was down at start-up: the row is     *)
(* already committed and stays pending.                                     *)
SubmitNoPool ==
    /\ In("dispatch")
    /\ stranded' = stranded \cup {api.job}
    /\ Leave
    /\ UNCHANGED <<row, files, entry, cleaner, used, purged>>

(* mode=sync: the run blocks the loop from here to its end.                *)
SyncStart ==
    /\ "sync" \in Operations
    /\ In("dispatch")
    /\ Commit(api.job, Processing(row[api.job], api.loaded))
    /\ api' = [api EXCEPT !.at = "sync",
                          !.loaded = Processing(row[api.job], api.loaded)]
    /\ UNCHANGED <<files, entry, cleaner, used, stranded, purged>>

SyncFails ==
    /\ In("sync")
    /\ Commit(api.job, Failed(row[api.job], api.loaded, "failure"))
    /\ Leave
    /\ UNCHANGED <<files, entry, cleaner, used, stranded, purged>>

SyncRuns ==
    /\ In("sync")
    /\ Move("syncsave")
    /\ UNCHANGED <<row, files, entry, cleaner, used, stranded, purged>>

SyncSave ==
    /\ In("syncsave")
    /\ files' = [files EXCEPT ![api.job] = @ \cup {"result"}]
    /\ purged' = purged \ {api.job}
    /\ Move("syncend")
    /\ UNCHANGED <<row, entry, cleaner, used, stranded>>

(* save_result is outside the try: an OSError leaves the row processing.   *)
SyncSaveFails ==
    /\ In("syncsave")
    /\ stranded' = stranded \cup {api.job}
    /\ Leave
    /\ UNCHANGED <<row, files, entry, cleaner, used, purged>>

(* Every page failed, or not.                                              *)
SyncEnd ==
    /\ In("syncend")
    /\ \/ Commit(api.job, Done(row[api.job], api.loaded))
       \/ Commit(api.job, Failed(row[api.job], api.loaded, "failure"))
    /\ Leave
    /\ UNCHANGED <<files, entry, cleaner, used, stranded, purged>>

(* job_stop does not touch the queue entry or the running task.            *)
StopRead(j) ==
    /\ "stop" \in Operations
    /\ row[j].status \in Open
    /\ Enter("stop", j)
    /\ UNCHANGED <<row, files, entry, cleaner, used, stranded, purged>>

StopCommit ==
    /\ In("stop")
    /\ Commit(api.job, Failed(row[api.job], api.loaded, "stopped"))
    /\ Leave
    /\ UNCHANGED <<files, entry, cleaner, used, stranded, purged>>

(* job_restart accepts a job in any state whose input is still there.      *)
RestartRead(j) ==
    /\ "restart" \in Operations
    /\ Exists(j)
    /\ "input" \in files[j]
    /\ Enter("restart", j)
    /\ UNCHANGED <<row, files, entry, cleaner, used, stranded, purged>>

RestartCommit(e) ==
    /\ In("restart")
    /\ Exists(api.job)
    /\ Commit(api.job, Reset(row[api.job], api.loaded))
    /\ Post(api.job, e)
    /\ stranded' = stranded \ {api.job}
    /\ Leave
    /\ UNCHANGED <<files, cleaner, used, purged>>

RestartNoPool ==
    /\ In("restart")
    /\ Exists(api.job)
    /\ Commit(api.job, Reset(row[api.job], api.loaded))
    /\ stranded' = stranded \cup {api.job}
    /\ Leave
    /\ UNCHANGED <<files, entry, cleaner, used, purged>>

RestartGone ==
    /\ In("restart")
    /\ ~Exists(api.job)
    /\ Leave
    /\ UNCHANGED <<row, files, entry, cleaner, used, stranded, purged>>

(* job_delete removes the directory, then the row.                         *)
DeleteRead(j) ==
    /\ "delete" \in Operations
    /\ Exists(j)
    /\ api = Idle
    /\ api' = [at |-> "rmtree", job |-> j, loaded |-> NoRow]
    /\ UNCHANGED <<row, files, entry, cleaner, used, stranded, purged>>

DeleteFiles ==
    /\ In("rmtree")
    /\ files' = [files EXCEPT ![api.job] = {}]
    /\ purged' = purged \cup {api.job}
    /\ Move("delete")
    /\ UNCHANGED <<row, entry, cleaner, used, stranded>>

(* rmtree gives up half-way and the handler with it.                       *)
DeleteFilesFails ==
    /\ In("rmtree")
    /\ \E left \in SUBSET files[api.job] :
          files' = [files EXCEPT ![api.job] = left]
    /\ purged' = purged \cup {api.job}
    /\ Leave
    /\ UNCHANGED <<row, entry, cleaner, used, stranded>>

DeleteCommit ==
    /\ In("delete")
    /\ row' = [row EXCEPT ![api.job] = NoRow]
    /\ Leave
    /\ UNCHANGED <<files, entry, cleaner, used, stranded, purged>>

(* Redis has the entry, or the call raises: a submission answers 500, a     *)
(* restart suppresses it, and neither touches the row again.                *)
EnqueueArrives(e) ==
    /\ entry[e].at = "posting"
    /\ GoTo(e, "queued")
    /\ UNCHANGED <<row, files, api, cleaner, used, stranded, purged>>

EnqueueFails(e) ==
    /\ entry[e].at = "posting"
    /\ Finish(e)
    /\ stranded' = stranded \cup {entry[e].job}
    /\ UNCHANGED <<row, files, api, cleaner, used, purged>>

(* The process dies with the handler it runs and the enqueues it awaits.   *)
ApiCrash ==
    LET posting == {e \in Entries : entry[e].at = "posting"}
    IN /\ "apicrash" \in Operations
       /\ api # Idle \/ posting # {}
       /\ entry' = [e \in Entries |->
                      IF e \in posting THEN Gone(e) ELSE entry[e]]
       /\ stranded' = stranded \cup {entry[e].job : e \in posting}
                        \cup (IF api.at \in Submitting THEN {api.job} ELSE {})
       /\ Leave
       /\ UNCHANGED <<row, files, cleaner, used, purged>>

-----------------------------------------------------------------------------
(* The worker process.                                                     *)

JobOf(e) == entry[e].job
RowOf(e) == row[JobOf(e)]
Loaded(e) == entry[e].loaded

(* ARQ starts a task; process_ocr_job reads the row.                       *)
Pick(e) ==
    /\ entry[e].at = "queued"
    /\ WorkerFree
    /\ entry[e].try < MaxTries
    /\ IF Exists(JobOf(e))
         THEN entry' = [entry EXCEPT ![e].at = "loaded", ![e].try = @ + 1,
                                     ![e].loaded = RowOf(e)]
         ELSE Finish(e)
    /\ UNCHANGED <<row, files, api, cleaner, used, stranded, purged>>

(* An entry that was started max_tries times is dropped, its row as it is. *)
Exhausted(e) ==
    /\ entry[e].at = "queued"
    /\ WorkerFree
    /\ entry[e].try = MaxTries
    /\ Finish(e)
    /\ stranded' = stranded \cup {JobOf(e)}
    /\ UNCHANGED <<row, files, api, cleaner, used, purged>>

\* Mutant: the run begins on a row that still says done.
MarkNothing(e) ==
    /\ entry[e].at = "loaded"
    /\ IF Exists(JobOf(e)) THEN Close(e, "marked") ELSE Finish(e)
    /\ UNCHANGED <<row, files, api, cleaner, used, stranded, purged>>

MarkProcessing(e) ==
    /\ entry[e].at = "loaded"
    /\ Commit(JobOf(e), Processing(RowOf(e), Loaded(e)))
    /\ IF Exists(JobOf(e)) THEN Close(e, "marked") ELSE Finish(e)
    /\ UNCHANGED <<files, api, cleaner, used, stranded, purged>>

(* refresh, then the look for the input file.                              *)
Refresh(e) ==
    /\ entry[e].at = "marked"
    /\ IF Exists(JobOf(e))
         THEN entry' = [entry EXCEPT
                          ![e].at = IF "input" \in files[JobOf(e)]
                                      THEN "running" ELSE "failing",
                          ![e].loaded = RowOf(e)]
         ELSE Finish(e)
    /\ UNCHANGED <<row, files, api, cleaner, used, stranded, purged>>

(* The subprocess overwrites result.<ext> page by page in the directory of  *)
(* the job, which the page images bring back if it was removed.             *)
RunWrites(e) ==
    /\ entry[e].at = "running"
    /\ files' = [files EXCEPT
                   ![JobOf(e)] = (@ \ {"result"}) \cup {"partial"}]
    /\ GoTo(e, "wrote")
    /\ UNCHANGED <<row, api, cleaner, used, stranded, purged>>

(* Non-zero exit, timeout, a GPU that does not boot, and what follows the   *)
(* run: an unreadable result, a format error, a save_result that raises.    *)
RunFails(e) ==
    /\ entry[e].at \in {"running", "wrote"}
    /\ GoTo(e, "failing")
    /\ UNCHANGED <<row, files, api, cleaner, used, stranded, purged>>

SaveResult(e) ==
    /\ entry[e].at = "wrote"
    /\ files' = [files EXCEPT
                   ![JobOf(e)] = (@ \ {"partial"}) \cup {"result"}]
    /\ purged' = purged \ {JobOf(e)}
    /\ GoTo(e, "saved")
    /\ UNCHANGED <<row, api, cleaner, used, stranded>>

\* Mutant: an early return forgets to commit the failure.
ReturnSilently(e) ==
    /\ entry[e].at = "failing"
    /\ Finish(e)
    /\ UNCHANGED <<row, files, api, cleaner, used, stranded, purged>>

(* The early returns: the failure is committed, nothing follows.           *)
CommitFailure(e) ==
    /\ entry[e].at = "failing"
    /\ Commit(JobOf(e), Failed(RowOf(e), Loaded(e), "failure"))
    /\ Finish(e)
    /\ UNCHANGED <<files, api, cleaner, used, stranded, purged>>

(* done, or failed when every page failed; a row that was deleted ends the  *)
(* task with StaleDataError.                                                *)
CommitOutcome(e) ==
    /\ entry[e].at = "saved"
    /\ \/ Commit(JobOf(e), Done(RowOf(e), Loaded(e)))
       \/ Commit(JobOf(e), Failed(RowOf(e), Loaded(e), "failure"))
    /\ IF Exists(JobOf(e)) THEN Close(e, "sidecars") ELSE Finish(e)
    /\ UNCHANGED <<files, api, cleaner, used, stranded, purged>>

(* preview.html and entities.json; then the webhook, if the row is still    *)
(* there to say that the caller wants one.                                  *)
WriteSidecars(e) ==
    /\ entry[e].at = "sidecars"
    /\ \/ Exists(JobOf(e)) /\ GoTo(e, "webhook")
       \/ Finish(e)
    /\ UNCHANGED <<row, files, api, cleaner, used, stranded, purged>>

(* The POST was answered, refused or cancelled by job_timeout.             *)
WebhookReturns(e) ==
    /\ entry[e].at = "webhook"
    /\ Finish(e)
    /\ \A f \in Entries : entry[f].at \notin Blocking
    /\ UNCHANGED <<row, files, api, cleaner, used, stranded, purged>>

(* Every started task dies; ARQ runs its entry again.                      *)
WorkerCrash ==
    LET started == {e \in Entries : entry[e].at \in Active}
    IN /\ "workercrash" \in Operations
       /\ started # {}
       /\ entry' = [e \in Entries |->
                      IF e \in started
                        THEN [entry[e] EXCEPT !.at = "queued", !.loaded = NoRow]
                        ELSE entry[e]]
       /\ UNCHANGED <<row, files, api, cleaner, used, stranded, purged>>

-----------------------------------------------------------------------------
(* The cleanup pass.                                                       *)

CleanerRecords == [at : {"idle", "purging"}, todo : SUBSET Jobs,
                   doomed : SUBSET Jobs]
NoPass == [at |-> "idle", todo |-> {}, doomed |-> {}]

(* How old a finished job is, is left open: any set of them may be past the *)
(* TTL when a pass begins.                                                  *)
Finished == {j \in Jobs : row[j].status \in Terminal}

SelectExpired ==
    /\ "cleanup" \in Operations
    /\ cleaner = NoPass
    /\ \E expired \in (SUBSET Finished) \ {{}} :
          cleaner' = [at |-> "purging", todo |-> expired, doomed |-> {}]
    /\ UNCHANGED <<row, files, entry, api, used, stranded, purged>>

PurgeFiles(j) ==
    /\ j \in cleaner.todo
    /\ files' = [files EXCEPT ![j] = {}]
    /\ purged' = purged \cup {j}
    /\ cleaner' = [cleaner EXCEPT !.todo = @ \ {j}, !.doomed = @ \cup {j}]
    /\ UNCHANGED <<row, entry, api, used, stranded>>

(* rmtree raises: the job is skipped with what is left of its directory.   *)
PurgeFails(j) ==
    /\ j \in cleaner.todo
    /\ \E left \in SUBSET files[j] : files' = [files EXCEPT ![j] = left]
    /\ purged' = purged \cup {j}
    /\ cleaner' = [cleaner EXCEPT !.todo = @ \ {j}]
    /\ UNCHANGED <<row, entry, api, used, stranded>>

(* One commit deletes every row of the pass, whatever it says by now.      *)
CommitDeletes ==
    /\ cleaner.at = "purging"
    /\ cleaner.todo = {}
    /\ row' = [j \in Jobs |-> IF j \in cleaner.doomed THEN NoRow ELSE row[j]]
    /\ cleaner' = NoPass
    /\ UNCHANGED <<files, entry, api, used, stranded, purged>>

CleanerCrash ==
    /\ "cleanercrash" \in Operations
    /\ cleaner.at = "purging"
    /\ cleaner' = NoPass
    /\ UNCHANGED <<row, files, entry, api, used, stranded, purged>>

-----------------------------------------------------------------------------
Init ==
    /\ row = [j \in Jobs |-> NoRow]
    /\ files = [j \in Jobs |-> {}]
    /\ entry = [e \in Entries |-> FreeEntry]
    /\ api = Idle
    /\ cleaner = NoPass
    /\ used = {}
    /\ stranded = {}
    /\ purged = {}

(* What a handler that has begun does next.                                *)
ApiStep ==
    \/ SubmitSave \/ SubmitSaveFails \/ SubmitNoPool
    \/ SyncStart \/ SyncFails \/ SyncRuns \/ SyncSave \/ SyncSaveFails
    \/ SyncEnd \/ StopCommit \/ RestartNoPool \/ RestartGone
    \/ DeleteFiles \/ DeleteFilesFails \/ DeleteCommit
    \/ \E e \in Entries : SubmitAsync(e) \/ RestartCommit(e)

Request ==
    \E j \in Jobs : SubmitInsert(j) \/ StopRead(j) \/ RestartRead(j)
                      \/ DeleteRead(j)

WorkerStep(e) ==
    \/ Pick(e) \/ Exhausted(e) \/ MarkProcessing(e) \/ Refresh(e)
    \/ RunWrites(e) \/ RunFails(e) \/ SaveResult(e)
    \/ CommitFailure(e) \/ CommitOutcome(e)
    \/ WriteSidecars(e) \/ WebhookReturns(e)

EnqueueStep(e) == EnqueueArrives(e) \/ EnqueueFails(e)

CleanerStep ==
    \/ SelectExpired \/ CommitDeletes
    \/ \E j \in Jobs : PurgeFiles(j) \/ PurgeFails(j)

Crash == ApiCrash \/ WorkerCrash \/ CleanerCrash

Next ==
    \/ Request \/ ApiStep
    \/ \E e \in Entries : EnqueueStep(e) \/ WorkerStep(e)
    \/ CleanerStep
    \/ Crash

Spec == Init /\ [][Next]_vars

(* The loops of the API and of ARQ keep running their coroutines, every     *)
(* call they block on has a timeout, and a crashed container is restarted.  *)
Fairness ==
    /\ WF_vars(ApiStep)
    /\ \A e \in Entries : WF_vars(EnqueueStep(e)) /\ WF_vars(WorkerStep(e))

FairSpec == Spec /\ Fairness

-----------------------------------------------------------------------------
(* Every variable has its type, and a handler or a task that is under way   *)
(* is under way for a job.                                                  *)
TypeOK ==
    /\ row \in [Jobs -> Rows]
    /\ files \in [Jobs -> SUBSET Artefacts]
    /\ entry \in [Entries -> EntryRecords]
    /\ \A e \in Entries : entry[e].at # "free" => entry[e].job \in Jobs
    /\ api \in [at : Handlers, job : Jobs \cup {NoJob}, loaded : Rows]
    /\ api.at # "idle" => api.job \in Jobs
    /\ cleaner \in CleanerRecords
    /\ used \subseteq Jobs
    /\ stranded \subseteq Jobs
    /\ purged \subseteq Jobs

(* An entry that will bring its job to an end: it is on its way, or its     *)
(* task holds a copy of an open row, so that its last commit writes status. *)
Serves(e, j) ==
    /\ entry[e].job = j
    /\ \/ entry[e].at \in {"posting", "queued", "loaded", "marked"}
       \/ /\ entry[e].at \in {"running", "wrote", "saved", "failing"}
          /\ entry[e].loaded.status \in Open

Served(j) ==
    \/ \E e \in Entries : Serves(e, j)
    \/ api.at \in Submitting /\ api.job = j

(* A job that clients see pending or processing is being submitted, has an  *)
(* entry or a task that will finish it, or was stranded by one of the       *)
(* failures that strand: no pool, a failed enqueue, a crash of the API, a   *)
(* save_result that raises in a sync run, max_tries.  No interleaving of    *)
(* stop, restart, delete, re-delivery and cleanup loses a job otherwise.    *)
NoLostJob ==
    \A j \in Jobs : row[j].status \in Open => j \in stranded \/ Served(j)

(* GET .../result of a done job: the directory holds what save_result      *)
(* wrote, never the file of a run in progress, unless a delete or a cleanup *)
(* has removed it since (the endpoint then answers 410).                    *)
ResultServable ==
    \A j \in Jobs :
       row[j].status = "done" =>
          /\ "partial" \notin files[j]
          /\ "result" \in files[j] \/ j \in purged

(* A job whose row was deleted stays deleted: no stop, restart, task or     *)
(* sync run that loaded it earlier writes it back.                          *)
DeletedStaysDeleted ==
    [][\A j \in used : row[j] = NoRow => row'[j] = NoRow]_vars

(* A finished job is processed again only because it was enqueued again or  *)
(* because ARQ runs again an entry whose task died.                         *)
RerunOnlyOnRedelivery ==
    [][\A j \in Jobs :
          row[j].status \in Terminal /\ row'[j].status = "processing" =>
             \E e \in Entries :
                /\ entry[e].at = "loaded" /\ entry[e].job = j
                /\ \/ entry[e].try > 1
                   \/ row[j].error = "stopped"
                   \/ \E f \in Entries \ {e} : entry[f].job = j]_vars

(* Without restarts, a finished row carries its time stamp, and a failed    *)
(* one the reason, in whatever order stop, worker and cleanup commit.       *)
SettledRowsComplete ==
    \A j \in Jobs :
       /\ row[j].status \in Terminal => row[j].finished
       /\ row[j].status = "failed" => row[j].error # "none"

(* What a client sees of a job, and the specification of what it may see;   *)
(* that no job stays open for ever is part of it.                           *)
Phase(j) ==
    CASE ~Exists(j) -> IF j \in used THEN "removed" ELSE "absent"
      [] row[j].status \in Terminal -> "settled"
      [] OTHER -> IF j \in stranded THEN "stranded" ELSE "open"

Promise == INSTANCE JobPromise WITH phase <- [j \in Jobs |-> Phase(j)]

PromiseKept == Promise!Spec

(* app/schemas.py:95 of finished_at: "UTC timestamp the job reached done or *)
(* failed. null until then."                                                *)
FinishedOnlyWhenTerminal ==
    \A j \in Jobs : row[j].finished => row[j].status \in Terminal

(* app/schemas.py:124 of error_message: "Populated when status is failed". *)
ErrorOnlyWhenFailed ==
    \A j \in Jobs : row[j].status = "done" => row[j].error = "none"

(* app/services/cleanup.py:10: "never delete in-flight jobs".              *)
NeverDeleteInFlight ==
    [][CommitDeletes =>
          \A j \in cleaner.doomed : row[j].status \notin Open]_vars

=============================================================================
