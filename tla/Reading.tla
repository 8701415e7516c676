------------------------------ MODULE Reading ------------------------------
(***************************************************************************)
(* What a client reads while jobs move: the pages of list_jobs and the     *)
(* downloads of get_job_result and of a side file (app/routers/jobs.py),   *)
(* against the worker (app/workers/ocr_worker.py), the operator            *)
(* (app/routers/admin.py) and the TTL cleanup (app/services/cleanup.py).   *)
(*                                                                         *)
(* The handlers share one event loop and run their statements without an   *)
(* await, but each statement sees what worker and cleanup, processes of    *)
(* their own, have committed or written by then; and a FileResponse looks  *)
(* at the file only after the handler has returned.                        *)
(***************************************************************************)
EXTENDS Naturals, FiniteSets

CONSTANTS
    Jobs,       \* the jobs, numbered in the order of created_at
    Mine,       \* those of the client's own customer
    Limit,      \* the page size the client asks for
    Restarts,   \* the jobs an operator restarts in a run
    Expired,    \* the jobs past their TTL once they have finished
    MaxRuns,    \* bound: runs of one job
    NoJob       \* the worker has no job, the client downloads nothing

ASSUME JobsAssumption == Jobs \subseteq Nat \ {0} /\ IsFiniteSet(Jobs)
ASSUME MineAssumption == Mine \subseteq Jobs
ASSUME LimitAssumption == Limit \in Nat \ {0}
ASSUME RunsAssumption == MaxRuns \in Nat \ {0}
ASSUME NoJobAssumption == NoJob \notin Jobs

VARIABLES
    row,        \* the job table: status, runs begun, queue entries left
    files,      \* result and side file in the directory of each job
    worker,     \* the run of the worker, and how far it is
    purging,    \* jobs whose directory the cleanup pass has removed
    walk,       \* the client that lists its jobs page by page
    fetch       \* the client that downloads a file

vars == <<row, files, worker, purging, walk, fetch>>

Statuses == {"pending", "processing", "done", "failed"}
NoRow == [status |-> "absent", run |-> 0, entries |-> 0]
Deleted == [NoRow EXCEPT !.status = "deleted"]
Exists(j) == row[j].status \in Statuses
SetStatus(j, s) ==
    row' = IF Exists(j) THEN [row EXCEPT ![j].status = s] ELSE row

(* A file as a reader finds it: missing, opened for writing and incomplete, *)
(* or the whole file of the run with that number.                           *)
Missing == 0
Torn == MaxRuns + 1
Kinds == {"result", "side"}
NoFiles == [k \in Kinds |-> Missing]
Write(j, k, c) == files' = [files EXCEPT ![j][k] = c]

(* No handler is between two of its statements.  The client does one thing  *)
(* at a time.                                                               *)
LoopFree == walk.at # "counted" /\ fetch.at # "read"

Fetching == fetch.at \in {"read", "found", "sending"}

(* The rows list_jobs selects.                                              *)
Filters == {"all", "done"}
Matching(filter) ==
    {j \in Mine : /\ Exists(j)
                  /\ filter = "all" \/ row[j].status = filter}

(* A job of the list being walked leaves it with this step.                 *)
Leaves(filter) == \E j \in Matching(filter) : j \notin Matching(filter)'
WatchWalk ==
    \E filter \in {walk.filter} :
       walk' = [walk EXCEPT
                  !.left = walk.at # "idle" /\ (@ \/ Leaves(filter))]

-----------------------------------------------------------------------------
(* The worker: one run at a time, whatever the row says when it begins.     *)

At(s) == worker' = [worker EXCEPT !.at = s]

\* Mutant: the worker does not let go of the job it has finished.
RestHolding == At("idle")

Rest == worker' = [job |-> NoJob, run |-> 0, at |-> "idle"]
Job == worker.job

Begin(j) ==
    /\ worker.at = "idle"
    /\ row[j].entries > 0
    /\ Exists(j)
    /\ row' = [row EXCEPT ![j].status = "processing", ![j].run = @ + 1,
                          ![j].entries = @ - 1]
    /\ worker' = [job |-> j, run |-> row[j].run + 1, at |-> "running"]
    /\ fetch' = [fetch EXCEPT !.rerun = @ \/ (Fetching /\ fetch.job = j)]
    /\ UNCHANGED <<files, purging>>
    /\ WatchWalk

(* The subprocess begins result.<ext> and fills it page by page.            *)
WritePages ==
    /\ worker.at = "running"
    /\ Write(Job, "result", Torn)
    /\ At("wrote")
    /\ UNCHANGED <<row, purging, walk, fetch>>

SaveResult ==
    /\ worker.at = "wrote"
    /\ Write(Job, "result", worker.run)
    /\ At("saved")
    /\ UNCHANGED <<row, purging, walk, fetch>>

CommitOutcome ==
    /\ worker.at = "saved"
    /\ \E outcome \in {"done", "failed"} : SetStatus(Job, outcome)
    /\ IF Exists(Job) THEN At("committed") ELSE Rest
    /\ UNCHANGED <<files, purging, fetch>>
    /\ WatchWalk

CommitFailure ==
    /\ worker.at \in {"running", "wrote"}
    /\ SetStatus(Job, "failed")
    /\ Rest
    /\ UNCHANGED <<files, purging, fetch>>
    /\ WatchWalk

(* save_preview, save_entities: write_bytes empties the file and fills it.  *)
OpenSideFile ==
    /\ worker.at = "committed"
    /\ Write(Job, "side", Torn)
    /\ At("writing")
    /\ UNCHANGED <<row, purging, walk, fetch>>

(* A file that was removed meanwhile does not come back.                    *)
FillSideFile ==
    /\ worker.at = "writing"
    /\ Write(Job, "side", IF files[Job].side = Missing THEN Missing
                                                       ELSE worker.run)
    /\ Rest
    /\ UNCHANGED <<row, purging, walk, fetch>>

Works == \/ \E j \in Jobs : Begin(j)
         \/ WritePages \/ SaveResult \/ CommitOutcome \/ CommitFailure
         \/ OpenSideFile \/ FillSideFile

-----------------------------------------------------------------------------
(* Submissions, the operator, the cleanup.                                  *)

Submit(j) ==
    /\ LoopFree
    /\ \A i \in Jobs : i >= j => row[i].status = "absent"
    /\ row' = [row EXCEPT ![j].status = "pending", ![j].entries = 1]
    /\ UNCHANGED <<files, worker, purging, walk, fetch>>

Stop(j) ==
    /\ LoopFree
    /\ row[j].status \in {"pending", "processing"}
    /\ SetStatus(j, "failed")
    /\ UNCHANGED <<files, worker, purging, fetch>>
    /\ WatchWalk

(* job_restart wants the input file, which a purge has removed.             *)
Restart(j) ==
    /\ LoopFree
    /\ Exists(j) /\ j \in Restarts
    /\ j \notin purging
    /\ row[j].run + row[j].entries < MaxRuns
    /\ row' = [row EXCEPT ![j].status = "pending", ![j].entries = @ + 1]
    /\ UNCHANGED <<files, worker, purging, fetch>>
    /\ WatchWalk

Delete(j) ==
    /\ LoopFree
    /\ Exists(j)
    /\ row' = [row EXCEPT ![j] = Deleted]
    /\ files' = [files EXCEPT ![j] = NoFiles]
    /\ UNCHANGED <<worker, purging, fetch>>
    /\ WatchWalk

PurgeFiles(j) ==
    /\ j \in Expired
    /\ row[j].status \in {"done", "failed"}
    /\ files' = [files EXCEPT ![j] = NoFiles]
    /\ purging' = purging \cup {j}
    /\ UNCHANGED <<row, worker, walk, fetch>>

PurgeRow(j) ==
    /\ j \in purging
    /\ row' = [row EXCEPT ![j] = Deleted]
    /\ purging' = purging \ {j}
    /\ UNCHANGED <<files, worker, fetch>>
    /\ WatchWalk

Manages == \E j \in Jobs : \/ Submit(j) \/ Stop(j) \/ Restart(j) \/ Delete(j)
                           \/ PurgeFiles(j) \/ PurgeRow(j)

-----------------------------------------------------------------------------
(* list_jobs: the count, then the page, newest first.                       *)

\* Mutant: the list is ordered by the latest run.
LatestRun(i, j) == row[i].run > row[j].run \/ (row[i].run = row[j].run /\ i > j)

Newer(i, j) == i > j

Page(filter, offset) ==
    LET list == Matching(filter)
        rank(j) == Cardinality({i \in list : Newer(i, j)})
    IN {j \in list : offset <= rank(j) /\ rank(j) < offset + Limit}

NoWalk == [at |-> "idle", filter |-> "all", offset |-> 0, total |-> 0,
           unseen |-> {}, left |-> FALSE, short |-> FALSE, enough |-> FALSE]

StartWalk(filter) ==
    /\ walk = NoWalk /\ fetch.at = "idle"
    /\ walk' = [NoWalk EXCEPT !.at = "listing", !.filter = filter,
                              !.unseen = Matching(filter)]
    /\ UNCHANGED <<row, files, worker, purging, fetch>>

CountJobs ==
    /\ walk.at = "listing"
    /\ ~walk.short
    /\ walk' = [walk EXCEPT !.at = "counted",
                            !.total = Cardinality(Matching(walk.filter))]
    /\ UNCHANGED <<row, files, worker, purging, fetch>>

ReadPage ==
    LET page == Page(walk.filter, walk.offset)
    IN /\ walk.at = "counted"
       /\ walk' = [walk EXCEPT !.at = "listing", !.offset = @ + Limit,
                               !.unseen = @ \ page, !.total = 0,
                               !.short = Cardinality(page) < Limit,
                               !.enough = walk.offset + Limit >= walk.total]
       /\ UNCHANGED <<row, files, worker, purging, fetch>>

EndWalk ==
    /\ walk.short
    /\ walk' = NoWalk
    /\ UNCHANGED <<row, files, worker, purging, fetch>>

-----------------------------------------------------------------------------
(* Downloads.  The handler reads the row and looks for the file; the        *)
(* response takes the size of the file and then sends what it finds.        *)

NoFetch == [at |-> "idle", job |-> NoJob, kind |-> "result", run |-> 0,
            size |-> Missing, answer |-> "none", body |-> Missing,
            rerun |-> FALSE]

FetchEnds(answer) ==
    fetch' = [NoFetch EXCEPT !.at = "ended", !.answer = answer]

\* Mutant: a job that is processed again is served as well.
AskWhileProcessing(j, k) ==
    /\ fetch = NoFetch /\ walk = NoWalk
    /\ IF ~Exists(j) \/ j \notin Mine THEN FetchEnds("404")
       ELSE IF row[j].status \in {"pending", "failed"} THEN FetchEnds("409")
       ELSE fetch' = [NoFetch EXCEPT !.at = "read", !.job = j, !.kind = k,
                                     !.run = row[j].run]
    /\ UNCHANGED <<row, files, worker, purging, walk>>

Ask(j, k) ==
    /\ fetch = NoFetch /\ walk = NoWalk
    /\ IF ~Exists(j) \/ j \notin Mine THEN FetchEnds("404")
       ELSE IF row[j].status # "done" THEN FetchEnds("409")
       ELSE fetch' = [NoFetch EXCEPT !.at = "read", !.job = j, !.kind = k,
                                     !.run = row[j].run]
    /\ UNCHANGED <<row, files, worker, purging, walk>>

File == files[fetch.job][fetch.kind]

FindFile ==
    /\ fetch.at = "read"
    /\ IF File = Missing
         THEN FetchEnds(IF fetch.kind = "result" THEN "410" ELSE "404")
         ELSE fetch' = [fetch EXCEPT !.at = "found"]
    /\ UNCHANGED <<row, files, worker, purging, walk>>

(* A file that vanished after the handler's look is an error of the server. *)
TakeSize ==
    /\ fetch.at = "found"
    /\ IF File = Missing THEN FetchEnds("500")
       ELSE fetch' = [fetch EXCEPT !.at = "sending", !.size = File]
    /\ UNCHANGED <<row, files, worker, purging, walk>>

(* Another file than the one that was measured breaks the response off.     *)
SendBody ==
    /\ fetch.at = "sending"
    /\ IF File # fetch.size THEN FetchEnds("broken")
       ELSE fetch' = [fetch EXCEPT !.at = "ended", !.size = Missing,
                                   !.answer = "200", !.body = File]
    /\ UNCHANGED <<row, files, worker, purging, walk>>

EndFetch ==
    /\ fetch.at = "ended"
    /\ fetch' = NoFetch
    /\ UNCHANGED <<row, files, worker, purging, walk>>

Lists == (\E filter \in Filters : StartWalk(filter))
            \/ CountJobs \/ ReadPage \/ EndWalk
Fetches == (\E j \in Jobs, k \in Kinds : Ask(j, k))
            \/ FindFile \/ TakeSize \/ SendBody \/ EndFetch

Init ==
    /\ row = [j \in Jobs |-> NoRow]
    /\ files = [j \in Jobs |-> NoFiles]
    /\ worker = [job |-> NoJob, run |-> 0, at |-> "idle"]
    /\ purging = {}
    /\ walk = NoWalk
    /\ fetch = NoFetch

Next == Works \/ Manages \/ Lists \/ Fetches

Spec == Init /\ [][Next]_vars

-----------------------------------------------------------------------------
(* Every variable has its type.                                             *)
TypeOK ==
    /\ row \in [Jobs -> [status : Statuses \cup {"absent", "deleted"},
                        run : 0..MaxRuns, entries : 0..MaxRuns]]
    /\ files \in [Jobs -> [Kinds -> 0..Torn]]
    /\ worker \in [job : Jobs \cup {NoJob}, run : 0..MaxRuns,
                   at : {"idle", "running", "wrote", "saved", "committed",
                         "writing"}]
    /\ worker.at = "idle" <=> worker.job = NoJob
    /\ purging \subseteq Jobs
    /\ walk \in [at : {"idle", "listing", "counted"}, filter : Filters,
                 offset : Nat, total : Nat, unseen : SUBSET Jobs,
                 left : BOOLEAN, short : BOOLEAN, enough : BOOLEAN]
    /\ fetch \in [at : {"idle", "read", "found", "sending", "ended"},
                  job : Jobs \cup {NoJob}, kind : Kinds, run : 0..MaxRuns, size : 0..Torn,
                  answer : {"none", "200", "404", "409", "410", "500", "broken"},
                  body : 0..Torn, rerun : BOOLEAN]
    /\ Fetching => fetch.job \in Jobs

(* Paging through list_jobs until a page is short misses none of the jobs   *)
(* that were in the list when it began, provided none of them has left the  *)
(* list meanwhile: new jobs may come in before and between them.            *)
WalkMissesNothing ==
    walk.short /\ ~walk.left => walk.unseen = {}

(* The same for a client that stops when it has asked for the total that    *)
(* the last page announced.                                                 *)
TotalIsEnough ==
    walk.enough /\ ~walk.left => walk.unseen = {}

(* app/routers/jobs.py:197: "410 Gone if the result file has been evicted by *)
(* the retention policy": when it is evicted behind the handler's look, the  *)
(* answer is an error of the server.                                        *)
GoneIsSaid == fetch.answer # "500"

(* A result that is sent with 200 is the whole result of the run that the   *)
(* row spoke of, unless a later run of the job began meanwhile: whatever    *)
(* else stops, restarts, deletes or purges the job.                         *)
DownloadIsTheResult ==
    fetch.answer = "200" /\ fetch.kind = "result" /\ ~fetch.rerun =>
       fetch.body = fetch.run

(* The same for a side file, which is written after the job is done.        *)
SideFileIsWhole ==
    fetch.answer = "200" /\ fetch.kind = "side" /\ ~fetch.rerun =>
       fetch.body = fetch.run

=============================================================================
