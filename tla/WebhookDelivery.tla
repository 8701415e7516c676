-------------------------- MODULE WebhookDelivery --------------------------
(***************************************************************************)
(* The completion webhook of one job (app/services/webhook.py and the end  *)
(* of process_ocr_job in app/workers/ocr_worker.py), against the admin     *)
(* actions that change the row meanwhile (app/routers/admin.py).           *)
(*                                                                         *)
(* A delivery reads the row, awaits the POST with the row in its session,  *)
(* and commits what it read plus one attempt.  A run whose POST was        *)
(* refused defers deliver_with_retry, which makes one delivery and never   *)
(* defers another.  The run itself is shortened to its first and its last  *)
(* commit; JobLifecycle has the steps between them.                        *)
(***************************************************************************)
EXTENDS Naturals, Sequences, FiniteSets

CONSTANTS
    Entries,    \* numbers of queue entries; each enqueue_job takes the next
    MaxTries,   \* ARQ's max_tries
    MaxJobs,    \* WorkerSettings.max_jobs
    Operations  \* the admin actions and failures that a run considers

ASSUME OperationsAssumption ==
    Operations \subseteq {"restart", "stop", "delete", "crash", "timeout",
                          "redisdown"}
ASSUME BoundsAssumption ==
    Entries \subseteq Nat /\ MaxTries \in Nat \ {0} /\ MaxJobs \in Nat \ {0}

VARIABLES
    job,        \* the row: status, webhook_attempts, webhook_delivered
    entry,      \* queue entries and the tasks that serve them
    admin,      \* the copy of the row that a job_restart in progress holds
    sent,       \* POSTs made: in all, and (none, one, more) since the restart
    lost,       \* why a delivery or a retry was dropped since the restart:
                \* no, a failure, or the counter at its limit
    disturbed   \* the job was restarted, or ARQ ran an entry again

vars == <<job, entry, admin, sent, lost, disturbed>>

RetryDelays == <<30, 120, 600>>
MaxAttempts == 3

Open == {"pending", "processing"}
Terminal == {"done", "failed"}
NoJob == [status |-> "absent", attempts |-> 0, delivered |-> FALSE]
Exists == job.status # "absent"

(* An UPDATE writes the columns that differ from what was loaded.          *)
Column(cur, loaded, new) == IF new # loaded THEN new ELSE cur

-----------------------------------------------------------------------------
Copy(e) == [attempts |-> entry[e].attempts, delivered |-> entry[e].delivered]

FreeEntry == [kind |-> "none", at |-> "free", try |-> 0, delay |-> 0,
              attempts |-> 0, delivered |-> FALSE]
Queued(kind, delay) == [FreeEntry EXCEPT !.kind = kind, !.at = "queued",
                                         !.delay = delay]
GoneEntry == [FreeEntry EXCEPT !.at = "gone"]
NextFree(e) ==
    entry[e].at = "free" /\ \A f \in Entries : f < e => entry[f].at # "free"
\* History: a restart, or an entry that ARQ ran before, accounts for more POSTs.
Again(e) == disturbed' = (disturbed \/ entry[e].try > 0)
GoTo(e, s) == entry' = [entry EXCEPT ![e].at = s]
Finish(e) == entry' = [entry EXCEPT ![e] = GoneEntry]

\* Between two awaits a task keeps the worker's loop to itself.
Blocking == {"working", "announce", "deciding"}
Started == Blocking \cup {"posting", "returning"}
LoopFree == \A e \in Entries : entry[e].at \notin Blocking
CanStart(e) ==
    /\ entry[e].at = "queued"
    /\ LoopFree
    /\ Cardinality({f \in Entries : entry[f].at \in Started}) < MaxJobs

(* process_ocr_job up to its first commit.                                 *)
StartRun(e) ==
    /\ entry[e].kind = "run"
    /\ CanStart(e)
    /\ entry[e].try < MaxTries
    /\ IF Exists
         THEN /\ entry' = [entry EXCEPT ![e].at = "working", ![e].try = @ + 1]
              /\ job' = [job EXCEPT !.status = "processing"]
         ELSE Finish(e) /\ UNCHANGED job
    /\ Again(e)
    /\ UNCHANGED <<admin, sent, lost>>

(* The early returns commit the failure and notify nobody.                 *)
RunFailsEarly(e) ==
    /\ entry[e].at = "working"
    /\ job' = IF Exists THEN [job EXCEPT !.status = "failed"] ELSE job
    /\ Finish(e)
    /\ UNCHANGED <<admin, sent, lost, disturbed>>

(* done, or failed because every page failed; a row that is gone ends the  *)
(* task.                                                                    *)
RunEnds(e) ==
    /\ entry[e].at = "working"
    /\ IF Exists
         THEN /\ \E s \in Terminal : job' = [job EXCEPT !.status = s]
              /\ GoTo(e, "announce")
         ELSE Finish(e) /\ UNCHANGED job
    /\ UNCHANGED <<admin, sent, lost, disturbed>>

OnceMore(n) == IF n < 2 THEN n + 1 ELSE 2

(* deliver_webhook: the row as it is now becomes the payload.              *)
Post(e, try) ==
    /\ entry' = [entry EXCEPT ![e] = [@ EXCEPT !.at = "posting", !.try = try,
                                               !.attempts = job.attempts,
                                               !.delivered = job.delivered]]
    /\ sent' = [all |-> sent.all + 1, fresh |-> OnceMore(sent.fresh)]
    /\ UNCHANGED <<job, admin, lost>>

Announce(e) ==
    /\ entry[e].at = "announce"
    /\ UNCHANGED disturbed
    /\ IF Exists THEN Post(e, entry[e].try)
         ELSE Finish(e) /\ UNCHANGED <<job, admin, sent, lost>>

StartRetry(e) ==
    /\ entry[e].kind = "retry"
    /\ CanStart(e)
    /\ entry[e].try < MaxTries
    /\ Again(e)
    /\ IF Exists THEN Post(e, entry[e].try + 1)
         ELSE Finish(e) /\ UNCHANGED <<job, admin, sent, lost>>

Exhausted(e) ==
    /\ CanStart(e)
    /\ entry[e].try = MaxTries
    /\ Finish(e)
    /\ lost' = "failure"
    /\ UNCHANGED <<job, admin, sent, disturbed>>

\* Mutant: the counter moves before the answer is known, and again after it.
CountTwice(cur, copy, ok) ==
    [cur EXCEPT !.attempts = Column(@, copy.attempts, copy.attempts + 2),
                !.delivered = Column(@, copy.delivered, copy.delivered \/ ok)]

Counted(cur, copy, ok) ==
    [cur EXCEPT !.attempts = Column(@, copy.attempts, copy.attempts + 1),
                !.delivered = Column(@, copy.delivered, copy.delivered \/ ok)]

\* Mutant: the retry is deferred whatever the answer was.
AnsweredDefersAlways(e, ok) ==
    /\ entry[e].at = "posting"
    /\ LoopFree
    /\ job' = IF Exists THEN Counted(job, Copy(e), ok) ELSE job
    /\ \E f \in Entries :
          /\ NextFree(f)
          /\ entry' = [entry EXCEPT ![e] = GoneEntry, ![f] = Queued("retry", 30)]
    /\ UNCHANGED <<admin, sent, lost, disturbed>>

\* Mutant: a delivery whose row is deleted meanwhile never returns.
AnsweredNeedsRow(e, ok) ==
    /\ entry[e].at = "posting"
    /\ LoopFree
    /\ Exists
    /\ job' = Counted(job, Copy(e), ok)
    /\ IF ~ok /\ entry[e].kind = "run" THEN GoTo(e, "deciding") ELSE Finish(e)
    /\ UNCHANGED <<admin, sent, lost, disturbed>>

(* The answer, a refusal or the 15 s timeout.  A row that was deleted while *)
(* the POST was under way ends the task with StaleDataError.                *)
Answered(e, ok) ==
    /\ entry[e].at = "posting"
    /\ LoopFree
    /\ job' = IF Exists THEN Counted(job, Copy(e), ok) ELSE job
    /\ IF Exists /\ ~ok /\ entry[e].kind = "run"
         THEN GoTo(e, "deciding") ELSE Finish(e)
    /\ UNCHANGED <<admin, sent, lost, disturbed>>

(* The run blocked the loop for longer than job_timeout: ARQ cancels the    *)
(* task at its first await, which is this one, and does not run it again.   *)
Cancelled(e) ==
    /\ "timeout" \in Operations
    /\ entry[e].at = "posting"
    /\ entry[e].kind = "run"
    /\ LoopFree
    /\ Finish(e)
    /\ lost' = "failure"
    /\ UNCHANGED <<job, admin, sent, disturbed>>

\* Mutant: the counter that was already raised is raised for the index, too.
DelayAfterNext(attempts) ==
    RetryDelays[IF attempts + 1 < Len(RetryDelays) THEN attempts + 2
                                                   ELSE Len(RetryDelays)]

\* Mutant: the index is deferred by, not the delay it stands for.
DelayIndex(attempts) == IF attempts < Len(RetryDelays) THEN attempts + 1
                                                       ELSE Len(RetryDelays)

(* RETRY_DELAYS_S[min(attempts, len - 1)], counted from zero.              *)
Delay(attempts) ==
    RetryDelays[IF attempts < Len(RetryDelays) THEN attempts + 1
                                               ELSE Len(RetryDelays)]

RetryWanted == Exists /\ job.attempts < MaxAttempts /\ ~job.delivered

(* _schedule_webhook_retry.                                                *)
ScheduleRetry(e, f) ==
    /\ entry[e].at = "deciding"
    /\ RetryWanted
    /\ NextFree(f)
    /\ entry' = [entry EXCEPT ![e].at = "returning",
                              ![f] = Queued("retry", Delay(job.attempts))]
    /\ UNCHANGED <<job, admin, sent, lost, disturbed>>

(* Until ARQ has noted the return, the entry is still in the queue.        *)
Returns(e) ==
    /\ entry[e].at = "returning"
    /\ Finish(e)
    /\ UNCHANGED <<job, admin, sent, lost, disturbed>>

NoRetry(e) ==
    /\ entry[e].at = "deciding"
    /\ ~RetryWanted
    /\ Finish(e)
    /\ lost' = IF lost = "no" /\ Exists /\ job.attempts >= MaxAttempts
                 THEN "limit" ELSE lost
    /\ UNCHANGED <<job, admin, sent, disturbed>>

ScheduleFails(e) ==
    /\ "redisdown" \in Operations
    /\ entry[e].at = "deciding"
    /\ RetryWanted
    /\ Finish(e)
    /\ lost' = "failure"
    /\ UNCHANGED <<job, admin, sent, disturbed>>

(* Every started task dies with the worker; ARQ runs its entry again.      *)
WorkerCrash ==
    /\ "crash" \in Operations
    /\ \E e \in Entries : entry[e].at \in Started
    /\ entry' = [e \in Entries |->
                   IF entry[e].at \in Started
                     THEN [Queued(entry[e].kind, entry[e].delay)
                             EXCEPT !.try = entry[e].try]
                     ELSE entry[e]]
    /\ UNCHANGED <<job, admin, sent, lost, disturbed>>

-----------------------------------------------------------------------------
(* The admin pages.                                                        *)

RestartRead ==
    /\ "restart" \in Operations
    /\ admin = NoJob
    /\ Exists
    /\ admin' = job
    /\ UNCHANGED <<job, entry, sent, lost, disturbed>>

Reset(cur, copy) ==
    [status |-> Column(cur.status, copy.status, "pending"),
     attempts |-> Column(cur.attempts, copy.attempts, 0),
     delivered |-> Column(cur.delivered, copy.delivered, FALSE)]

(* The API has one event loop: a delete cannot come between the two steps,  *)
(* and the TTL cleanup that could is left to JobLifecycle.                  *)
RestartCommit(e) ==
    /\ admin # NoJob
    /\ job' = Reset(job, admin)
    /\ NextFree(e)
    /\ entry' = [entry EXCEPT ![e] = Queued("run", 0)]
    /\ admin' = NoJob
    /\ sent' = [sent EXCEPT !.fresh = 0]
    /\ disturbed' = TRUE
    /\ lost' = "no"

Stop ==
    /\ "stop" \in Operations
    /\ admin = NoJob
    /\ job.status \in Open
    /\ job' = [job EXCEPT !.status = "failed"]
    /\ UNCHANGED <<entry, admin, sent, lost, disturbed>>

Delete ==
    /\ "delete" \in Operations
    /\ admin = NoJob
    /\ Exists
    /\ job' = NoJob
    /\ UNCHANGED <<entry, admin, sent, lost, disturbed>>

-----------------------------------------------------------------------------
(* An async submission with a webhook_url, just enqueued.                  *)
Init ==
    /\ job = [status |-> "pending", attempts |-> 0, delivered |-> FALSE]
    /\ entry = [e \in Entries |-> IF \A f \in Entries : e <= f
                                   THEN Queued("run", 0) ELSE FreeEntry]
    /\ admin = NoJob
    /\ sent = [all |-> 0, fresh |-> 0]
    /\ lost = "no"
    /\ disturbed = FALSE

WorkerStep(e) ==
    \/ StartRun(e) \/ RunFailsEarly(e) \/ RunEnds(e) \/ Announce(e)
    \/ StartRetry(e) \/ Exhausted(e) \/ Cancelled(e)
    \/ \E ok \in BOOLEAN : Answered(e, ok)
    \/ \E f \in Entries : ScheduleRetry(e, f)
    \/ Returns(e) \/ NoRetry(e) \/ ScheduleFails(e)

AdminStep == RestartRead \/ Stop \/ Delete \/ \E e \in Entries : RestartCommit(e)

Next == AdminStep \/ WorkerCrash \/ \E e \in Entries : WorkerStep(e)

Spec == Init /\ [][Next]_vars

(* ARQ polls the queue, a deferred entry becomes due, and a POST has a      *)
(* timeout of 15 s.                                                         *)
FairSpec == Spec /\ \A e \in Entries : WF_vars(WorkerStep(e))

-----------------------------------------------------------------------------
Jobs == [status : Open \cup Terminal \cup {"absent"}, attempts : Nat,
         delivered : BOOLEAN]

(* Every variable has its type; a retry carries one of the delays.         *)
TypeOK ==
    /\ job \in Jobs
    /\ admin \in Jobs
    /\ entry \in [Entries ->
          [kind : {"none", "run", "retry"},
           at : {"free", "queued", "gone"} \cup Started,
           try : 0..MaxTries,
           delay : {0} \cup {RetryDelays[i] : i \in 1..Len(RetryDelays)},
           attempts : Nat, delivered : BOOLEAN]]
    /\ sent \in [all : Nat, fresh : 0..2]
    /\ lost \in {"no", "failure", "limit"} /\ disturbed \in BOOLEAN

(* webhook_attempts never counts a POST that was not made, whatever copies  *)
(* of the row the deliveries, the crashes and the restarts write back.      *)
AttemptsWereMade ==
    /\ job.attempts <= sent.all
    /\ \A e \in Entries : entry[e].at = "posting" =>
          entry[e].attempts < sent.all

Alive(e) == entry[e].at \notin {"free", "gone"}
Quiet == \A e \in Entries : ~Alive(e)

(* What a refusal is worth: when nothing is left to run, a done job was     *)
(* posted at least twice since it was last restarted, unless it is marked   *)
(* delivered or a delivery was dropped for a reason with a name: cancelled  *)
(* by job_timeout, Redis away, max_tries, or the counter at its limit.      *)
(* The limit is met only where deliveries of other runs moved the counter;  *)
(* an undisturbed job is posted no third time, and its one retry waits for  *)
(* the second of the listed delays, as the attempt is counted first.        *)
SecondChance ==
    /\ Quiet /\ job.status = "done" =>
          sent.fresh >= 2 \/ job.delivered \/ lost # "no"
    /\ ~disturbed =>
          /\ lost # "limit" /\ sent.all <= 2
          /\ \A e \in Entries :
                entry[e].kind = "retry" => entry[e].delay = RetryDelays[2]

(* A delivery that succeeded is the last: a receiver that accepted is not   *)
(* posted to again unless the job was restarted or ARQ ran an entry again.  *)
NoPostAfterDelivery ==
    [][job.delivered /\ ~disturbed' => sent'.all = sent.all]_vars

(* Every delivery comes to an end and gives its slot of max_jobs back, with *)
(* the row deleted under it, refused, cancelled or run again after a crash. *)
ChainEnds == <>[]Quiet

(* app/routers/ocr.py:97: "the worker POSTs the final job payload to that   *)
(* URL on completion".                                                      *)
PostsAreFinal == [][sent'.all > sent.all => job.status \in Terminal]_vars

(* app/schemas.py:177: webhook_delivered is "whether the completion webhook *)
(* has been successfully delivered", so not before the job completes.       *)
DeliveredAfterCompletion == job.delivered => job.status \in Terminal

(* app/schemas.py:181: webhook_attempts is the "number of webhook delivery  *)
(* attempts made so far": only a restart, which clears it, or a delete      *)
(* makes it smaller.                                                        *)
CounterNeverRunsBack ==
    [][job'.attempts < job.attempts => admin # NoJob \/ job' = NoJob]_vars

(* OCR-API-Projekt-Anforderungen.md:208 asks for three attempts after 30 s, *)
(* 2 min and 10 min, app/services/webhook.py:4 lets the caller retry "while  *)
(* webhook_attempts < MAX_ATTEMPTS", and app/workers/ocr_worker.py:10 while  *)
(* "we haven't exceeded the retry cap": a receiver that refuses each time    *)
(* is posted to three times.                                                *)
ThreeAttempts ==
    Quiet /\ job.status = "done" /\ ~disturbed =>
       sent.all >= MaxAttempts \/ job.delivered \/ lost # "no"

=============================================================================
