------------------------------- MODULE Intake -------------------------------
(***************************************************************************)
(* How documents enter: ContentLengthLimitMiddleware (app/middleware.py),  *)
(* require_api_key and enforce_rate_limit (app/auth.py), submit_ocr_batch  *)
(* (app/routers/ocr.py), and the operator who creates and revokes keys and *)
(* deletes jobs meanwhile (app/routers/admin.py).                          *)
(*                                                                         *)
(* All of it runs on one event loop.  A batch lets the loop go while it    *)
(* reads a file and while it awaits the enqueue of a job; what lies        *)
(* between two of these awaits is one step.  Key lookup, the commit of     *)
(* last_used_at and the rate limiter have no await between them.           *)
(***************************************************************************)
EXTENDS RateLimiter, FiniteSets

CONSTANTS
    Requests,   \* the batches a run considers
    Shapes,     \* what a client may upload: sequences of files
    MaxFiles,   \* files per batch
    MaxBytes    \* settings.max_upload_bytes

ASSUME MaxFilesAssumption == MaxFiles \in Nat \ {0}
ASSUME MaxBytesAssumption == MaxBytes \in Nat
ASSUME ShapesAssumption ==
    Shapes \subseteq Seq([allowed : BOOLEAN, size : Nat])

VARIABLES
    keys,       \* the apikey table: is_active
    pool,       \* lifespan found Redis, app.state.arq_pool is not None
    batch,      \* the requests and what they were answered
    row,        \* the job rows, named by batch and position in it
    queued,     \* the jobs that were put on the queue
    stranded    \* pending jobs a named failure kept from the queue

intakeVars == <<vars, keys, pool, batch, row, queued, stranded>>
limiter == vars

JobIds == Requests \X (1..MaxFiles)
Refusals == {"400", "401", "413", "415", "429"}
Answers == Refusals \cup {"none", "202", "500", "503"}

Idle == [at |-> "idle", files |-> <<>>, todo |-> {}, listed |-> {},
         answer |-> "none"]

(* A client whose request was refused may send another in its place.       *)
Free(r) == batch[r].at = "idle" \/ batch[r].answer \in Refusals

Answered(r, code) ==
    batch' = [batch EXCEPT ![r] = [Idle EXCEPT !.at = "ended", !.answer = code]]

First(S) == CHOOSE i \in S : \A j \in S : i <= j

-----------------------------------------------------------------------------
(* Before the route: the declared length, the key, the limit.              *)

TotalSize(files) ==
    LET sum[i \in 0..Len(files)] ==
          IF i = 0 THEN 0 ELSE sum[i - 1] + files[i].size
    IN sum[Len(files)]

(* A header that declares too much is refused unread.  A chunked request    *)
(* has none, and a malformed one is ignored: Admit takes any shape.         *)
DeclaredTooLarge(r, files) ==
    /\ Free(r)
    /\ TotalSize(files) > MaxBytes
    /\ Answered(r, "413")
    /\ UNCHANGED <<limiter, keys, pool, row, queued, stranded>>

Unauthorized(r, k) ==
    /\ Free(r)
    /\ keys[k] # "active"
    /\ Answered(r, "401")
    /\ UNCHANGED <<limiter, keys, pool, row, queued, stranded>>

OverLimit(r, k) ==
    /\ Free(r)
    /\ keys[k] = "active"
    /\ Refuse(k)
    /\ Answered(r, "429")
    /\ UNCHANGED <<keys, pool, row, queued, stranded>>

Admit(r, k, files) ==
    /\ Free(r)
    /\ keys[k] = "active"
    /\ Grant(k)
    /\ batch' = [batch EXCEPT
                   ![r] = [Idle EXCEPT !.at = "reading", !.files = files]]
    /\ UNCHANGED <<keys, pool, row, queued, stranded>>

-----------------------------------------------------------------------------
(* submit_ocr_batch.                                                        *)

(* The number of files, then the first file that is not accepted.           *)
Refusal(files) ==
    LET bad == {i \in DOMAIN files :
                  ~files[i].allowed \/ files[i].size > MaxBytes}
    IN IF files = <<>> \/ Len(files) > MaxFiles THEN "400"
       ELSE IF bad = {} THEN "none"
       ELSE IF ~files[First(bad)].allowed THEN "415" ELSE "413"

Reject(r) ==
    /\ batch[r].at = "reading"
    /\ Refusal(batch[r].files) # "none"
    /\ Answered(r, Refusal(batch[r].files))
    /\ UNCHANGED <<limiter, keys, pool, row, queued, stranded>>

JobsOf(r, S) == {<<r, i>> : i \in S}

\* Mutant: the handler goes on with a job whose upload was not saved.
CreatedAnyway(all, unsaved) == all

(* created_jobs: the files whose upload was saved.                          *)
Created(all, unsaved) == all \ unsaved

(* The rows of all files, pending or, where save_upload raised, failed;     *)
(* then get_arq_pool.  The first enqueue is awaited when the step ends.     *)
Create(r, unsaved) ==
    LET all == 1..Len(batch[r].files)
        created == Created(all, unsaved)
    IN /\ batch[r].at = "reading"
       /\ Refusal(batch[r].files) = "none"
       /\ unsaved \subseteq all
       /\ row' = [j \in JobIds |->
                    IF j \in JobsOf(r, unsaved) THEN "failed"
                    ELSE IF j \in JobsOf(r, all) THEN "pending" ELSE row[j]]
       /\ stranded' = IF pool THEN stranded
                      ELSE stranded \cup JobsOf(r, all \ unsaved)
       /\ batch' = [batch EXCEPT
                      ![r].at = IF pool /\ created # {}
                                  THEN "enqueueing" ELSE "ended",
                      ![r].todo = IF pool THEN created ELSE {},
                      ![r].listed = IF pool THEN created ELSE {},
                      ![r].answer = IF ~pool THEN "503"
                                    ELSE IF created = {} THEN "202"
                                    ELSE "none"]
       /\ UNCHANGED <<limiter, keys, pool, queued>>

(* A commit raises (SQLite is locked by the worker) and ends the handler,   *)
(* that of the next row, or the refresh or the failure of the n-th: n rows  *)
(* are there, failed where the upload was not saved, nobody enqueues them.  *)
CreateBreaks(r, n, unsaved) ==
    LET left == 1..n \ unsaved
    IN /\ batch[r].at = "reading"
       /\ Refusal(batch[r].files) = "none"
       /\ n <= Len(batch[r].files)
       /\ unsaved \subseteq 1..n
       /\ n = Len(batch[r].files) => n \notin unsaved
       /\ row' = [j \in JobIds |->
                    IF j \in JobsOf(r, unsaved) THEN "failed"
                    ELSE IF j \in JobsOf(r, left) THEN "pending" ELSE row[j]]
       /\ stranded' = stranded \cup JobsOf(r, left)
       /\ batch' = [batch EXCEPT ![r].at = "ended", ![r].answer = "500"]
       /\ UNCHANGED <<limiter, keys, pool, queued>>

(* The handler goes on behind an await.  Each commit has expired the rows   *)
(* of the session, so job.id reads the next row again, and raises when an   *)
(* operator has deleted it; only the row of the last file is still loaded.  *)
GoOn(r, todo) ==
    IF todo = {}
      THEN /\ batch' = [batch EXCEPT ![r].at = "ended", ![r].todo = {},
                                     ![r].answer = "202"]
           /\ UNCHANGED stranded
    ELSE IF \/ row[<<r, First(todo)>>] = "pending"
            \/ First(todo) = Len(batch[r].files)
      THEN /\ batch' = [batch EXCEPT ![r].todo = todo]
           /\ UNCHANGED stranded
    ELSE /\ batch' = [batch EXCEPT ![r].at = "ended", ![r].todo = {},
                                   ![r].answer = "500"]
         /\ stranded' = stranded \cup JobsOf(r, todo)

EnqueueArrives(r) ==
    LET i == First(batch[r].todo)
    IN /\ batch[r].at = "enqueueing"
       /\ queued' = queued \cup {<<r, i>>}
       /\ GoOn(r, batch[r].todo \ {i})
       /\ UNCHANGED <<limiter, keys, pool, row>>

\* Mutant: a failed enqueue is logged and the loop goes on.
EnqueueFailureIgnored(r) ==
    /\ batch[r].at = "enqueueing"
    /\ GoOn(r, batch[r].todo \ {First(batch[r].todo)})
    /\ UNCHANGED <<limiter, keys, pool, row, queued>>

(* The call raises, whether or not Redis has taken the entry.               *)
EnqueueRaises(r) ==
    LET i == First(batch[r].todo)
    IN /\ batch[r].at = "enqueueing"
       /\ queued' \in {queued, queued \cup {<<r, i>>}}
       /\ stranded' = stranded \cup JobsOf(r, batch[r].todo)
       /\ batch' = [batch EXCEPT ![r].at = "ended", ![r].todo = {},
                                 ![r].answer = "500"]
       /\ UNCHANGED <<limiter, keys, pool, row>>

-----------------------------------------------------------------------------
(* The operator, and the process.                                           *)

CreateKey(k) ==
    /\ keys[k] = "absent"
    /\ keys' = [keys EXCEPT ![k] = "active"]
    /\ UNCHANGED <<limiter, pool, batch, row, queued, stranded>>

RevokeKey(k) ==
    /\ keys[k] = "active"
    /\ keys' = [keys EXCEPT ![k] = "revoked"]
    /\ UNCHANGED <<limiter, pool, batch, row, queued, stranded>>

DeleteJob(j) ==
    /\ row[j] \in {"pending", "failed"}
    /\ row' = [row EXCEPT ![j] = "deleted"]
    /\ UNCHANGED <<limiter, keys, pool, batch, queued, stranded>>

(* The buckets die with the process, and the requests it was serving; the   *)
(* entry that is under way may have arrived.                                *)
Restart ==
    LET open == {r \in Requests : batch[r].at \in {"reading", "enqueueing"}}
        sending == {<<r, First(batch[r].todo)>> :
                      r \in {o \in open : batch[o].todo # {}}}
    IN /\ open # {}
       /\ batch' = [r \in Requests |->
                      IF r \in open
                        THEN [batch[r] EXCEPT !.at = "ended", !.todo = {}]
                        ELSE batch[r]]
       /\ \E arrived \in SUBSET sending : queued' = queued \cup arrived
       /\ stranded' = stranded
                        \cup UNION {JobsOf(r, batch[r].todo) : r \in open}
       /\ pool' \in BOOLEAN
       /\ buckets' = [k \in Keys |-> <<>>]
       /\ granted' = [k \in Keys |-> <<>>]
       /\ reply' = [k \in Keys |-> NoReply]
       /\ UNCHANGED <<now, keys, row>>

Passes == Tick /\ UNCHANGED <<keys, pool, batch, row, queued, stranded>>

IntakeInit ==
    /\ Init
    /\ keys = [k \in Keys |-> "absent"]
    /\ pool \in BOOLEAN
    /\ batch = [r \in Requests |-> Idle]
    /\ row = [j \in JobIds |-> "absent"]
    /\ queued = {}
    /\ stranded = {}

Operator(k) == CreateKey(k) \/ RevokeKey(k)

Arrives(r) ==
    \/ \E files \in Shapes : DeclaredTooLarge(r, files)
    \/ \E k \in Keys : Unauthorized(r, k) \/ OverLimit(r, k)
    \/ \E k \in Keys, files \in Shapes : Admit(r, k, files)

Serves(r) ==
    \/ Reject(r)
    \/ \E unsaved \in SUBSET (1..MaxFiles) : Create(r, unsaved)
    \/ \E n \in 0..MaxFiles, unsaved \in SUBSET (1..MaxFiles) :
          CreateBreaks(r, n, unsaved)
    \/ EnqueueArrives(r)
    \/ EnqueueRaises(r)

IntakeNext ==
    \/ \E r \in Requests : Arrives(r) \/ Serves(r)
    \/ \E k \in Keys : Operator(k)
    \/ \E j \in JobIds : DeleteJob(j)
    \/ Restart
    \/ Passes

IntakeSpec == IntakeInit /\ [][IntakeNext]_intakeVars

-----------------------------------------------------------------------------
(* Every variable has its type, and no bucket outgrows the limit.           *)
IntakeTypeOK ==
    /\ TypeOK
    /\ keys \in [Keys -> {"absent", "active", "revoked"}]
    /\ pool \in BOOLEAN
    /\ batch \in [Requests -> [at : {"idle", "reading", "enqueueing", "ended"},
                               files : Seq([allowed : BOOLEAN, size : Nat]),
                               todo : SUBSET (1..MaxFiles),
                               listed : SUBSET (1..MaxFiles),
                               answer : Answers]]
    /\ row \in [JobIds -> {"absent", "pending", "failed", "deleted"}]
    /\ queued \subseteq JobIds
    /\ stranded \subseteq JobIds

(* A pending row of a batch is on the queue, or its handler still holds it, *)
(* or a failure with a name kept it from the queue: a missing pool, an      *)
(* error of Redis or the database, a restart, or a sibling that was deleted *)
(* while the handler awaited.                                               *)
RowsHaveAFate ==
    \A j \in JobIds : row[j] = "pending" =>
       j \in queued \cup stranded \/ j[2] \in batch[j[1]].todo

(* What a client is told of a batch is true: a refusal left nothing behind; *)
(* after 202 the listed jobs are those of the files that were saved, all of *)
(* them on the queue, none of a file over the limit, with or without a      *)
(* declared length, and no row of the batch is open beside them.            *)
AnswersMatchTheQueue ==
    \A r \in Requests :
       LET jobs(S) == {i \in 1..MaxFiles : <<r, i>> \in S}
           open == {i \in 1..MaxFiles : row[<<r, i>>] = "pending"}
           failed == {i \in 1..MaxFiles : row[<<r, i>>] = "failed"}
       IN /\ batch[r].answer \in Refusals =>
                \A i \in 1..MaxFiles : row[<<r, i>>] = "absent"
          /\ batch[r].answer = "202" =>
                /\ batch[r].listed = jobs(queued)
                /\ open \subseteq batch[r].listed
                /\ failed \cap batch[r].listed = {}
                /\ \A i \in batch[r].listed :
                      batch[r].files[i].size <= MaxBytes

(* app/routers/ocr.py:388: "Each file is validated independently and        *)
(* becomes its own Job [...] returned is a list of job_ids": a file whose  *)
(* upload cannot be written is not in the list.                             *)
EveryFileIsListed ==
    \A r \in Requests : batch[r].answer = "202" =>
       batch[r].listed = 1..Len(batch[r].files)

=============================================================================
