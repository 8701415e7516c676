----------------------- MODULE WebhookDeliveryProofs -----------------------
(***************************************************************************)
(* Theorems about WebhookDelivery, for every number of queue entries, that  *)
(* is, of restarts and retries, and every choice of operations and faults.  *)
(***************************************************************************)
EXTENDS WebhookDelivery, TLAPS

Tasks == [kind : {"none", "run", "retry"},
          at : {"free", "queued", "gone"} \cup Started,
          try : 0..MaxTries,
          delay : {0} \cup {RetryDelays[i] : i \in 1..Len(RetryDelays)},
          attempts : Nat, delivered : BOOLEAN]

(* Every delay is one of RETRY_DELAYS_S, also when the counter is beyond    *)
(* the end of the list.                                                     *)
LEMMA DelayIsListed ==
  ASSUME NEW n \in Nat
  PROVE  Delay(n) \in {RetryDelays[i] : i \in 1..Len(RetryDelays)}
  <1>1. Len(RetryDelays) = 3
    BY DEF RetryDelays
  <1>2. (IF n < 3 THEN n + 1 ELSE 3) \in 1..3
    OBVIOUS
  <1> QED
    BY <1>1, <1>2 DEF Delay

(* What an answer leaves in the row: the copy of the delivery wins only in  *)
(* the columns it changed.                                                  *)
LEMMA CountedColumns ==
  ASSUME NEW cur \in Jobs, NEW ok \in BOOLEAN,
         NEW copy \in [attempts : Nat, delivered : BOOLEAN]
  PROVE  /\ Counted(cur, copy, ok) \in Jobs
         /\ Counted(cur, copy, ok).status = cur.status
         /\ Counted(cur, copy, ok).attempts = copy.attempts + 1
         /\ cur.delivered => Counted(cur, copy, ok).delivered
         /\ ok /\ ~copy.delivered => Counted(cur, copy, ok).delivered
         /\ ~ok /\ ~cur.delivered => ~Counted(cur, copy, ok).delivered
  <1> DEFINE row == Counted(cur, copy, ok)
  <1>1. row.status = cur.status
    BY DEF Counted, Jobs
  <1>2. row.attempts = copy.attempts + 1
    BY DEF Counted, Jobs, Column
  <1>3. row.delivered = Column(cur.delivered, copy.delivered, copy.delivered \/ ok)
    BY DEF Counted, Jobs
  <1>4. cur.delivered \in BOOLEAN /\ copy.delivered \in BOOLEAN
    BY DEF Jobs
  <1>5. row \in Jobs
    <2>1. row = [cur EXCEPT !.attempts = row.attempts, !.delivered = row.delivered]
      BY DEF Counted, Jobs
    <2>2. row.attempts \in Nat
      BY <1>2
    <2>3. row.delivered \in BOOLEAN
      BY <1>3, <1>4 DEF Column
    <2> HIDE DEF row
    <2> QED
      BY <2>1, <2>2, <2>3 DEF Jobs
  <1> HIDE DEF row
  <1>6. /\ cur.delivered => row.delivered
        /\ ok /\ ~copy.delivered => row.delivered
        /\ ~ok /\ ~cur.delivered => ~row.delivered
    BY <1>3, <1>4 DEF Column
  <1> QED
    BY <1>1, <1>2, <1>5, <1>6, Zenon DEF row

LEMMA ResetColumns ==
  ASSUME NEW cur \in Jobs, NEW copy \in Jobs
  PROVE  /\ Reset(cur, copy) \in Jobs
         /\ Reset(cur, copy).attempts \in {0, cur.attempts}
  BY DEF Reset, Column, Jobs, Open

-----------------------------------------------------------------------------
(* Types.                                                                   *)

LEMMA EmptyTasks ==
  /\ FreeEntry \in Tasks /\ GoneEntry \in Tasks
  /\ \A kind \in {"run", "retry"} : Queued(kind, 0) \in Tasks
  /\ \A n \in Nat : Queued("retry", Delay(n)) \in Tasks
  <1>1. 0 \in 0..MaxTries
    BY BoundsAssumption
  <1> QED
    BY <1>1, DelayIsListed DEF FreeEntry, GoneEntry, Queued, Tasks

LEMMA NoJobTyped == NoJob \in Jobs
  BY DEF NoJob, Jobs

LEMMA InitTyped == Init => TypeOK
  <1> SUFFICES ASSUME Init PROVE TypeOK
    OBVIOUS
  <1>1. entry \in [Entries -> Tasks]
    BY EmptyTasks DEF Init
  <1>2. job \in Jobs
    BY DEF Init, Jobs, Open
  <1>3. sent \in [all : Nat, fresh : 0..2]
    BY DEF Init
  <1> QED
    BY <1>1, <1>2, <1>3, NoJobTyped, Zenon DEF Init, TypeOK, Tasks

LEMMA PostTyped ==
  ASSUME TypeOK, NEW e \in Entries, NEW try \in 0..MaxTries, Post(e, try)
  PROVE  /\ entry' \in [Entries -> Tasks]
         /\ sent' \in [all : Nat, fresh : 0..2]
         /\ UNCHANGED <<job, admin, lost>>
  <1>1. entry \in [Entries -> Tasks] /\ job \in Jobs
    BY DEF TypeOK, Tasks
  <1>2. [entry[e] EXCEPT !.at = "posting", !.try = try,
                         !.attempts = job.attempts,
                         !.delivered = job.delivered] \in Tasks
    BY <1>1 DEF Tasks, Jobs, Started
  <1>3. entry' \in [Entries -> Tasks]
    BY <1>1, <1>2 DEF Post
  <1> QED
    BY <1>3 DEF TypeOK, Post, OnceMore

LEMMA WorkerTyped ==
  ASSUME TypeOK, NEW e \in Entries, WorkerStep(e)
  PROVE  TypeOK'
  <1>0. entry \in [Entries -> Tasks] /\ entry[e] \in Tasks
    BY DEF TypeOK, Tasks
  <1>1. Copy(e) \in [attempts : Nat, delivered : BOOLEAN]
    BY <1>0 DEF Copy, Tasks
  <1>2. MaxTries \in Nat
    BY BoundsAssumption
  <1>3. ASSUME Finish(e) PROVE entry' \in [Entries -> Tasks]
    BY <1>0, <1>3, EmptyTasks DEF Finish
  <1>4. ASSUME NEW s \in Started, GoTo(e, s) PROVE entry' \in [Entries -> Tasks]
    BY <1>0, <1>4 DEF GoTo, Tasks
  <1> SUFFICES /\ job' \in Jobs /\ admin' \in Jobs
               /\ entry' \in [Entries -> Tasks]
               /\ sent' \in [all : Nat, fresh : 0..2]
               /\ lost' \in {"no", "failure", "limit"} /\ disturbed' \in BOOLEAN
    BY DEF TypeOK, Tasks
  <1> USE DEF TypeOK
  <1>a. CASE StartRun(e)
    BY <1>a, <1>0, <1>2, <1>3 DEF StartRun, Again, Jobs, Open, Tasks, Started, Blocking
  <1>b. CASE RunFailsEarly(e)
    BY <1>b, <1>3 DEF RunFailsEarly, Jobs, Terminal
  <1>c. CASE RunEnds(e)
    BY <1>c, <1>3, <1>4 DEF RunEnds, Jobs, Terminal, Started, Blocking
  <1>d. CASE Announce(e)
    BY <1>d, <1>0, <1>3, PostTyped DEF Announce, Tasks
  <1>e. CASE StartRetry(e)
    <2>1. entry[e].try + 1 \in 0..MaxTries
      BY <1>e, <1>0, <1>2 DEF StartRetry, Tasks
    <2> QED
      BY <1>e, <1>3, <2>1, PostTyped DEF StartRetry, Again
  <1>f. CASE Exhausted(e)
    BY <1>f, <1>3 DEF Exhausted
  <1>g. CASE Cancelled(e)
    BY <1>g, <1>3 DEF Cancelled
  <1>h. ASSUME NEW ok \in BOOLEAN, Answered(e, ok) PROVE TypeOK'
    BY <1>h, <1>1, <1>3, <1>4, CountedColumns
       DEF Answered, Started, Blocking, Tasks
  <1>i. ASSUME NEW f \in Entries, ScheduleRetry(e, f) PROVE TypeOK'
    <2>1. Queued("retry", Delay(job.attempts)) \in Tasks
      BY EmptyTasks DEF Jobs
    <2>2. [entry[e] EXCEPT !.at = "returning"] \in Tasks
      BY <1>0 DEF Tasks, Started
    <2> QED
      BY <1>i, <1>0, <2>1, <2>2 DEF ScheduleRetry, Tasks
  <1>j. CASE Returns(e)
    BY <1>j, <1>3 DEF Returns
  <1>k. CASE NoRetry(e)
    BY <1>k, <1>3 DEF NoRetry
  <1>l. CASE ScheduleFails(e)
    BY <1>l, <1>3 DEF ScheduleFails
  <1> QED
    BY <1>a, <1>b, <1>c, <1>d, <1>e, <1>f, <1>g, <1>h, <1>i, <1>j, <1>k, <1>l
       DEF WorkerStep, Tasks

LEMMA CrashTyped ==
  ASSUME TypeOK, WorkerCrash
  PROVE  TypeOK'
  BY DEF TypeOK, WorkerCrash, Queued, FreeEntry, Started

LEMMA AdminTyped ==
  ASSUME TypeOK, AdminStep
  PROVE  TypeOK'
  <1> USE DEF TypeOK
  <1>1. CASE RestartRead
    BY <1>1 DEF RestartRead
  <1>2. CASE Stop
    BY <1>2 DEF Stop, Jobs, Terminal
  <1>3. CASE Delete
    BY <1>3, NoJobTyped DEF Delete
  <1>4. ASSUME NEW e \in Entries, RestartCommit(e)
        PROVE  TypeOK'
    <2>1. entry' \in [Entries -> Tasks]
      BY <1>4, EmptyTasks DEF RestartCommit, Tasks
    <2>2. job' \in Jobs
      BY <1>4, ResetColumns DEF RestartCommit
    <2>3. sent' \in [all : Nat, fresh : 0..2]
      BY <1>4 DEF RestartCommit
    <2> QED
      BY <1>4, <2>1, <2>2, <2>3, NoJobTyped, Zenon DEF RestartCommit, Tasks
  <1> QED
    BY <1>1, <1>2, <1>3, <1>4 DEF AdminStep

LEMMA NextTyped == TypeOK /\ [Next]_vars => TypeOK'
  BY WorkerTyped, CrashTyped, AdminTyped DEF Next, vars, TypeOK

(* Every variable keeps its type, and a retry one of the delays.            *)
THEOREM TypeCorrect == Spec => []TypeOK
  BY InitTyped, NextTyped, PTL DEF Spec

-----------------------------------------------------------------------------
(* What a delivery may write back.                                          *)

LEMMA AttemptsStep ==
  ASSUME TypeOK, AttemptsWereMade, [Next]_vars
  PROVE  AttemptsWereMade'
  <1> USE DEF AttemptsWereMade
  <1>0. /\ job.attempts \in Nat /\ sent.all \in Nat
        /\ \A e \in Entries : entry[e].attempts \in Nat
        /\ TypeOK'
    BY NextTyped DEF TypeOK, Jobs
  <1>1. ASSUME NEW e \in Entries, Finish(e), UNCHANGED sent,
               job'.attempts <= sent.all
        PROVE  AttemptsWereMade'
    BY <1>1 DEF Finish, GoneEntry, FreeEntry, TypeOK
  <1>2. ASSUME NEW e \in Entries, NEW s \in Blocking \cup {"returning"},
               GoTo(e, s), UNCHANGED sent, job'.attempts <= sent.all
        PROVE  AttemptsWereMade'
    BY <1>2 DEF GoTo, TypeOK, Blocking
  <1>3. ASSUME NEW e \in Entries, NEW try, Post(e, try)
        PROVE  AttemptsWereMade'
    BY <1>0, <1>3 DEF Post, TypeOK
  <1>4. CASE UNCHANGED vars
    BY <1>4 DEF vars
  <1>5. CASE WorkerCrash
    BY <1>5 DEF WorkerCrash, Queued, FreeEntry, TypeOK
  <1>6. CASE RestartRead \/ Stop \/ Delete
    BY <1>0, <1>6 DEF RestartRead, Stop, Delete, NoJob, TypeOK, Jobs
  <1>7. ASSUME NEW e \in Entries, RestartCommit(e)
        PROVE  AttemptsWereMade'
    <2>1. job'.attempts \in {0, job.attempts}
      BY <1>7, ResetColumns DEF RestartCommit, TypeOK
    <2>2. sent'.all = sent.all
      BY <1>7, <1>0 DEF RestartCommit, TypeOK
    <2>3. entry' = [entry EXCEPT ![e] = Queued("run", 0)]
      BY <1>7 DEF RestartCommit
    <2> QED
      BY <1>0, <2>1, <2>2, <2>3 DEF Queued, FreeEntry, TypeOK
  <1>8. ASSUME NEW e \in Entries, WorkerStep(e)
        PROVE  AttemptsWereMade'
    <2>1. CASE StartRun(e)
      <3>1. CASE Exists
        <4>1. job'.attempts = job.attempts /\ UNCHANGED sent
          BY <2>1, <3>1 DEF StartRun, TypeOK, Jobs
        <4>2. entry' = [entry EXCEPT ![e].at = "working", ![e].try = @ + 1]
          BY <2>1, <3>1 DEF StartRun
        <4> QED
          BY <4>1, <4>2 DEF TypeOK
      <3>2. CASE ~Exists
        BY <2>1, <3>2, <1>1 DEF StartRun
      <3> QED
        BY <3>1, <3>2
    <2>2. CASE RunFailsEarly(e)
      BY <2>2, <1>1 DEF RunFailsEarly, TypeOK, Jobs
    <2>3. CASE RunEnds(e)
      BY <2>3, <1>1, <1>2 DEF RunEnds, TypeOK, Jobs, Blocking
    <2>4. CASE Announce(e)
      BY <2>4, <1>1, <1>3 DEF Announce
    <2>5. CASE StartRetry(e)
      BY <2>5, <1>1, <1>3 DEF StartRetry
    <2>6. CASE Exhausted(e) \/ Cancelled(e) \/ Returns(e) \/ NoRetry(e)
                 \/ ScheduleFails(e)
      BY <2>6, <1>1 DEF Exhausted, Cancelled, Returns, NoRetry, ScheduleFails
    <2>7. ASSUME NEW ok \in BOOLEAN, Answered(e, ok)
          PROVE  AttemptsWereMade'
      <3>1. Copy(e) \in [attempts : Nat, delivered : BOOLEAN]
              /\ Copy(e).attempts = entry[e].attempts
        BY DEF Copy, TypeOK
      <3>2. job'.attempts <= sent.all
        <4>1. Counted(job, Copy(e), ok).attempts = entry[e].attempts + 1
          BY <3>1, CountedColumns DEF TypeOK
        <4>2. entry[e].attempts < sent.all
          BY <2>7 DEF Answered
        <4> QED
          BY <2>7, <1>0, <4>1, <4>2 DEF Answered
      <3> QED
        BY <2>7, <3>2, <1>1, <1>2 DEF Answered, Blocking
    <2>8. ASSUME NEW f \in Entries, ScheduleRetry(e, f)
          PROVE  AttemptsWereMade'
      BY <2>8 DEF ScheduleRetry, Queued, FreeEntry, TypeOK
    <2> QED
      BY <1>8, <2>1, <2>2, <2>3, <2>4, <2>5, <2>6, <2>7, <2>8 DEF WorkerStep
  <1> QED
    BY <1>4, <1>5, <1>6, <1>7, <1>8 DEF Next, AdminStep

(* webhook_attempts never claims a POST that was not made, however many     *)
(* copies of the row are written back over each other.                      *)
THEOREM NoAttemptIsInvented == Spec => []AttemptsWereMade
  <1>1. Init => AttemptsWereMade
    <2> SUFFICES ASSUME Init PROVE AttemptsWereMade
      OBVIOUS
    <2>1. job.attempts = 0 /\ sent.all = 0
      BY DEF Init
    <2>2. \A e \in Entries : entry[e].at \in {"queued", "free"}
      BY DEF Init, Queued, FreeEntry
    <2> QED
      BY <2>1, <2>2 DEF AttemptsWereMade
  <1> QED
    BY <1>1, InitTyped, NextTyped, AttemptsStep, PTL DEF Spec

-----------------------------------------------------------------------------
(* As long as nothing was restarted and no entry was run again, at most one *)
(* entry is going to post, and none once the row is marked delivered.       *)
WillPost(e) ==
    \/ entry[e].at \in {"working", "announce", "posting", "deciding"}
    \/ entry[e].at = "queued" /\ entry[e].try = 0

OneChain ==
    ~disturbed =>
       /\ \A e, f \in Entries : WillPost(e) /\ WillPost(f) => e = f
       /\ job.delivered => \A e \in Entries : ~WillPost(e)

ChainInv ==
    /\ TypeOK
    /\ \A e \in Entries : entry[e].at \in Started => entry[e].try > 0
    /\ OneChain

(* A step that moves one entry on, and marks the row only when that entry   *)
(* has ended.                                                               *)
LEMMA OneMoves ==
  ASSUME ChainInv, NEW e \in Entries, WillPost(e),
         \A f \in Entries \ {e} : entry'[f] = entry[f],
         job'.delivered => job.delivered \/ ~WillPost(e)',
         disturbed' \in BOOLEAN, disturbed => disturbed'
  PROVE  OneChain'
  BY DEF ChainInv, OneChain, WillPost

(* A step after which no entry posts that was not going to.                 *)
LEMMA NoneIsAdded ==
  ASSUME ChainInv,
         \A f \in Entries : WillPost(f)' => WillPost(f),
         job'.delivered => job.delivered, disturbed => disturbed'
  PROVE  OneChain'
  BY DEF ChainInv, OneChain

LEMMA WorkerKeepsChain ==
  ASSUME ChainInv, NEW e \in Entries, WorkerStep(e)
  PROVE  OneChain' /\ \A f \in Entries : entry'[f].at \in Started => entry'[f].try > 0
  <1> DEFINE Tried == \A f \in Entries : entry'[f].at \in Started => entry'[f].try > 0
  <1>0. /\ TypeOK /\ entry \in [Entries -> Tasks] /\ entry[e] \in Tasks
        /\ TypeOK' /\ disturbed \in BOOLEAN /\ disturbed' \in BOOLEAN
        /\ entry[e].try \in Nat
    BY WorkerTyped, BoundsAssumption DEF ChainInv, TypeOK, Tasks
  <1>1. ASSUME Finish(e)
        PROVE  /\ \A f \in Entries \ {e} : entry'[f] = entry[f]
               /\ ~WillPost(e)' /\ Tried
    BY <1>0, <1>1 DEF Finish, GoneEntry, FreeEntry, WillPost, Started, Blocking,
                      ChainInv
  <1>2. ASSUME NEW s \in Started, GoTo(e, s), entry[e].at \in Started
        PROVE  (\A f \in Entries \ {e} : entry'[f] = entry[f]) /\ Tried
    BY <1>0, <1>2 DEF GoTo, ChainInv
  <1>3. ASSUME NEW try \in Nat \ {0}, Post(e, try)
        PROVE  /\ \A f \in Entries \ {e} : entry'[f] = entry[f]
               /\ Tried /\ UNCHANGED job
    BY <1>0, <1>3 DEF Post, ChainInv
  <1>4. ASSUME Again(e)
        PROVE  /\ disturbed => disturbed'
               /\ entry[e].at = "queued" /\ ~disturbed' => WillPost(e)
    <2>1. entry[e].try > 0 \/ entry[e].try = 0
      BY <1>0
    <2> QED
      BY <1>4, <1>0, <2>1, Zenon DEF Again, WillPost
  <1>5. disturbed' => OneChain'
    BY DEF OneChain
  <1>a. CASE StartRun(e)
    <2>1. CASE Exists
      <3>1. job'.delivered = job.delivered
        BY <1>a, <2>1, <1>0 DEF StartRun, TypeOK, Jobs
      <3>2. entry' = [entry EXCEPT ![e].at = "working", ![e].try = @ + 1]
        BY <1>a, <2>1 DEF StartRun
      <3>3. (\A f \in Entries \ {e} : entry'[f] = entry[f]) /\ Tried
        BY <3>2, <1>0 DEF ChainInv
      <3> QED
        BY <1>a, <3>1, <3>3, <1>0, <1>4, <1>5, OneMoves DEF StartRun, CanStart
    <2>2. CASE ~Exists
      BY <1>a, <2>2, <1>0, <1>1, <1>4, <1>5, OneMoves DEF StartRun, CanStart
    <2> QED
      BY <2>1, <2>2
  <1>b. CASE RunFailsEarly(e)
    <2>1. job'.delivered = job.delivered /\ WillPost(e)
      BY <1>b, <1>0 DEF RunFailsEarly, TypeOK, Jobs, WillPost
    <2> QED
      BY <1>b, <2>1, <1>0, <1>1, OneMoves DEF RunFailsEarly
  <1>c. CASE RunEnds(e)
    <2>1. job'.delivered = job.delivered /\ WillPost(e)
      BY <1>c, <1>0 DEF RunEnds, TypeOK, Jobs, WillPost
    <2> QED
      BY <1>c, <2>1, <1>0, <1>1, <1>2, OneMoves DEF RunEnds, Started, Blocking
  <1>d. CASE Announce(e)
    <2>1. WillPost(e) /\ entry[e].try > 0
      BY <1>d DEF Announce, WillPost, ChainInv, Started, Blocking
    <2> QED
      BY <1>d, <2>1, <1>0, <1>1, <1>3, OneMoves DEF Announce
  <1>e. CASE StartRetry(e)
    <2>1. entry[e].try + 1 \in Nat \ {0}
      BY <1>0
    <2> QED
      BY <1>e, <2>1, <1>0, <1>1, <1>3, <1>4, <1>5, OneMoves DEF StartRetry, CanStart
  <1>f. CASE Exhausted(e) \/ Returns(e) \/ NoRetry(e) \/ ScheduleFails(e)
               \/ Cancelled(e)
    <2>1. Finish(e) /\ UNCHANGED <<job, disturbed>>
      BY <1>f DEF Exhausted, Returns, NoRetry, ScheduleFails, Cancelled
    <2>2. \A f \in Entries : WillPost(f)' => WillPost(f)
      BY <2>1, <1>1 DEF WillPost
    <2> QED
      BY <2>1, <2>2, <1>1, NoneIsAdded
  <1>g. ASSUME NEW ok \in BOOLEAN, Answered(e, ok)
        PROVE  OneChain' /\ Tried
    <2>1. WillPost(e) /\ entry[e].at \in Started /\ UNCHANGED disturbed
      BY <1>g DEF Answered, WillPost, Started
    <2>2. Copy(e) \in [attempts : Nat, delivered : BOOLEAN]
      BY <1>0 DEF Copy, Tasks
    <2>3. ~ok => (job'.delivered => job.delivered)
      BY <1>g, <1>0, <2>2, CountedColumns DEF Answered, TypeOK
    <2>4. CASE Exists /\ ~ok /\ entry[e].kind = "run"
      BY <1>g, <2>1, <2>3, <2>4, <1>0, <1>2, OneMoves
         DEF Answered, Started, Blocking
    <2>5. CASE ~(Exists /\ ~ok /\ entry[e].kind = "run")
      BY <1>g, <2>1, <2>5, <1>0, <1>1, OneMoves DEF Answered
    <2> QED
      BY <2>4, <2>5
  <1>h. ASSUME NEW f \in Entries, ScheduleRetry(e, f)
        PROVE  OneChain' /\ Tried
    <2>1. /\ WillPost(e) /\ e # f /\ ~job.delivered
          /\ UNCHANGED <<job, disturbed>>
      BY <1>h DEF ScheduleRetry, WillPost, RetryWanted, NextFree
    <2>2. /\ entry'[e].at = "returning" /\ entry'[e].try = entry[e].try
          /\ entry'[f].at = "queued"
          /\ \A g \in Entries \ {e, f} : entry'[g] = entry[g]
      <3>1. Queued("retry", Delay(job.attempts)).at = "queued"
        BY DEF Queued, FreeEntry
      <3>2. entry' = [entry EXCEPT ![e].at = "returning",
                                   ![f] = Queued("retry", Delay(job.attempts))]
        BY <1>h DEF ScheduleRetry
      <3>3. entry'[e] = [entry[e] EXCEPT !.at = "returning"]
        BY <3>2, <1>0, <2>1
      <3>4. entry'[f] = Queued("retry", Delay(job.attempts))
        BY <3>2, <1>0, <2>1
      <3> QED
        BY <3>1, <3>2, <3>3, <3>4, <1>0 DEF Tasks
    <2>3. OneChain'
      BY <2>1, <2>2 DEF ChainInv, OneChain, WillPost
    <2>4. Tried
      BY <1>h, <2>2 DEF ChainInv, ScheduleRetry, Started, Blocking
    <2> QED
      BY <2>3, <2>4
  <1> QED
    BY <1>a, <1>b, <1>c, <1>d, <1>e, <1>f, <1>g, <1>h DEF WorkerStep

LEMMA ChainStep == ChainInv /\ [Next]_vars => ChainInv'
  <1> SUFFICES ASSUME ChainInv, [Next]_vars
               PROVE  ChainInv'
    OBVIOUS
  <1>0. TypeOK'
    BY NextTyped DEF ChainInv
  <1>1. CASE UNCHANGED vars
    BY <1>1, <1>0 DEF ChainInv, OneChain, WillPost, vars
  <1>2. ASSUME NEW e \in Entries, WorkerStep(e)
        PROVE  ChainInv'
    BY <1>0, <1>2, WorkerKeepsChain DEF ChainInv
  <1>3. CASE WorkerCrash
    <2>1. \A e \in Entries :
             IF entry[e].at \in Started
               THEN entry'[e].at = "queued" /\ entry'[e].try > 0
               ELSE entry'[e] = entry[e]
      BY <1>3 DEF WorkerCrash, Queued, FreeEntry, ChainInv
    <2>2. \A e \in Entries : WillPost(e)' => WillPost(e)
      BY <2>1, <1>0 DEF WillPost, TypeOK
    <2>3. OneChain'
      BY <1>3, <2>2, NoneIsAdded DEF WorkerCrash
    <2> QED
      BY <1>0, <2>1, <2>3 DEF ChainInv, Started, Blocking
  <1>4. CASE RestartRead \/ Stop \/ Delete
    <2>1. UNCHANGED <<entry, disturbed>> /\ (job'.delivered => job.delivered)
      BY <1>4 DEF RestartRead, Stop, Delete, NoJob, ChainInv, TypeOK, Jobs
    <2>2. \A e \in Entries : WillPost(e)' => WillPost(e)
      BY <2>1 DEF WillPost
    <2> QED
      BY <1>0, <2>1, <2>2, NoneIsAdded DEF ChainInv
  <1>5. ASSUME NEW e \in Entries, RestartCommit(e)
        PROVE  ChainInv'
    <2>1. disturbed'
      BY <1>5 DEF RestartCommit
    <2>2. \A f \in Entries : entry'[f].at \in Started => entry'[f] = entry[f]
      BY <1>5 DEF RestartCommit, Queued, FreeEntry, Started, Blocking, ChainInv,
                  TypeOK
    <2> QED
      BY <1>0, <2>1, <2>2 DEF ChainInv, OneChain
  <1> QED
    BY <1>1, <1>2, <1>3, <1>4, <1>5 DEF Next, AdminStep

LEMMA ChainStarts == Init => ChainInv
  <1> SUFFICES ASSUME Init PROVE ChainInv
    OBVIOUS
  <1>1. \A e \in Entries :
           \/ entry[e] = Queued("run", 0) /\ \A f \in Entries : e <= f
           \/ entry[e] = FreeEntry
    BY DEF Init
  <1>2. \A e \in Entries : WillPost(e) => \A f \in Entries : e <= f
    BY <1>1 DEF WillPost, FreeEntry
  <1>3. \A e, f \in Entries : WillPost(e) /\ WillPost(f) => e = f
    <2> SUFFICES ASSUME NEW e \in Entries, NEW f \in Entries,
                        WillPost(e), WillPost(f)
                 PROVE  e = f
      OBVIOUS
    <2>1. e <= f /\ f <= e
      BY <1>2
    <2>2. e \in Nat /\ f \in Nat
      BY BoundsAssumption
    <2> QED
      BY <2>1, <2>2
  <1>4. \A e \in Entries : entry[e].at \notin Started
    <2>1. Queued("run", 0).at = "queued" /\ FreeEntry.at = "free"
      BY DEF Queued, FreeEntry
    <2> QED
      BY <1>1, <2>1 DEF Started, Blocking
  <1>5. ~job.delivered
    BY DEF Init
  <1> QED
    BY <1>3, <1>4, <1>5, InitTyped DEF ChainInv, OneChain

(* A delivery that succeeded is the last, unless the job was restarted or   *)
(* ARQ ran an entry again.                                                  *)
THEOREM SuccessIsTheLast == Spec => NoPostAfterDelivery
  <1>2. ChainInv /\ [Next]_vars
          => [job.delivered /\ ~disturbed' => sent'.all = sent.all]_vars
    <2> SUFFICES ASSUME ChainInv, Next, job.delivered, ~disturbed'
                 PROVE  sent'.all = sent.all
      BY DEF vars
    <2>1. ASSUME NEW e \in Entries, WillPost(e), ~disturbed
          PROVE  FALSE
      BY <2>1 DEF ChainInv, OneChain
    <2>2. ASSUME NEW e \in Entries, Announce(e)
          PROVE  sent'.all = sent.all
      BY <2>1, <2>2 DEF Announce, WillPost
    <2>3. ASSUME NEW e \in Entries, StartRetry(e)
          PROVE  sent'.all = sent.all
      <3>1. entry[e].try \in Nat /\ disturbed \in BOOLEAN
        BY BoundsAssumption DEF ChainInv, TypeOK
      <3>2. entry[e].try > 0 \/ entry[e].try = 0
        BY <3>1
      <3> QED
        BY <2>1, <2>3, <3>1, <3>2, Zenon DEF StartRetry, CanStart, Again, WillPost
    <2>4. ASSUME NEW e \in Entries, WorkerStep(e), ~Announce(e), ~StartRetry(e)
          PROVE  sent'.all = sent.all
      BY <2>4 DEF WorkerStep, StartRun, RunFailsEarly, RunEnds, Exhausted,
                  Cancelled, Answered, ScheduleRetry, Returns, NoRetry,
                  ScheduleFails
    <2>5. CASE WorkerCrash \/ RestartRead \/ Stop \/ Delete
      BY <2>5 DEF WorkerCrash, RestartRead, Stop, Delete
    <2>6. ASSUME NEW e \in Entries, RestartCommit(e)
          PROVE  sent'.all = sent.all
      BY <2>6 DEF RestartCommit
    <2> QED
      BY <2>2, <2>3, <2>4, <2>5, <2>6 DEF Next, AdminStep
  <1> QED
    BY <1>2, ChainStarts, ChainStep, PTL DEF Spec, NoPostAfterDelivery

-----------------------------------------------------------------------------
(* While a done job has been posted less than twice and nothing excuses it,  *)
(* some entry still stands for the missing POST: a run that has not posted,  *)
(* one that is about to learn that it was refused, or the retry itself.      *)
StandsFor(e) ==
    \/ entry[e].kind = "run" /\ entry[e].at \in {"queued", "working", "announce"}
    \/ /\ sent.fresh > 0
       /\ \/ entry[e].kind = "run" /\ entry[e].at = "posting" /\ ~entry[e].delivered
          \/ entry[e].kind = "run" /\ entry[e].at = "deciding"
          \/ entry[e].kind = "retry" /\ entry[e].at = "queued"

Excused ==
    job.status # "done" \/ sent.fresh >= 2 \/ job.delivered \/ lost # "no"

OnlyRuns ==
    \A e \in Entries :
       entry[e].at \in {"working", "announce", "deciding"} => entry[e].kind = "run"

Chance == Excused \/ \E e \in Entries : StandsFor(e)

ChanceInv == TypeOK /\ OnlyRuns /\ Chance

(* A step of one entry that excuses what was excused, and after which the   *)
(* entry still stands for what it stood for.                                *)
LEMMA ChanceMoves ==
  ASSUME Chance, NEW e \in Entries,
         \A f \in Entries \ {e} : entry'[f] = entry[f],
         sent.fresh > 0 => sent'.fresh > 0,
         Excused => Excused',
         StandsFor(e) => Excused' \/ StandsFor(e)'
  PROVE  Chance'
  BY DEF Chance, StandsFor

LEMMA WorkerKeepsRuns ==
  ASSUME TypeOK, OnlyRuns, NEW e \in Entries, WorkerStep(e)
  PROVE  OnlyRuns'
  <1>0. entry \in [Entries -> Tasks]
    BY DEF TypeOK, Tasks
  <1>1. ASSUME Finish(e) PROVE OnlyRuns'
    BY <1>0, <1>1 DEF Finish, GoneEntry, FreeEntry, OnlyRuns
  <1>2. ASSUME NEW try, Post(e, try) PROVE OnlyRuns'
    BY <1>0, <1>2 DEF Post, OnlyRuns
  <1>3. ASSUME NEW s, GoTo(e, s), entry[e].kind = "run" PROVE OnlyRuns'
    BY <1>0, <1>3 DEF GoTo, OnlyRuns, Tasks
  <1>4. CASE StartRun(e)
    <2>1. CASE ~Exists
      BY <1>1, <1>4, <2>1 DEF StartRun
    <2>2. CASE Exists
      <3>1. /\ entry' = [entry EXCEPT ![e].at = "working", ![e].try = @ + 1]
            /\ entry[e].kind = "run" /\ entry[e] \in Tasks
        BY <1>0, <1>4, <2>2 DEF StartRun
      <3>2. entry'[e].kind = "run" /\ \A f \in Entries \ {e} : entry'[f] = entry[f]
        BY <1>0, <3>1 DEF Tasks
      <3> QED
        BY <3>2 DEF OnlyRuns
    <2> QED
      BY <2>1, <2>2
  <1>5. CASE RunFailsEarly(e) \/ Exhausted(e) \/ Cancelled(e) \/ Returns(e)
               \/ NoRetry(e) \/ ScheduleFails(e)
    BY <1>1, <1>5 DEF RunFailsEarly, Exhausted, Cancelled, Returns, NoRetry,
                      ScheduleFails
  <1>6. CASE RunEnds(e)
    BY <1>1, <1>3, <1>6 DEF RunEnds, OnlyRuns
  <1>7. CASE Announce(e) \/ StartRetry(e)
    BY <1>1, <1>2, <1>7 DEF Announce, StartRetry
  <1>8. ASSUME NEW ok \in BOOLEAN, Answered(e, ok) PROVE OnlyRuns'
    BY <1>1, <1>3, <1>8 DEF Answered
  <1>9. ASSUME NEW f \in Entries, ScheduleRetry(e, f) PROVE OnlyRuns'
    <2>1. Queued("retry", Delay(job.attempts)).at = "queued"
      BY DEF Queued, FreeEntry
    <2> QED
      BY <1>0, <1>9, <2>1 DEF ScheduleRetry, OnlyRuns, Tasks
  <1> QED
    BY <1>4, <1>5, <1>6, <1>7, <1>8, <1>9 DEF WorkerStep

LEMMA WorkerKeepsChance ==
  ASSUME ChanceInv, NEW e \in Entries, WorkerStep(e)
  PROVE  Chance'
  <1>0. /\ TypeOK /\ OnlyRuns /\ Chance
        /\ entry \in [Entries -> Tasks] /\ sent.fresh \in 0..2
        /\ sent.all \in Nat /\ job \in Jobs
    BY DEF ChanceInv, TypeOK, Tasks
  <1>1. ASSUME Finish(e)
        PROVE  \A f \in Entries \ {e} : entry'[f] = entry[f]
    BY <1>1 DEF Finish
  <1>2. ASSUME NEW s, GoTo(e, s)
        PROVE  /\ \A f \in Entries \ {e} : entry'[f] = entry[f]
               /\ entry'[e].at = s /\ entry'[e].kind = entry[e].kind
    <2>1. entry[e] \in Tasks
      BY <1>0
    <2> QED
      BY <1>0, <1>2, <2>1 DEF GoTo, Tasks
  <1>3. ASSUME job'.status # "done" \/ lost' # "no"
        PROVE  Chance'
    BY <1>3 DEF Chance, Excused
  <1>4. ASSUME NEW try, Post(e, try)
        PROVE  /\ \A f \in Entries \ {e} : entry'[f] = entry[f]
               /\ entry'[e].at = "posting" /\ entry'[e].kind = entry[e].kind
               /\ entry'[e].delivered = job.delivered
               /\ sent'.fresh = OnceMore(sent.fresh)
               /\ sent'.fresh > 0 /\ (sent.fresh > 0 => sent'.fresh = 2)
               /\ UNCHANGED <<job, lost>>
    BY <1>0, <1>4 DEF Post, OnceMore, Tasks
  <1>a. CASE StartRun(e)
    BY <1>a, <1>0, <1>3 DEF StartRun, Exists, Jobs
  <1>b. CASE RunFailsEarly(e)
    BY <1>b, <1>0, <1>3 DEF RunFailsEarly, Exists, Jobs
  <1>c. CASE RunEnds(e)
    <2>1. CASE ~Exists
      BY <1>c, <2>1, <1>3 DEF RunEnds, Exists
    <2>2. CASE Exists
      <3>1. entry'[e].kind = "run" /\ entry'[e].at = "announce"
        BY <1>c, <2>2, <1>0, <1>2 DEF RunEnds, OnlyRuns
      <3> QED
        BY <3>1 DEF Chance, StandsFor
    <2> QED
      BY <2>1, <2>2
  <1>d. CASE Announce(e)
    <2>1. CASE ~Exists
      BY <1>d, <2>1, <1>3 DEF Announce, Exists
    <2>2. CASE Exists
      <3>1. Post(e, entry[e].try) /\ entry[e].kind = "run"
        BY <1>d, <2>2, <1>0 DEF Announce, OnlyRuns
      <3>2. CASE job.delivered
        BY <3>1, <3>2, <1>4 DEF Chance, Excused
      <3>3. CASE ~job.delivered
        BY <3>1, <3>3, <1>4 DEF Chance, StandsFor
      <3> QED
        BY <3>2, <3>3
    <2> QED
      BY <2>1, <2>2
  <1>e. CASE StartRetry(e)
    <2>1. CASE ~Exists
      BY <1>e, <2>1, <1>3 DEF StartRetry, Exists
    <2>2. CASE Exists
      <3>1. Post(e, entry[e].try + 1) /\ entry[e].kind = "retry"
        BY <1>e, <2>2 DEF StartRetry
      <3>2. StandsFor(e) => Excused'
        BY <3>1, <1>4 DEF StandsFor, Excused
      <3>3. Excused => Excused'
        BY <3>1, <1>0, <1>4 DEF Excused
      <3> QED
        BY <3>1, <3>2, <3>3, <1>0, <1>4, ChanceMoves
    <2> QED
      BY <2>1, <2>2
  <1>f. CASE Exhausted(e) \/ Cancelled(e) \/ ScheduleFails(e)
    BY <1>f, <1>3 DEF Exhausted, Cancelled, ScheduleFails
  <1>g. CASE Returns(e)
    <2>1. Excused => Excused'
      BY <1>g DEF Returns, Excused
    <2>2. ~StandsFor(e)
      BY <1>g DEF Returns, StandsFor
    <2> QED
      BY <1>g, <2>1, <2>2, <1>0, <1>1, ChanceMoves DEF Returns
  <1>h. CASE NoRetry(e)
    <2>1. ~Exists \/ job.attempts >= MaxAttempts \/ job.delivered
      BY <1>h, <1>0 DEF NoRetry, RetryWanted, MaxAttempts, Jobs
    <2> QED
      BY <1>h, <2>1 DEF NoRetry, Exists, Chance, Excused
  <1>i. ASSUME NEW ok \in BOOLEAN, Answered(e, ok) PROVE Chance'
    <2>1. CASE ~Exists
      BY <1>i, <2>1, <1>3 DEF Answered, Exists
    <2>2. CASE Exists
      <3>1. /\ Copy(e) \in [attempts : Nat, delivered : BOOLEAN]
            /\ Copy(e).delivered = entry[e].delivered
        BY <1>0 DEF Copy, Tasks
      <3>2. /\ job'.status = job.status /\ (job.delivered => job'.delivered)
            /\ ok /\ ~entry[e].delivered => job'.delivered
        BY <1>i, <2>2, <3>1, <1>0, CountedColumns DEF Answered
      <3>3. Excused => Excused'
        BY <1>i, <3>2 DEF Answered, Excused
      <3>4. StandsFor(e) => Excused' \/ StandsFor(e)'
        <4> SUFFICES ASSUME StandsFor(e)
                     PROVE  Excused' \/ StandsFor(e)'
          OBVIOUS
        <4>1. entry[e].kind = "run" /\ sent.fresh > 0 /\ ~entry[e].delivered
          BY <1>i DEF Answered, StandsFor
        <4>2. CASE ok
          BY <4>1, <4>2, <3>2 DEF Excused
        <4>3. CASE ~ok
          <5>1. GoTo(e, "deciding") /\ UNCHANGED sent
            BY <1>i, <2>2, <4>1, <4>3 DEF Answered
          <5>2. entry'[e].at = "deciding" /\ entry'[e].kind = "run"
            BY <5>1, <4>1, <1>2
          <5> QED
            BY <5>1, <5>2, <4>1 DEF StandsFor
        <4> QED
          BY <4>2, <4>3
      <3>5. \A f \in Entries \ {e} : entry'[f] = entry[f]
        BY <1>i, <1>1, <1>2 DEF Answered
      <3> QED
        BY <1>i, <3>3, <3>4, <3>5, <1>0, ChanceMoves DEF Answered
    <2> QED
      BY <2>1, <2>2
  <1>j. ASSUME NEW f \in Entries, ScheduleRetry(e, f) PROVE Chance'
    <2>1. /\ UNCHANGED <<job, sent, lost>> /\ e # f
          /\ entry[e].at = "deciding" /\ entry[f].at = "free"
      BY <1>j DEF ScheduleRetry, NextFree
    <2>2. /\ Queued("retry", Delay(job.attempts)).at = "queued"
          /\ Queued("retry", Delay(job.attempts)).kind = "retry"
      BY DEF Queued, FreeEntry
    <2>3. /\ entry'[f].kind = "retry" /\ entry'[f].at = "queued"
          /\ \A g \in Entries \ {e, f} : entry'[g] = entry[g]
      BY <1>j, <2>1, <2>2, <1>0 DEF ScheduleRetry
    <2>4. CASE Excused
      BY <2>1, <2>4 DEF Excused, Chance
    <2>5. CASE StandsFor(e)
      BY <2>1, <2>3, <2>5 DEF StandsFor, Chance
    <2>6. ASSUME NEW g \in Entries \ {e, f}, StandsFor(g)
          PROVE  Chance'
      BY <2>1, <2>3, <2>6 DEF StandsFor, Chance
    <2>7. ~StandsFor(f)
      BY <2>1 DEF StandsFor
    <2> QED
      BY <2>4, <2>5, <2>6, <2>7, <1>0 DEF Chance
  <1> QED
    BY <1>a, <1>b, <1>c, <1>d, <1>e, <1>f, <1>g, <1>h, <1>i, <1>j DEF WorkerStep

LEMMA ChanceStep == ChanceInv /\ [Next]_vars => ChanceInv'
  <1> SUFFICES ASSUME ChanceInv, [Next]_vars
               PROVE  ChanceInv'
    OBVIOUS
  <1>0. TypeOK /\ OnlyRuns /\ Chance /\ TypeOK' /\ entry \in [Entries -> Tasks]
    BY NextTyped DEF ChanceInv, TypeOK, Tasks
  <1>1. CASE UNCHANGED vars
    BY <1>1, <1>0 DEF ChanceInv, OnlyRuns, Chance, Excused, StandsFor, vars
  <1>2. ASSUME NEW e \in Entries, WorkerStep(e)
        PROVE  ChanceInv'
    BY <1>0, <1>2, WorkerKeepsRuns, WorkerKeepsChance DEF ChanceInv
  <1>3. CASE WorkerCrash
    <2>1. \A e \in Entries :
             IF entry[e].at \in Started
               THEN entry'[e].at = "queued" /\ entry'[e].kind = entry[e].kind
               ELSE entry'[e] = entry[e]
      BY <1>3 DEF WorkerCrash, Queued, FreeEntry
    <2>2. \A e \in Entries : StandsFor(e) => StandsFor(e)'
      BY <1>3, <2>1 DEF WorkerCrash, StandsFor, Started, Blocking
    <2>3. Chance'
      BY <1>3, <1>0, <2>2 DEF WorkerCrash, Chance, Excused
    <2>4. OnlyRuns'
      BY <2>1, <1>0 DEF OnlyRuns
    <2> QED
      BY <1>0, <2>3, <2>4 DEF ChanceInv
  <1>4. CASE RestartRead
    BY <1>4, <1>0 DEF RestartRead, ChanceInv, OnlyRuns, Chance, Excused, StandsFor
  <1>5. CASE Stop \/ Delete
    <2>1. job'.status # "done" /\ UNCHANGED entry
      BY <1>5, <1>0 DEF Stop, Delete, NoJob, TypeOK, Jobs
    <2> QED
      BY <1>0, <2>1 DEF ChanceInv, OnlyRuns, Chance, Excused
  <1>6. ASSUME NEW e \in Entries, RestartCommit(e)
        PROVE  ChanceInv'
    <2>1. Queued("run", 0).at = "queued" /\ Queued("run", 0).kind = "run"
      BY DEF Queued, FreeEntry
    <2>2. /\ entry'[e].at = "queued" /\ entry'[e].kind = "run"
          /\ \A f \in Entries \ {e} : entry'[f] = entry[f]
      BY <1>6, <1>0, <2>1 DEF RestartCommit
    <2> QED
      BY <1>0, <2>2 DEF ChanceInv, OnlyRuns, Chance, StandsFor
  <1> QED
    BY <1>1, <1>2, <1>3, <1>4, <1>5, <1>6 DEF Next, AdminStep

-----------------------------------------------------------------------------
(* Without a restart or a re-delivery: how many POSTs an entry that is       *)
(* going to post finds made, and what it finds counted.                     *)
InStep(e) ==
    /\ entry[e].kind = "run" =>
          /\ entry[e].at \in {"queued", "working", "announce"} =>
                sent.all = 0 /\ job.attempts = 0
          /\ entry[e].at = "posting" => sent.all = 1 /\ entry[e].attempts = 0
          /\ entry[e].at = "deciding" =>
                sent.all = 1 /\ (Exists => job.attempts = 1)
    /\ entry[e].kind = "retry" /\ entry[e].at = "queued" => sent.all = 1

SecondDelay(e) == entry[e].kind = "retry" => entry[e].delay = RetryDelays[2]

OnlyTwo ==
    ~disturbed =>
       /\ lost # "limit" /\ sent.all <= 2
       /\ \A e \in Entries : SecondDelay(e)
       /\ \A e \in Entries : WillPost(e) => InStep(e)

TwoInv == ChainInv /\ OnlyRuns /\ OnlyTwo

(* A step of the one entry that is going to post.                           *)
LEMMA TheOneMoves ==
  ASSUME TwoInv, NEW e \in Entries, WillPost(e),
         \A f \in Entries \ {e} : entry'[f] = entry[f],
         disturbed => disturbed', disturbed \in BOOLEAN, disturbed' \in BOOLEAN,
         ~disturbed' =>
            /\ lost' # "limit" /\ sent'.all <= 2
            /\ SecondDelay(e)' /\ (WillPost(e)' => InStep(e)')
  PROVE  OnlyTwo'
  <1> SUFFICES ASSUME ~disturbed' PROVE OnlyTwo'
    BY DEF OnlyTwo
  <1>1. ~disturbed
    OBVIOUS
  <1>2. \A f \in Entries \ {e} : ~WillPost(f)
    BY <1>1 DEF TwoInv, ChainInv, OneChain
  <1>3. \A f \in Entries \ {e} : ~WillPost(f)' /\ SecondDelay(f)'
    BY <1>1, <1>2 DEF TwoInv, OnlyTwo, WillPost, SecondDelay
  <1> QED
    BY <1>1, <1>3 DEF OnlyTwo

(* A step that leaves row and POSTs alone and lets nobody post.             *)
LEMMA TheOneStays ==
  ASSUME TwoInv, UNCHANGED <<job, sent>>, disturbed' = disturbed,
         lost' # "limit" \/ lost' = lost,
         \A f \in Entries : \/ entry'[f] = entry[f]
                            \/ /\ ~WillPost(f)'
                               /\ entry'[f].kind \in {"none", entry[f].kind}
                               /\ entry'[f].delay = entry[f].delay
                                    \/ entry'[f].kind = "none"
  PROVE  OnlyTwo'
  <1> SUFFICES ASSUME ~disturbed' PROVE OnlyTwo'
    BY DEF OnlyTwo
  <1>1. \A f \in Entries : SecondDelay(f)'
    BY DEF TwoInv, OnlyTwo, SecondDelay
  <1>2. ASSUME NEW f \in Entries, WillPost(f)' PROVE InStep(f)'
    <2>1. entry'[f] = entry[f]
      BY <1>2
    <2>2. WillPost(f) /\ InStep(f)
      BY <1>2, <2>1 DEF WillPost, TwoInv, OnlyTwo
    <2> QED
      BY <2>1, <2>2 DEF InStep, Exists
  <1> QED
    BY <1>1, <1>2 DEF TwoInv, OnlyTwo

LEMMA WorkerKeepsTwo ==
  ASSUME TwoInv, NEW e \in Entries, WorkerStep(e)
  PROVE  OnlyTwo'
  <1>0. /\ TypeOK /\ TypeOK' /\ OnlyRuns /\ entry \in [Entries -> Tasks]
        /\ entry[e] \in Tasks /\ entry[e].try \in Nat /\ job \in Jobs
        /\ sent.all \in Nat /\ disturbed \in BOOLEAN /\ disturbed' \in BOOLEAN
    <2>1. TypeOK /\ TypeOK' /\ OnlyRuns
      BY WorkerTyped DEF TwoInv, ChainInv
    <2>2. entry \in [Entries -> Tasks] /\ job \in Jobs /\ sent.all \in Nat
      BY <2>1 DEF TypeOK, Tasks
    <2>3. disturbed \in BOOLEAN /\ disturbed' \in BOOLEAN
      BY <2>1 DEF TypeOK
    <2>4. entry[e] \in Tasks /\ entry[e].try \in Nat
      BY <2>2, BoundsAssumption DEF Tasks
    <2> QED
      BY <2>1, <2>2, <2>3, <2>4
  <1>1. ~disturbed => /\ lost # "limit" /\ sent.all <= 2 /\ SecondDelay(e)
                      /\ (WillPost(e) => InStep(e))
    BY DEF TwoInv, OnlyTwo
  <1>2. ASSUME Finish(e)
        PROVE  /\ \A f \in Entries \ {e} : entry'[f] = entry[f]
               /\ ~WillPost(e)' /\ SecondDelay(e)' /\ entry'[e].kind = "none"
    BY <1>0, <1>2 DEF Finish, GoneEntry, FreeEntry, WillPost, SecondDelay
  <1>3. ASSUME NEW s, GoTo(e, s)
        PROVE  /\ \A f \in Entries \ {e} : entry'[f] = entry[f]
               /\ entry'[e].at = s
               /\ entry'[e].kind = entry[e].kind /\ entry'[e].delay = entry[e].delay
               /\ (SecondDelay(e) => SecondDelay(e)')
    BY <1>0, <1>3 DEF GoTo, Tasks, SecondDelay
  <1>4. ASSUME NEW try, Post(e, try), entry[e].kind \in {"run", "retry"},
               ~disturbed => IF entry[e].kind = "run"
                               THEN sent.all = 0 /\ job.attempts = 0
                               ELSE sent.all = 1,
               WillPost(e), UNCHANGED disturbed
        PROVE  OnlyTwo'
    <2>1. /\ entry'[e] = [entry[e] EXCEPT !.at = "posting", !.try = try,
                                          !.attempts = job.attempts,
                                          !.delivered = job.delivered]
          /\ \A f \in Entries \ {e} : entry'[f] = entry[f]
          /\ sent'.all = sent.all + 1 /\ UNCHANGED <<job, lost>>
      BY <1>0, <1>4 DEF Post
    <2>2. /\ entry'[e].kind = entry[e].kind /\ entry'[e].at = "posting"
          /\ entry'[e].attempts = job.attempts /\ entry'[e].delay = entry[e].delay
      BY <2>1, <1>0 DEF Tasks
    <2>3. ~disturbed => SecondDelay(e)' /\ InStep(e)' /\ sent'.all <= 2
      BY <1>0, <1>1, <1>4, <2>1, <2>2 DEF SecondDelay, InStep
    <2> QED
      BY <1>0, <1>1, <1>4, <2>1, <2>3, TheOneMoves
  <1>5. ASSUME Again(e), entry[e].at = "queued"
        PROVE  /\ disturbed => disturbed'
               /\ ~disturbed' => ~disturbed /\ WillPost(e)
    <2>1. entry[e].try > 0 \/ entry[e].try = 0
      BY <1>0
    <2> QED
      BY <1>5, <1>0, <2>1, Zenon DEF Again, WillPost
  <1>6. disturbed' => OnlyTwo'
    BY DEF OnlyTwo
  <1>a. CASE StartRun(e)
    <2> SUFFICES ASSUME ~disturbed' PROVE OnlyTwo'
      BY <1>6
    <2>1. /\ ~disturbed /\ WillPost(e) /\ entry[e].kind = "run"
          /\ entry[e].at = "queued" /\ UNCHANGED <<sent, lost>>
      BY <1>a, <1>5 DEF StartRun, CanStart
    <2>2. sent.all = 0 /\ job.attempts = 0
      BY <1>1, <2>1 DEF InStep
    <2>3. CASE Exists
      <3>1. /\ entry' = [entry EXCEPT ![e].at = "working", ![e].try = @ + 1]
            /\ job'.attempts = job.attempts
        BY <1>a, <2>3, <1>0 DEF StartRun, Jobs
      <3>2. /\ \A f \in Entries \ {e} : entry'[f] = entry[f]
            /\ entry'[e].kind = "run" /\ entry'[e].at = "working"
        BY <3>1, <2>1, <1>0 DEF Tasks
      <3>3. InStep(e)' /\ SecondDelay(e)'
        BY <2>1, <2>2, <3>1, <3>2 DEF InStep, SecondDelay
      <3> QED
        BY <2>1, <3>2, <3>3, <1>0, <1>1, TheOneMoves
    <2>4. CASE ~Exists
      BY <1>a, <2>1, <2>4, <1>0, <1>1, <1>2, TheOneMoves DEF StartRun
    <2> QED
      BY <2>3, <2>4
  <1>b. CASE RunFailsEarly(e)
    <2>1. WillPost(e) /\ Finish(e) /\ UNCHANGED <<sent, lost, disturbed>>
      BY <1>b DEF RunFailsEarly, WillPost
    <2> QED
      BY <2>1, <1>0, <1>1, <1>2, TheOneMoves
  <1>c. CASE RunEnds(e)
    <2>1. WillPost(e) /\ entry[e].at = "working" /\ entry[e].kind = "run"
             /\ UNCHANGED <<sent, lost, disturbed>>
      BY <1>c, <1>0 DEF RunEnds, WillPost, OnlyRuns
    <2>2. CASE ~Exists
      BY <1>c, <2>1, <2>2, <1>0, <1>1, <1>2, TheOneMoves DEF RunEnds
    <2>3. CASE Exists
      <3>1. GoTo(e, "announce") /\ job'.attempts = job.attempts
        BY <1>c, <2>3, <1>0 DEF RunEnds, Jobs
      <3>2. ~disturbed => InStep(e)'
        BY <2>1, <3>1, <1>1, <1>3 DEF InStep
      <3> QED
        BY <2>1, <3>1, <3>2, <1>0, <1>1, <1>3, TheOneMoves
    <2> QED
      BY <2>2, <2>3
  <1>d. CASE Announce(e)
    <2>1. WillPost(e) /\ entry[e].at = "announce" /\ entry[e].kind = "run"
             /\ UNCHANGED disturbed
      BY <1>d, <1>0 DEF Announce, WillPost, OnlyRuns
    <2>2. ~disturbed => sent.all = 0 /\ job.attempts = 0
      BY <2>1, <1>1 DEF InStep
    <2>3. CASE Exists
      BY <1>d, <2>1, <2>2, <2>3, <1>4 DEF Announce
    <2>4. CASE ~Exists
      BY <1>d, <2>1, <2>4, <1>0, <1>1, <1>2, TheOneMoves DEF Announce
    <2> QED
      BY <2>3, <2>4
  <1>e. CASE StartRetry(e)
    <2> SUFFICES ASSUME ~disturbed' PROVE OnlyTwo'
      BY <1>6
    <2>1. /\ ~disturbed /\ WillPost(e) /\ entry[e].kind = "retry"
          /\ entry[e].at = "queued"
      BY <1>e, <1>5 DEF StartRetry, CanStart
    <2>2. sent.all = 1 /\ disturbed' = disturbed
      BY <1>0, <1>1, <2>1 DEF InStep
    <2>3. CASE Exists
      BY <1>e, <2>1, <2>2, <2>3, <1>4 DEF StartRetry
    <2>4. CASE ~Exists
      BY <1>e, <2>1, <2>4, <1>0, <1>1, <1>2, TheOneMoves DEF StartRetry
    <2> QED
      BY <2>3, <2>4
  <1>f. CASE Exhausted(e) \/ Cancelled(e) \/ ScheduleFails(e) \/ Returns(e)
    <2>1. /\ Finish(e) /\ UNCHANGED <<job, sent, disturbed>>
          /\ lost' # "limit" \/ lost' = lost
      BY <1>f DEF Exhausted, Cancelled, ScheduleFails, Returns
    <2> QED
      BY <2>1, <1>2, TheOneStays
  <1>g. CASE NoRetry(e)
    <2>1. /\ Finish(e) /\ UNCHANGED <<job, sent, disturbed>>
          /\ entry[e].at = "deciding" /\ WillPost(e) /\ entry[e].kind = "run"
      BY <1>g, <1>0 DEF NoRetry, WillPost, OnlyRuns
    <2>2. ~disturbed => lost' # "limit"
      <3> SUFFICES ASSUME ~disturbed PROVE lost' # "limit"
        OBVIOUS
      <3>1. Exists => job.attempts = 1
        BY <2>1, <1>1 DEF InStep
      <3> QED
        BY <1>g, <1>1, <3>1 DEF NoRetry, MaxAttempts
    <2> QED
      BY <2>1, <2>2, <1>0, <1>1, <1>2, TheOneMoves
  <1>h. ASSUME NEW ok \in BOOLEAN, Answered(e, ok)
        PROVE  OnlyTwo'
    <2>1. WillPost(e) /\ entry[e].at = "posting"
             /\ UNCHANGED <<sent, lost, disturbed>>
      BY <1>h DEF Answered, WillPost
    <2>2. CASE Exists /\ ~ok /\ entry[e].kind = "run"
      <3>1. /\ Copy(e) \in [attempts : Nat, delivered : BOOLEAN]
            /\ Copy(e).attempts = entry[e].attempts
        BY <1>0 DEF Copy, Tasks
      <3>2. job'.attempts = entry[e].attempts + 1 /\ GoTo(e, "deciding")
        BY <1>h, <2>2, <3>1, <1>0, CountedColumns DEF Answered
      <3>3. ~disturbed => InStep(e)'
        BY <2>1, <2>2, <3>2, <1>1, <1>3 DEF InStep
      <3> QED
        BY <2>1, <3>2, <3>3, <1>0, <1>1, <1>3, TheOneMoves
    <2>3. CASE ~(Exists /\ ~ok /\ entry[e].kind = "run")
      BY <1>h, <2>1, <2>3, <1>0, <1>1, <1>2, TheOneMoves DEF Answered
    <2> QED
      BY <2>2, <2>3
  <1>i. ASSUME NEW f \in Entries, ScheduleRetry(e, f)
        PROVE  OnlyTwo'
    <2> SUFFICES ASSUME ~disturbed' PROVE OnlyTwo'
      BY <1>6
    <2>1. /\ WillPost(e) /\ e # f /\ entry[e].at = "deciding"
          /\ entry[e].kind = "run" /\ Exists /\ ~disturbed
          /\ UNCHANGED <<job, sent, lost, disturbed>>
      BY <1>i, <1>0 DEF ScheduleRetry, WillPost, NextFree, RetryWanted, OnlyRuns
    <2>2. sent.all = 1 /\ job.attempts = 1
      BY <2>1, <1>1 DEF InStep
    <2>3. Delay(job.attempts) = RetryDelays[2]
      BY <2>2 DEF Delay, RetryDelays
    <2>4. /\ Queued("retry", RetryDelays[2]).kind = "retry"
          /\ Queued("retry", RetryDelays[2]).delay = RetryDelays[2]
      BY DEF Queued, FreeEntry
    <2>5. /\ entry'[e] = [entry[e] EXCEPT !.at = "returning"]
          /\ entry'[f] = Queued("retry", RetryDelays[2])
          /\ \A g \in Entries \ {e, f} : entry'[g] = entry[g]
      BY <1>i, <1>0, <2>1, <2>3 DEF ScheduleRetry
    <2>6. ~WillPost(e)' /\ SecondDelay(e)'
      BY <2>1, <2>5, <1>0 DEF WillPost, SecondDelay, Tasks
    <2>7. SecondDelay(f)' /\ InStep(f)'
      BY <2>1, <2>2, <2>4, <2>5 DEF SecondDelay, InStep
    <2>8. \A g \in Entries \ {e, f} : ~WillPost(g)' /\ SecondDelay(g)'
      <3>1. \A g \in Entries \ {e} : ~WillPost(g)
        BY <2>1 DEF TwoInv, ChainInv, OneChain
      <3> QED
        BY <2>1, <2>5, <3>1 DEF WillPost, SecondDelay, TwoInv, OnlyTwo
    <2> QED
      BY <2>1, <2>6, <2>7, <2>8, <1>1 DEF OnlyTwo
  <1> QED
    BY <1>a, <1>b, <1>c, <1>d, <1>e, <1>f, <1>g, <1>h, <1>i DEF WorkerStep

LEMMA TwoStep == TwoInv /\ [Next]_vars => TwoInv'
  <1> SUFFICES ASSUME TwoInv, [Next]_vars
               PROVE  TwoInv'
    OBVIOUS
  <1>0. ChainInv' /\ TypeOK /\ OnlyRuns
    BY ChainStep DEF TwoInv, ChainInv
  <1>1. CASE UNCHANGED vars
    BY <1>0, <1>1 DEF TwoInv, OnlyRuns, OnlyTwo, SecondDelay, InStep, WillPost,
                      Exists, vars
  <1>2. ASSUME NEW e \in Entries, WorkerStep(e)
        PROVE  TwoInv'
    BY <1>0, <1>2, WorkerKeepsRuns, WorkerKeepsTwo DEF TwoInv
  <1>3. CASE WorkerCrash
    <2>1. \A e \in Entries :
             \/ entry'[e] = entry[e]
             \/ /\ entry'[e].at = "queued" /\ entry'[e].try > 0
                /\ entry'[e].kind = entry[e].kind
                /\ entry'[e].delay = entry[e].delay
      BY <1>3 DEF WorkerCrash, Queued, FreeEntry, TwoInv, ChainInv
    <2>2. OnlyTwo'
      <3>1. \A e \in Entries : entry'[e].try > 0 => entry'[e].try # 0
        BY BoundsAssumption DEF TwoInv, ChainInv, TypeOK
      <3> QED
        BY <1>3, <2>1, <3>1, TheOneStays DEF WorkerCrash, WillPost
    <2>3. OnlyRuns'
      BY <2>1, <1>0 DEF OnlyRuns
    <2> QED
      BY <1>0, <2>2, <2>3 DEF TwoInv
  <1>4. CASE RestartRead
    BY <1>0, <1>4, TheOneStays DEF RestartRead, TwoInv, OnlyRuns
  <1>5. CASE Stop \/ Delete
    <2>1. /\ UNCHANGED <<entry, sent, lost, disturbed>>
          /\ job'.attempts \in {0, job.attempts}
          /\ Exists' => job'.attempts = job.attempts /\ Exists
      BY <1>0, <1>5 DEF Stop, Delete, NoJob, Exists, Open, TypeOK, Jobs
    <2>2. \A e \in Entries : InStep(e) => InStep(e)'
      BY <2>1 DEF InStep
    <2> QED
      BY <1>0, <2>1, <2>2 DEF TwoInv, OnlyRuns, OnlyTwo, SecondDelay, WillPost
  <1>6. ASSUME NEW e \in Entries, RestartCommit(e)
        PROVE  TwoInv'
    <2>1. Queued("run", 0).at = "queued"
      BY DEF Queued, FreeEntry
    <2>2. entry'[e].at = "queued" /\ \A f \in Entries \ {e} : entry'[f] = entry[f]
      BY <1>0, <1>6, <2>1 DEF RestartCommit, TypeOK
    <2> QED
      BY <1>0, <1>6, <2>2 DEF TwoInv, OnlyRuns, OnlyTwo, RestartCommit
  <1> QED
    BY <1>1, <1>2, <1>3, <1>4, <1>5, <1>6 DEF Next, AdminStep

(* A done job whose receiver refused is posted to a second time, unless it   *)
(* is marked delivered or a named reason dropped a delivery; undisturbed it *)
(* is posted no third time, and the retry carries the second delay.         *)
THEOREM RefusalsAreRetried == Spec => []SecondChance
  <1>1. Init => ChanceInv /\ TwoInv
    <2> SUFFICES ASSUME Init PROVE ChanceInv /\ TwoInv
      OBVIOUS
    <2>1. /\ Queued("run", 0).at = "queued" /\ Queued("run", 0).kind = "run"
          /\ FreeEntry.at = "free" /\ FreeEntry.kind = "none"
      BY DEF Queued, FreeEntry
    <2>2. \A e \in Entries : /\ entry[e].at \in {"queued", "free"}
                             /\ entry[e].kind \in {"run", "none"}
      BY <2>1 DEF Init
    <2>3. /\ job.status = "pending" /\ job.attempts = 0 /\ sent.all = 0
          /\ lost = "no"
      BY DEF Init
    <2>4. ChanceInv
      BY <2>2, <2>3, InitTyped DEF ChanceInv, OnlyRuns, Chance, Excused
    <2>5. OnlyTwo
      BY <2>2, <2>3 DEF OnlyTwo, SecondDelay, InStep, WillPost
    <2> QED
      BY <2>4, <2>5, ChainStarts DEF TwoInv, ChanceInv
  <1>2. ChanceInv /\ TwoInv => SecondChance
    <2> SUFFICES ASSUME ChanceInv, TwoInv PROVE SecondChance
      OBVIOUS
    <2>1. Quiet => \A e \in Entries : ~StandsFor(e)
      BY DEF Quiet, Alive, StandsFor
    <2>2. Quiet => Excused
      BY <2>1 DEF ChanceInv, Chance
    <2> QED
      BY <2>2 DEF Excused, SecondChance, TwoInv, OnlyTwo, SecondDelay
  <1> QED
    BY <1>1, <1>2, ChanceStep, TwoStep, PTL DEF Spec

=============================================================================
