------------------------------ MODULE GpuFleet ------------------------------
(***************************************************************************)
(* The rented GPUs: app/services/gpu_manager.py, which the worker calls    *)
(* before each vision run, and scripts/scaleway-deploy/auto-shutdown.sh,   *)
(* which every minute decides on each box whether to switch it off.  The   *)
(* two share nothing but the boxes.  Candidate 1 is the primary, 2 the     *)
(* fallback; time passes in minutes (Tick).  The worker runs one job at a  *)
(* time, since both gpu_manager and the pipeline block its event loop.     *)
(***************************************************************************)
EXTENDS Naturals

CONSTANTS
    N,              \* candidates that can be configured
    BootMinutes,    \* _BOOT_TIMEOUT_SECONDS, in minutes
    MaxJobs,        \* jobs in the queue
    BoxFaults          \* a subset of AllBoxFaults

AllBoxFaults == {"stock", "api", "revert", "vllm", "probe"}

ASSUME FleetAssumption ==
    /\ N \in Nat /\ BootMinutes \in Nat \ {0} /\ MaxJobs \in Nat
    /\ BoxFaults \subseteq AllBoxFaults

Candidates == 1..N

(* IDLE_THRESHOLD_SECONDS, in minutes.                                     *)
IdleMinutes == 2

VARIABLES
    config,   \* .env: n candidates, Scaleway credentials
    box,      \* off, starting (the VM boots), loading (no /v1/models yet),
              \* warming (/v1/models is 200, inference is not), serving,
              \* failed (the VM is on, the vllm service is not)
    timer,    \* minutes since the time in IDLE_FILE, NoTimer without a file
    check,    \* the script: due, done in this minute, decided to switch off
    busy,     \* a request of a job is in flight on the box
    quiet,    \* minutes since a request was last in flight (history)
    worker,   \* where it is, and on which candidate
    waited,   \* minutes since _wait_for_backend began
    verdict,  \* why this call of ensure_any_gpu_running gave up a candidate
    jobs      \* jobs not started yet

fleetVars == <<config, box, timer, check, busy, quiet, worker, waited, verdict, jobs>>
boxes == <<config, box, timer, check, busy, quiet>>

NoTimer == IdleMinutes + 1
NoVerdict == [c \in Candidates |-> "none"]

On(c) == box[c] # "off"
Serves(c) == box[c] = "serving"

-----------------------------------------------------------------------------
(* THE WORKER.                                                             *)

WorkerAt(pc, c) == worker' = [pc |-> pc, at |-> c]
At(pc) == worker.pc = pc
c0 == worker.at

FleetInit ==
    /\ config \in [n : 0..N, credentials : BOOLEAN]
    /\ box \in [Candidates -> {"off", "serving"}]
    /\ \A c \in Candidates : c > config.n => box[c] = "off"
    /\ timer = [c \in Candidates |-> NoTimer]
    /\ check = [c \in Candidates |-> "done"]
    /\ busy = [c \in Candidates |-> FALSE]
    /\ quiet = [c \in Candidates |-> IdleMinutes]
    /\ worker = [pc |-> "idle", at |-> 0]
    /\ waited = 0 /\ verdict = NoVerdict /\ jobs = MaxJobs

(* A job of the CPU parser never asks for a GPU.                           *)
StartJob ==
    /\ At("idle") /\ jobs > 0
    /\ jobs' = jobs - 1
    /\ verdict' = NoVerdict
    /\ \/ WorkerAt("cpu", 0)
       \/ IF config.n = 0 THEN WorkerAt("using", 0) ELSE WorkerAt("probe", 1)
    /\ UNCHANGED <<boxes, waited>>

(* The fast path: /v1/models and the smoke test.                           *)
ProbeHits ==
    /\ At("probe") /\ Serves(c0)
    /\ WorkerAt("using", c0)
    /\ UNCHANGED <<boxes, waited, verdict, jobs>>

(* Without credentials it waits for the primary and for no other.          *)
ProbeMisses ==
    /\ At("probe") /\ (~Serves(c0) \/ "probe" \in BoxFaults)
    /\ \/ c0 < config.n /\ WorkerAt("probe", c0 + 1)
       \/ c0 = config.n /\ config.credentials /\ WorkerAt("poweron", 1)
       \/ c0 = config.n /\ ~config.credentials /\ WorkerAt("wait", 1)
    /\ waited' = 0
    /\ UNCHANGED <<boxes, verdict, jobs>>

\* Mutant: one candidate too many.
GiveUpOneMore(why) ==
    /\ verdict' = [verdict EXCEPT ![c0] = why]
    /\ IF c0 <= config.n THEN WorkerAt("poweron", c0 + 1) ELSE WorkerAt("raised", 0)

\* Mutant: the first refusal ends the search.
GiveUpAtOnce(why) ==
    /\ verdict' = [verdict EXCEPT ![c0] = why]
    /\ WorkerAt("raised", 0)

GiveUp(why) ==
    /\ verdict' = [verdict EXCEPT ![c0] = why]
    /\ IF c0 < config.n THEN WorkerAt("poweron", c0 + 1) ELSE WorkerAt("raised", 0)

Started(c) ==
    /\ box' = [box EXCEPT ![c] = "starting"]
    /\ timer' = [timer EXCEPT ![c] = NoTimer]   \* /tmp is empty after a boot
    /\ check' = [check EXCEPT ![c] = "due"]
    /\ UNCHANGED <<config, busy, quiet>>

(* A box that is on may accept the poweron and go on as before.            *)
PowerOnOk ==
    /\ At("poweron")
    /\ IF On(c0) THEN UNCHANGED boxes ELSE Started(c0)
    /\ WorkerAt("hold", c0)
    /\ UNCHANGED <<waited, verdict, jobs>>

PowerOnRefused ==
    /\ At("poweron")
    /\ \/ "stock" \in BoxFaults /\ ~On(c0) /\ GiveUp("out_of_stock")
       \/ ("api" \in BoxFaults \/ On(c0)) /\ GiveUp("error")
    /\ UNCHANGED <<boxes, waited, jobs>>

(* _verify_poweron_holds; a state that cannot be read counts as holding.   *)
Reverted ==
    /\ At("hold") /\ ~On(c0)
    /\ GiveUp("reverted")
    /\ UNCHANGED <<boxes, waited, jobs>>

Holds ==
    /\ At("hold") /\ (On(c0) \/ "api" \in BoxFaults)
    /\ WorkerAt("wait", c0)
    /\ waited' = 0
    /\ UNCHANGED <<boxes, verdict, jobs>>

BootedInTime ==
    /\ At("wait") /\ waited < BootMinutes /\ Serves(c0)
    /\ WorkerAt("using", c0)
    /\ UNCHANGED <<boxes, waited, verdict, jobs>>

\* Mutant: the loop has no deadline.
WaitsForEver == FALSE

(* The box is left as it is.                                               *)
BootTimeout ==
    /\ At("wait") /\ waited = BootMinutes
    /\ IF config.credentials THEN GiveUp("timeout")
       ELSE WorkerAt("raised", 0) /\ UNCHANGED verdict
    /\ UNCHANGED <<boxes, waited, jobs>>

(* RuntimeError: the job fails.                                            *)
JobFails ==
    /\ At("raised")
    /\ WorkerAt("idle", 0)
    /\ UNCHANGED <<boxes, waited, verdict, jobs>>

(* The requests of the pages, with pauses between them.                    *)
Request ==
    /\ At("using") /\ c0 # 0 /\ Serves(c0)
    /\ busy' = [busy EXCEPT ![c0] = ~@]
    /\ quiet' = [quiet EXCEPT ![c0] = 0]
    /\ UNCHANGED <<config, box, timer, check, worker, waited, verdict, jobs>>

(* The subprocess ends, or is killed by its time limit.                    *)
JobEnds ==
    /\ At("using") \/ At("cpu")
    /\ busy' = [c \in Candidates |-> FALSE]
    /\ WorkerAt("idle", 0)
    /\ UNCHANGED <<config, box, timer, check, quiet, waited, verdict, jobs>>

-----------------------------------------------------------------------------
(* A BOX AND ITS SHUTDOWN SCRIPT.                                          *)

Off(c) ==
    /\ box' = [box EXCEPT ![c] = "off"]
    /\ timer' = [timer EXCEPT ![c] = NoTimer]
    /\ check' = [check EXCEPT ![c] = "done"]
    /\ busy' = [busy EXCEPT ![c] = FALSE]

Boot(c) ==
    /\ box[c] \in {"starting", "loading", "warming"}
    /\ box' = [box EXCEPT ![c] = CASE @ = "starting" -> "loading"
                                   [] @ = "loading" -> "warming"
                                   [] @ = "warming" -> "serving"]
    /\ UNCHANGED <<config, timer, check, busy, quiet, worker, waited, verdict, jobs>>

VllmDies(c) ==
    /\ "vllm" \in BoxFaults /\ box[c] \in {"loading", "warming", "serving"}
    /\ box' = [box EXCEPT ![c] = "failed"]
    /\ busy' = [busy EXCEPT ![c] = FALSE]
    /\ UNCHANGED <<config, timer, check, quiet, worker, waited, verdict, jobs>>

(* Restart=always; it comes back only if docker and the model let it.      *)
VllmRestarts(c) ==
    /\ box[c] = "failed"
    /\ box' = [box EXCEPT ![c] = "loading"]
    /\ UNCHANGED <<config, timer, check, busy, quiet, worker, waited, verdict, jobs>>

(* Scaleway takes back a box it had just switched on.                      *)
Revert(c) ==
    /\ "revert" \in BoxFaults /\ box[c] \in {"starting", "loading"}
    /\ Off(c)
    /\ UNCHANGED <<config, quiet, worker, waited, verdict, jobs>>

(* ACTIVE: warming up, that is the service runs and /v1/models is not 200, *)
(* or requests in flight.                                                  *)
Active(c) == box[c] = "loading" \/ busy[c]

(* Without the service the curl in the pipeline fails, and with set -e and *)
(* pipefail the script ends there.                                         *)
Aborts(c) == box[c] \in {"starting", "failed"}

Checked(c, state) == check' = [check EXCEPT ![c] = state]

CheckAborts(c) ==
    /\ check[c] = "due" /\ Aborts(c)
    /\ Checked(c, "done")
    /\ UNCHANGED <<config, box, timer, busy, quiet, worker, waited, verdict, jobs>>

ResetTimer(c) ==
    /\ check[c] = "due" /\ On(c) /\ ~Aborts(c)
    /\ Active(c) \/ timer[c] = NoTimer
    /\ timer' = [timer EXCEPT ![c] = 0]
    /\ Checked(c, "done")
    /\ UNCHANGED <<config, box, busy, quiet, worker, waited, verdict, jobs>>

\* Mutant: the script never decides.
LookAtTimerOnly(c) ==
    /\ check[c] = "due" /\ On(c) /\ ~Aborts(c)
    /\ ~Active(c) /\ timer[c] # NoTimer
    /\ Checked(c, "done")
    /\ UNCHANGED <<config, box, timer, busy, quiet, worker, waited, verdict, jobs>>

LookAtTimer(c) ==
    /\ check[c] = "due" /\ On(c) /\ ~Aborts(c)
    /\ ~Active(c) /\ timer[c] # NoTimer
    /\ Checked(c, IF timer[c] >= IdleMinutes THEN "decided" ELSE "done")
    /\ UNCHANGED <<config, box, timer, busy, quiet, worker, waited, verdict, jobs>>

(* By the API, or 15 seconds later by /sbin/poweroff.                      *)
PowerOff(c) ==
    /\ check[c] = "decided"
    /\ Off(c)
    /\ UNCHANGED <<config, quiet, worker, waited, verdict, jobs>>

(* A minute passes: every script has run, and the worker is not between    *)
(* two steps that take no time.                                            *)
Tick ==
    /\ \A c \in Candidates : check[c] = "done"
    /\ ~At("poweron") /\ ~At("raised") /\ (At("idle") => jobs = 0)
    /\ timer' = [c \in Candidates |->
                   IF timer[c] < IdleMinutes THEN timer[c] + 1 ELSE timer[c]]
    /\ check' = [c \in Candidates |-> IF On(c) THEN "due" ELSE "done"]
    /\ waited' = IF At("wait") /\ waited < BootMinutes THEN waited + 1 ELSE waited
    /\ quiet' = [c \in Candidates |->
                   IF busy[c] THEN 0 ELSE IF quiet[c] < IdleMinutes THEN quiet[c] + 1 ELSE quiet[c]]
    /\ UNCHANGED <<config, box, busy, worker, verdict, jobs>>

WorkerStep ==
    \/ StartJob \/ ProbeHits \/ ProbeMisses
    \/ PowerOnOk \/ PowerOnRefused \/ Reverted \/ Holds
    \/ BootedInTime \/ BootTimeout \/ JobFails \/ JobEnds

Script(c) == CheckAborts(c) \/ ResetTimer(c) \/ LookAtTimer(c) \/ PowerOff(c)

FleetNext ==
    \/ WorkerStep \/ Request \/ Tick
    \/ \E c \in Candidates : Boot(c) \/ VllmDies(c) \/ VllmRestarts(c) \/ Revert(c) \/ Script(c)

FleetSpec == FleetInit /\ [][FleetNext]_fleetVars

(* The worker and the timers run, a VM that boots comes up, and a job ends  *)
(* (its subprocess has a time limit).  That a unit which is loading ever    *)
(* answers is not assumed: it may hang, active and without /v1/models.      *)
Fairness ==
    /\ WF_fleetVars(WorkerStep) /\ WF_fleetVars(Tick)
    /\ \A c \in Candidates :
          /\ WF_fleetVars(box[c] # "loading" /\ Boot(c))
          /\ WF_fleetVars(Script(c))

FairFleetSpec == FleetSpec /\ Fairness

-----------------------------------------------------------------------------
(* PROPERTIES.                                                             *)

(* The variables hold what the code can put there.                         *)
FleetTypeOK ==
    /\ config \in [n : 0..N, credentials : BOOLEAN]
    /\ box \in [Candidates -> {"off", "starting", "loading", "warming", "serving", "failed"}]
    /\ timer \in [Candidates -> 0..NoTimer]
    /\ check \in [Candidates -> {"due", "done", "decided"}]
    /\ busy \in [Candidates -> BOOLEAN] /\ quiet \in [Candidates -> 0..IdleMinutes]
    /\ worker \in [pc : {"idle", "cpu", "probe", "poweron", "hold", "wait",
                         "using", "raised"}, at : 0..N]
    /\ waited \in 0..BootMinutes
    /\ verdict \in [Candidates -> {"none", "out_of_stock", "error", "reverted", "timeout"}]
    /\ jobs \in 0..MaxJobs

(* No candidate is skipped: when the call raises every one of them was     *)
(* refused, taken back or too slow, and when it waits for the fallback     *)
(* every one before it was (gpu_manager.py:203-215).                       *)
NoCandidateSkipped ==
    config.credentials =>
        /\ At("raised") => \A c \in 1..config.n : verdict[c] # "none"
        /\ At("hold") \/ At("wait") => \A c \in 1..(c0 - 1) : verdict[c] # "none"

(* Nobody is looking for a box for ever: a job gets a box or fails.        *)
SearchEnds == At("probe") ~> (At("using") \/ At("raised"))

(* What nobody uses any more is switched off in the end, also a box that   *)
(* the worker gave up while it was booting, unless its vLLM service is     *)
(* down or loading, for good or again and again.                           *)
BillingStops ==
    \A c \in Candidates :
       <>[](~On(c)) \/ []<>(box[c] \in {"failed", "loading"})

(* The script switches the box off in this step.                           *)
SwitchesOff(c) == check[c] = "decided" /\ box'[c] = "off"

(* auto-shutdown.sh:4: "Stops the VM via Scaleway API after 2 min idle":   *)
(* no box stays on for ever, whatever state its service is in.             *)
StopsWhenIdle == <>[](\A c \in Candidates : ~On(c))

(* The same line: not before it was idle for two minutes, and not in use.  *)
IdleBeforeOff ==
    [][\A c \in Candidates : SwitchesOff(c) => quiet[c] >= IdleMinutes /\ ~busy[c]]_fleetVars

(* auto-shutdown.sh:22-24: the compilation of the graphs on a cold start   *)
(* "must not be killed, or the worker's ensure_gpu_running() polls         *)
(* forever".                                                               *)
WarmUpIsNotKilled ==
    [][\A c \in Candidates : SwitchesOff(c) => box[c] \notin {"starting", "loading", "warming"}]_fleetVars

=============================================================================
