----------------------------- MODULE JobPromise -----------------------------
(***************************************************************************)
(* What the service promises about each job it accepts, without processes, *)
(* queue or files: a job is open, comes to an end (done or failed) unless   *)
(* a failure strands it, may be opened again by an operator, and once       *)
(* removed is never seen again.  JobLifecycle implements this module.       *)
(***************************************************************************)
CONSTANT Jobs
VARIABLE phase

Phases == {"absent", "open", "settled", "stranded", "removed"}

(* The steps a client that polls may see a job take.                        *)
Moves == {<<"absent", "open">>,
          <<"open", "settled">>, <<"open", "stranded">>, <<"open", "removed">>,
          <<"stranded", "settled">>, <<"stranded", "open">>,
          <<"stranded", "removed">>,
          <<"settled", "open">>, <<"settled", "stranded">>,
          <<"settled", "removed">>}

Init == phase = [j \in Jobs |-> "absent"]

(* One commit may move several jobs: a cleanup pass, a crash of the API.    *)
Next == /\ phase' \in [Jobs -> Phases]
        /\ \A j \in Jobs : phase'[j] # phase[j] => <<phase[j], phase'[j]>> \in Moves

(* Clients are owed an end: no job stays open for ever.                     *)
Liveness == \A j \in Jobs : phase[j] = "open" ~> phase[j] # "open"

Safety == Init /\ [][Next]_phase
Spec == Safety /\ Liveness
=============================================================================
