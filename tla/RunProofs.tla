----------------------------- MODULE RunProofs -----------------------------
(***************************************************************************)
(* Theorems about a run of a job: about EngineRouting, for any documents,   *)
(* requests, faults and any number of runs, and about GpuFleet, for any     *)
(* number of candidates and jobs, any boot timeout and any faults.          *)
(***************************************************************************)
EXTENDS EngineRouting, GpuFleet, TLAPS

-----------------------------------------------------------------------------
(* The inductive invariant.                                                 *)

(* While a run is between its start and its last commit, the row is not     *)
(* done; the API's own run comes before any other.                          *)
Running == {"route", "parser", "rejected", "gpu", "vision", "save", "commit"}
NotDoneWhileRunning ==
    /\ pc \in Running => ~Done
    /\ sync => pc = "idle" /\ queued = 0 /\ run = 0 /\ row.engine = "none"

(* A run of a pinned job is never on the way to the GPU.                    *)
PinKept == requested = Parser => ~gpu /\ pc \notin {"gpu", "vision"}

(* What a run is about to save: by whom it was made, and that the parser    *)
(* made it from a document it can read.                                     *)
ResultFits ==
    /\ pc \in {"parser", "rejected"} => final = Parser
    /\ pc \in {"gpu", "vision"} => final \in VisionEngines
    /\ pc \in {"save", "commit"} =>
          /\ result.by \in {Parser, Vision}
          /\ result.by = Vision <=> final \in VisionEngines
          /\ result.by = Parser => doc = "digital"
    /\ pc = "commit" => ResultBy = result.by

(* A done job has a result, and an engine wrote it.                         *)
DoneHasResult == Done => ResultBy \in {Parser, Vision}

IInv ==
    /\ TypeOK
    /\ NotDoneWhileRunning
    /\ PinKept
    /\ ResultFits
    /\ RejectedTextIsNotServed
    /\ EngineNamesResult
    /\ DoneHasResult

LEMMA InitIInv == Init => IInv
<1> SUFFICES ASSUME Init PROVE IInv
  OBVIOUS
<1>1. TypeOK
  <2>1. sync \in BOOLEAN
    BY DEF Init
  <2>2. files \in [Names -> [engine : Engines \cup {"none"}, run : 0..MaxRuns]]
    BY ConstantsAssumption DEF Init, NoFile
  <2>3. /\ row \in [status : {"pending", "processing", "done", "failed"},
                     engine : Engines \cup {"none"}, model : BOOLEAN]
        /\ result \in [by : {"none", Parser, Vision}, pagesOk : BOOLEAN]
    BY DEF Init
  <2>4. queued \in 0..MaxRuns /\ run \in 0..MaxRuns
    BY <2>1, ConstantsAssumption DEF Init
  <2> QED
    BY <2>1, <2>2, <2>3, <2>4 DEF Init, TypeOK
<1>2. /\ ~Done /\ pc = "idle" /\ ~gpu /\ row.engine = "none" /\ run = 0
      /\ sync => queued = 0
  BY DEF Init, Done
<1> QED
  BY <1>1, <1>2 DEF IInv, NotDoneWhileRunning, PinKept, ResultFits, Running,
                    RejectedTextIsNotServed, EngineNamesResult, DoneHasResult

(* The values that actions write have their types.                          *)
LEMMA WrittenType ==
    ASSUME TypeOK, NEW names, NEW e \in Engines \cup {"none"}
    PROVE  /\ Written(names, e) \in [Names -> [engine : Engines \cup {"none"},
                                               run : 0..MaxRuns]]
           /\ "result" \in names => Written(names, e)["result"].engine = e
           /\ "result" \notin names => Written(names, e)["result"] = files["result"]
BY DEF TypeOK, Written, By, Names

(* A commit that writes the status.                                         *)
LEMMA StatusType ==
    ASSUME TypeOK, NEW s \in {"pending", "processing", "done", "failed"}
    PROVE  /\ [row EXCEPT !.status = s] \in
                  [status : {"pending", "processing", "done", "failed"},
                   engine : Engines \cup {"none"}, model : BOOLEAN]
           /\ [row EXCEPT !.status = s].status = s
           /\ [row EXCEPT !.status = s].engine = row.engine
BY DEF TypeOK

-----------------------------------------------------------------------------
(* The steps, in the order of a run.                                        *)

LEMMA PickStep == ASSUME IInv, Pick PROVE IInv'
<1>1. TypeOK'
  BY StatusType, ConstantsAssumption DEF IInv, TypeOK, Pick, Goto, submitted, task
<1>2. ~Done' /\ row'.engine = row.engine /\ ~sync
  BY StatusType DEF IInv, TypeOK, Pick, Done, NotDoneWhileRunning
<1>3. UNCHANGED <<requested, gpu, sync, doc, files>> /\ pc' = "route"
  BY DEF Pick, Goto, submitted
<1> QED
  BY <1>1, <1>2, <1>3 DEF IInv, NotDoneWhileRunning, PinKept, ResultFits,
     RejectedTextIsNotServed, EngineNamesResult, DoneHasResult

LEMMA RouteStep == ASSUME IInv, Route PROVE IInv'
<1>1. PICK e \in {Parser, Vision} :
         /\ requested # "auto" => e = requested
         /\ final' = e
         /\ pc' = IF e = Parser THEN "parser" ELSE "gpu"
  BY DEF Route, Goto
<1>2. UNCHANGED <<doc, requested, sync, row, files, queued, run, result, gpu, missed>>
  BY DEF Route, submitted
<1>3. TypeOK'
  BY <1>1, <1>2 DEF IInv, TypeOK, Engines, Parser, Vision
<1>4. pc = "route" /\ ~Done /\ ~sync
  BY DEF Route, IInv, NotDoneWhileRunning, Running
<1>5. /\ NotDoneWhileRunning' /\ RejectedTextIsNotServed'
      /\ EngineNamesResult' /\ DoneHasResult'
  BY <1>1, <1>2, <1>4 DEF NotDoneWhileRunning, Running, Done,
     RejectedTextIsNotServed, EngineNamesResult, DoneHasResult
<1>6. PinKept'
  BY <1>1, <1>2 DEF IInv, PinKept, Parser
<1>7. ResultFits'
  BY <1>1 DEF ResultFits, VisionEngines, Parser, Vision
<1> QED
  BY <1>3, <1>5, <1>6, <1>7 DEF IInv

(* The parser process, with any exit code.                                  *)
LEMMA ParserSteps ==
    ASSUME IInv, ParserAccepted \/ ParserRejected \/ ParserDies
    PROVE  IInv'
<1>1. /\ pc = "parser" /\ ~Done /\ ~sync /\ final = Parser
      /\ requested = Parser => ~gpu
  BY DEF IInv, NotDoneWhileRunning, Running, ResultFits, PinKept,
     ParserAccepted, ParserRejected, ParserDies
<1>2. UNCHANGED <<doc, requested, sync, queued, run, final, gpu>>
  BY DEF ParserAccepted, ParserRejected, ParserDies, submitted, task
<1>3. files' \in [Names -> [engine : Engines \cup {"none"}, run : 0..MaxRuns]]
  <2>1. Parser \in Engines \cup {"none"}
    BY DEF Engines
  <2>2. CASE UNCHANGED files
    BY <2>2 DEF IInv, TypeOK
  <2>3. CASE \E names : files' = Written(names, Parser)
    BY <2>1, <2>3, WrittenType DEF IInv
  <2> QED
    BY <2>2, <2>3 DEF ParserAccepted, ParserRejected, ParserDies
<1>4. CASE ParserAccepted
  <2>1. /\ result' = [by |-> Parser, pagesOk |-> TRUE] /\ pc' = "save"
        /\ row' = row /\ doc = "digital" /\ missed' \subseteq {"preview"}
    BY <1>4 DEF ParserAccepted, Goto, Acceptable
  <2>2. TypeOK'
    BY <1>2, <1>3, <2>1 DEF IInv, TypeOK
  <2> QED
    BY <1>1, <1>2, <2>1, <2>2 DEF IInv, NotDoneWhileRunning, Done, PinKept, ResultFits,
       RejectedTextIsNotServed, EngineNamesResult, DoneHasResult, VisionEngines, Parser, Vision, Fallback
<1>5. CASE ParserRejected
  <2>1. pc' = "rejected" /\ UNCHANGED <<row, result, missed>>
    BY <1>5 DEF ParserRejected, Goto, task
  <2>2. TypeOK'
    BY <1>2, <1>3, <2>1 DEF IInv, TypeOK
  <2> QED
    BY <1>1, <1>2, <2>1, <2>2 DEF IInv, NotDoneWhileRunning, Done, PinKept, ResultFits,
       RejectedTextIsNotServed, EngineNamesResult, DoneHasResult
<1>6. CASE ParserDies
  <2>1. pc' = "idle" /\ UNCHANGED <<result, missed>>
        /\ row' = [row EXCEPT !.status = "failed"]
    BY <1>6 DEF ParserDies, Goto, task, Fail
  <2>2. row'.status = "failed"
    BY <2>1, StatusType DEF IInv
  <2>3. TypeOK'
    BY <1>2, <1>3, <2>1, StatusType DEF IInv, TypeOK
  <2> QED
    BY <1>1, <1>2, <2>1, <2>2, <2>3 DEF IInv, NotDoneWhileRunning, Running, Done, PinKept,
       ResultFits, RejectedTextIsNotServed, EngineNamesResult, DoneHasResult
<1> QED
  BY <1>4, <1>5, <1>6

LEMMA AfterRejection ==
    ASSUME IInv, PinnedFails \/ FallBack
    PROVE  IInv'
<1>1. pc = "rejected" /\ ~Done /\ ~sync
  BY DEF IInv, NotDoneWhileRunning, Running, PinnedFails, FallBack
<1>2. UNCHANGED <<doc, requested, sync, files, queued, run, result, gpu, missed>>
  BY DEF PinnedFails, FallBack, submitted, task
<1>3. CASE PinnedFails
  <2>1. /\ row' = [row EXCEPT !.status = "failed", !.engine = Parser]
        /\ pc' = "idle" /\ final' = final
    BY <1>3 DEF PinnedFails, Goto, task
  <2>2. /\ row' \in [status : {"pending", "processing", "done", "failed"},
                      engine : Engines \cup {"none"}, model : BOOLEAN]
        /\ row'.status = "failed"
    BY <2>1 DEF IInv, TypeOK, Engines
  <2>3. TypeOK'
    BY <1>2, <2>1, <2>2 DEF IInv, TypeOK
  <2> QED
    BY <1>1, <1>2, <2>1, <2>2, <2>3 DEF IInv, NotDoneWhileRunning, Running, Done, PinKept,
       ResultFits, RejectedTextIsNotServed, EngineNamesResult, DoneHasResult
<1>4. CASE FallBack
  <2>1. /\ requested # Parser /\ final' = Fallback /\ pc' = "gpu" /\ row' = row
    BY <1>4 DEF FallBack, Goto
  <2>2. TypeOK'
    BY <1>2, <2>1 DEF IInv, TypeOK, Engines
  <2> QED
    BY <1>1, <1>2, <2>1, <2>2 DEF IInv, NotDoneWhileRunning, Done, PinKept, ResultFits,
       VisionEngines, RejectedTextIsNotServed, EngineNamesResult, DoneHasResult
<1> QED
  BY <1>3, <1>4

LEMMA EnsureStep == ASSUME IInv, Ensure PROVE IInv'
<1>1. pc = "gpu" /\ ~Done /\ ~sync /\ requested # Parser
  BY DEF IInv, NotDoneWhileRunning, Running, PinKept, Ensure
<1>2. /\ UNCHANGED <<doc, requested, sync, files, queued, run, final, result, missed>>
      /\ gpu' = TRUE
  BY DEF Ensure, submitted, task
<1>3. \/ pc' = "vision" /\ row' = row
      \/ pc' = "idle" /\ row' = [row EXCEPT !.status = "failed"]
  BY DEF Ensure, Goto, Fail
<1>4. ~Done'
  BY <1>1, <1>3, StatusType DEF IInv, Done
<1>5. TypeOK'
  BY <1>2, <1>3, StatusType DEF IInv, TypeOK
<1> QED
  BY <1>1, <1>2, <1>3, <1>4, <1>5 DEF IInv, NotDoneWhileRunning, Running, PinKept,
     ResultFits, RejectedTextIsNotServed, EngineNamesResult, DoneHasResult

(* The vision process.                                                      *)
LEMMA VisionSteps ==
    ASSUME IInv, VisionEnds \/ VisionFails
    PROVE  IInv'
<1>1. /\ pc = "vision" /\ ~Done /\ ~sync /\ final \in VisionEngines
      /\ requested # Parser
  BY DEF IInv, NotDoneWhileRunning, Running, ResultFits, PinKept, VisionEnds, VisionFails
<1>2. UNCHANGED <<doc, requested, sync, queued, run, final, gpu>>
  BY DEF VisionEnds, VisionFails, submitted, task
<1>3. files' \in [Names -> [engine : Engines \cup {"none"}, run : 0..MaxRuns]]
  <2>1. Vision \in Engines \cup {"none"}
    BY DEF Engines
  <2> QED
    BY <2>1, WrittenType DEF IInv, TypeOK, VisionEnds, VisionFails
<1>4. CASE VisionEnds
  <2>1. PICK ok \in BOOLEAN : result' = [by |-> Vision, pagesOk |-> ok]
    BY <1>4 DEF VisionEnds
  <2>2. pc' = "save" /\ row' = row /\ missed' = {}
    BY <1>4 DEF VisionEnds, Goto
  <2>3. TypeOK'
    BY <1>2, <1>3, <2>1, <2>2 DEF IInv, TypeOK
  <2> QED
    BY <1>1, <1>2, <2>1, <2>2, <2>3 DEF IInv, NotDoneWhileRunning, Done, PinKept, ResultFits,
       Parser, Vision, RejectedTextIsNotServed, EngineNamesResult, DoneHasResult
<1>5. CASE VisionFails
  <2>1. /\ pc' = "idle" /\ UNCHANGED <<result, missed>>
        /\ row' = [row EXCEPT !.status = "failed"]
    BY <1>5 DEF VisionFails, Goto, Fail, task
  <2>2. ~Done'
    BY <2>1, StatusType DEF IInv, Done
  <2>3. TypeOK'
    BY <1>2, <1>3, <2>1, StatusType DEF IInv, TypeOK
  <2> QED
    BY <1>1, <1>2, <2>1, <2>2, <2>3 DEF IInv, NotDoneWhileRunning, Running, PinKept,
       ResultFits, RejectedTextIsNotServed, EngineNamesResult, DoneHasResult
<1> QED
  BY <1>4, <1>5

LEMMA SaveStep == ASSUME IInv, Save PROVE IInv'
<1>1. /\ pc = "save" /\ ~Done /\ ~sync
      /\ result.by \in {Parser, Vision}
      /\ result.by = Vision <=> final \in VisionEngines
      /\ result.by = Parser => doc = "digital"
  BY DEF IInv, NotDoneWhileRunning, Running, ResultFits, Save
<1>2. UNCHANGED <<doc, requested, sync, queued, run, final, result, gpu, missed>>
  BY DEF Save, submitted, task
<1>3. CASE files' = Written({"result"}, result.by) /\ pc' = "commit" /\ row' = row
  <2>1. result.by \in Engines \cup {"none"}
    BY <1>1 DEF Engines
  <2>2. /\ files' \in [Names -> [engine : Engines \cup {"none"}, run : 0..MaxRuns]]
        /\ files'["result"].engine = result.by
    BY <1>3, <2>1, WrittenType DEF IInv
  <2>3. TypeOK'
    BY <1>2, <1>3, <2>2 DEF IInv, TypeOK
  <2> QED
    BY <1>1, <1>2, <1>3, <2>2, <2>3 DEF IInv, NotDoneWhileRunning, Done, PinKept, ResultFits,
       ResultBy, RejectedTextIsNotServed, EngineNamesResult, DoneHasResult
<1>4. CASE /\ row' = [row EXCEPT !.status = "failed"] /\ pc' = "idle"
           /\ UNCHANGED files
  <2>1. ~Done'
    BY <1>4, StatusType DEF IInv, Done
  <2>2. TypeOK'
    BY <1>2, <1>4, StatusType DEF IInv, TypeOK
  <2> QED
    BY <1>1, <1>2, <1>4, <2>1, <2>2 DEF IInv, NotDoneWhileRunning, Running, PinKept,
       ResultFits, RejectedTextIsNotServed, EngineNamesResult, DoneHasResult
<1> QED
  BY <1>3, <1>4 DEF Save, Goto, Fail

LEMMA CommitStep == ASSUME IInv, Commit PROVE IInv'
<1>1. /\ pc = "commit" /\ ~sync
      /\ result.by \in {Parser, Vision}
      /\ result.by = Vision <=> final \in VisionEngines
      /\ result.by = Parser => doc = "digital"
      /\ ResultBy = result.by
  BY DEF IInv, NotDoneWhileRunning, Running, ResultFits, Commit
<1>2. UNCHANGED <<doc, requested, sync, files, queued, run, final, result, gpu, missed>>
  BY DEF Commit, submitted, task
<1>3. PICK s \in {"done", "failed"}, m \in BOOLEAN :
         row' = [status |-> s, engine |-> final, model |-> m]
  <2>1. (row.model \/ final \in VisionEngines) \in BOOLEAN
    OBVIOUS
  <2> QED
    BY <2>1 DEF Commit
<1>4. pc' \in {"entities", "preview"}
  BY DEF Commit, Goto
<1>5. TypeOK'
  BY <1>2, <1>3, <1>4 DEF IInv, TypeOK
<1>6. ResultBy' = result.by /\ row'.engine = final
  BY <1>1, <1>2, <1>3 DEF ResultBy
<1>7. EngineNamesResult' /\ RejectedTextIsNotServed' /\ DoneHasResult'
  BY <1>1, <1>2, <1>6 DEF EngineNamesResult, RejectedTextIsNotServed, DoneHasResult
<1>8. NotDoneWhileRunning' /\ PinKept' /\ ResultFits'
  BY <1>1, <1>2, <1>4 DEF IInv, NotDoneWhileRunning, Running, PinKept, ResultFits
<1> QED
  BY <1>5, <1>7, <1>8 DEF IInv

(* The side files that are written after the commit.                        *)
LEMMA SidecarSteps ==
    ASSUME IInv, WritePreview \/ WriteEntities
    PROVE  IInv'
<1>1. /\ pc \in {"preview", "entities"} /\ pc' \in {"entities", "idle"}
      /\ ~sync
      /\ UNCHANGED <<doc, requested, sync, row, queued, run, final, result, gpu>>
  BY DEF IInv, NotDoneWhileRunning, WritePreview, WriteEntities, Goto, submitted, task
<1>2. PICK name \in {"preview", "entities"} : WrittenOrMissed(name)
  BY DEF WritePreview, WriteEntities
<1>3. /\ files' \in [Names -> [engine : Engines \cup {"none"}, run : 0..MaxRuns]]
      /\ files'["result"] = files["result"]
      /\ missed' \subseteq {"preview", "entities"}
  <2>1. final \in Engines \cup {"none"}
    BY DEF IInv, TypeOK
  <2>2. "result" \notin {name}
    BY <1>2
  <2>3. CASE files' = Written({name}, final) /\ UNCHANGED missed
    BY <2>1, <2>2, <2>3, WrittenType DEF IInv, TypeOK
  <2>4. CASE missed' = missed \cup {name} /\ UNCHANGED files
    BY <1>2, <2>4 DEF IInv, TypeOK
  <2> QED
    BY <1>2, <2>3, <2>4 DEF WrittenOrMissed
<1>4. TypeOK'
  BY <1>1, <1>3 DEF IInv, TypeOK
<1>5. ResultBy' = ResultBy /\ Done' = Done
  BY <1>1, <1>3 DEF ResultBy, Done
<1> QED
  BY <1>1, <1>4, <1>5 DEF IInv, NotDoneWhileRunning, Running, PinKept, ResultFits,
     RejectedTextIsNotServed, EngineNamesResult, DoneHasResult

-----------------------------------------------------------------------------
(* The crash of the worker, and the API.                                    *)

LEMMA CrashStep == ASSUME IInv, Crash PROVE IInv'
<1>1. /\ pc # "idle" /\ pc' = "idle" /\ ~sync
      /\ queued + run < MaxRuns /\ queued' = queued + 1
      /\ UNCHANGED <<doc, requested, sync, row, files, run, final, result, gpu, missed>>
  BY DEF IInv, NotDoneWhileRunning, Crash, Goto, submitted, task
<1>2. TypeOK'
  BY <1>1, ConstantsAssumption DEF IInv, TypeOK
<1>3. ResultBy' = ResultBy /\ Done' = Done
  BY <1>1 DEF ResultBy, Done
<1> QED
  BY <1>1, <1>2, <1>3 DEF IInv, NotDoneWhileRunning, Running, PinKept, ResultFits,
     RejectedTextIsNotServed, EngineNamesResult, DoneHasResult

LEMMA StopStep == ASSUME IInv, Stop PROVE IInv'
<1>1. /\ ~sync /\ row' = [row EXCEPT !.status = "failed"]
      /\ UNCHANGED <<doc, requested, sync, files, queued, run, pc, final, result, gpu, missed>>
  BY DEF Stop, Fail, submitted, task
<1>2. ~Done'
  BY <1>1, StatusType DEF IInv, Done
<1>3. TypeOK'
  BY <1>1, StatusType DEF IInv, TypeOK
<1>4. ResultBy' = ResultBy
  BY <1>1 DEF ResultBy
<1> QED
  BY <1>1, <1>2, <1>3, <1>4 DEF IInv, NotDoneWhileRunning, PinKept, ResultFits,
     RejectedTextIsNotServed, EngineNamesResult, DoneHasResult

LEMMA RestartStep == ASSUME IInv, Restart PROVE IInv'
<1>1. /\ ~sync /\ row' = [row EXCEPT !.status = "pending"]
      /\ queued + run < MaxRuns /\ queued' = queued + 1
      /\ UNCHANGED <<doc, requested, sync, files, run, pc, final, result, gpu, missed>>
  BY DEF Restart, submitted, task
<1>2. ~Done'
  BY <1>1, StatusType DEF IInv, Done
<1>3. TypeOK'
  BY <1>1, StatusType, ConstantsAssumption DEF IInv, TypeOK
<1>4. ResultBy' = ResultBy
  BY <1>1 DEF ResultBy
<1> QED
  BY <1>1, <1>2, <1>3, <1>4 DEF IInv, NotDoneWhileRunning, PinKept, ResultFits,
     RejectedTextIsNotServed, EngineNamesResult, DoneHasResult

LEMMA SyncStep == ASSUME IInv, SyncRun PROVE IInv'
<1>1. /\ sync /\ ~sync' /\ pc = "idle" /\ run = 0 /\ run' = 1
      /\ row.engine = "none"
      /\ UNCHANGED <<doc, requested, queued, pc, final, result, gpu, missed>>
  BY DEF IInv, NotDoneWhileRunning, SyncRun, submitted, task
<1>2. PICK status \in {"done", "failed", "processing"}, saved \in BOOLEAN :
         /\ status = "done" => saved
         /\ row' = [row EXCEPT !.status = status, !.model = TRUE]
         /\ files' = IF saved
                       THEN [files EXCEPT !["result"] = [engine |-> Vision, run |-> run']]
                       ELSE files
  BY DEF SyncRun
<1>3. /\ row' \in [status : {"pending", "processing", "done", "failed"},
                    engine : Engines \cup {"none"}, model : BOOLEAN]
      /\ row'.status = status /\ row'.engine = "none"
  BY <1>1, <1>2 DEF IInv, TypeOK
<1>4. /\ files' \in [Names -> [engine : Engines \cup {"none"}, run : 0..MaxRuns]]
      /\ saved => files'["result"].engine = Vision
  <2>1. [engine |-> Vision, run |-> run'] \in [engine : Engines \cup {"none"},
                                              run : 0..MaxRuns]
    BY <1>1, ConstantsAssumption DEF Engines
  <2> QED
    BY <1>2, <2>1 DEF IInv, TypeOK, Names
<1>5. TypeOK'
  <2>1. run' \in 0..MaxRuns
    BY <1>1, ConstantsAssumption
  <2>2. sync' = FALSE
    BY DEF SyncRun
  <2>3. sync' \in BOOLEAN
    BY <2>2
  <2> QED
    BY <1>1, <1>3, <1>4, <2>1, <2>3 DEF IInv, TypeOK
<1>6. Done' => ResultBy' = Vision
  BY <1>2, <1>3, <1>4 DEF Done, ResultBy
<1> QED
  BY <1>1, <1>3, <1>5, <1>6 DEF IInv, NotDoneWhileRunning, Running, PinKept, ResultFits,
     RejectedTextIsNotServed, EngineNamesResult, DoneHasResult, Parser, Vision

-----------------------------------------------------------------------------
LEMMA NextIInv == ASSUME IInv, [Next]_vars PROVE IInv'
<1>1. CASE UNCHANGED vars
  BY <1>1 DEF vars, IInv, TypeOK, NotDoneWhileRunning, PinKept, ResultFits, ResultBy, Done,
     RejectedTextIsNotServed, EngineNamesResult, DoneHasResult
<1> QED
  BY <1>1, PickStep, RouteStep, ParserSteps, AfterRejection, EnsureStep, VisionSteps,
     SaveStep, CommitStep, SidecarSteps, CrashStep, StopStep, RestartStep, SyncStep
     DEF Next

(* IInv holds in every state: row, pin and result file of a job agree,     *)
(* however often it is stopped, crashes or is restarted.                   *)
THEOREM Invariance == Spec => []IInv
BY InitIInv, NextIInv, PTL DEF Spec

(* Every variable of the router, the worker's run and the job's directory   *)
(* has its type.                                                            *)
THEOREM TypeCorrect == Spec => []TypeOK
BY Invariance, PTL DEF IInv

(* A job pinned to the CPU parser never asks for a GPU, in no run, whatever *)
(* the parser makes of the document and however the runs end.               *)
THEOREM PinIsFree == Spec => []PinNeverStartsGpu
<1>1. IInv => PinNeverStartsGpu
  BY DEF IInv, PinKept, PinNeverStartsGpu
<1> QED
  BY <1>1, Invariance, PTL

(* The text of a document that the parser cannot read is never the result  *)
(* of a done job.                                                           *)
THEOREM OnlyAcceptedText == Spec => []RejectedTextIsNotServed
BY Invariance, PTL DEF IInv

(* The engine of a done row is the one that wrote the result file, over all *)
(* runs, stops, restarts and crashes of the job.                            *)
THEOREM EngineIsHonest == Spec => []EngineNamesResult
BY Invariance, PTL DEF IInv

(* The structure that _job_to_response points to is there, and belongs to a *)
(* result of the parser.                                                    *)
THEOREM StructureFits == Spec => []StructureUrlFits
<1>1. IInv => StructureUrlFits
  BY DEF IInv, EngineNamesResult, DoneHasResult, StructureUrlFits, StructureUrl,
     VisionEngines, Parser, Vision, Fallback
<1> QED
  BY <1>1, Invariance, PTL
-----------------------------------------------------------------------------
(* The side files.  A run that saves has written the preview, if it is the  *)
(* parser, or will; the values come last; and the result in the directory   *)
(* is its own from the save on.                                             *)
PreviewFits == "preview" \in missed \/ files["preview"].run = run
OwnResult == files["result"].run = run
SideInv ==
    /\ pc \in {"save", "commit"} /\ final = Parser => PreviewFits
    /\ pc \in {"commit", "preview", "entities"} => OwnResult
    /\ pc = "entities" => PreviewFits
    /\ SidecarsCatchUp

(* What a write of the worker leaves in the directory.                      *)
LEMMA WrittenRun ==
    ASSUME NEW names, NEW e, NEW f \in Names
    PROVE  /\ f \in names => Written(names, e)[f].run = run
           /\ f \notin names => Written(names, e)[f] = files[f]
BY DEF Written, By

(* Steps that leave the directory alone and end in no state that SideInv    *)
(* says anything of, or end a run that has not finished.                    *)
LEMMA QuietSteps ==
    ASSUME IInv, SideInv,
           Pick \/ Route \/ ParserRejected \/ ParserDies \/ PinnedFails \/ FallBack
             \/ Ensure \/ VisionFails \/ SyncRun
    PROVE  SideInv'
<1>1. CASE Pick \/ Route \/ ParserRejected \/ FallBack
  <2>1. pc' \in {"route", "parser", "gpu", "rejected"}
    BY <1>1 DEF Pick, Route, ParserRejected, FallBack, Goto
  <2> QED
    BY <2>1 DEF SideInv, SidecarsCatchUp
<1>2. CASE ParserDies \/ PinnedFails \/ Ensure \/ VisionFails
  <2>1. pc' = "vision" \/ (pc' = "idle" /\ row'.status = "failed")
    <3>1. /\ [row EXCEPT !.status = "failed"].status = "failed"
          /\ [row EXCEPT !.status = "failed", !.engine = Parser].status = "failed"
      BY DEF IInv, TypeOK
    <3> QED
      BY <1>2, <3>1 DEF ParserDies, PinnedFails, Ensure, VisionFails, Goto, Fail
  <2> QED
    BY <2>1 DEF SideInv, SidecarsCatchUp, Done
<1>3. CASE SyncRun
  <2>1. pc' = "idle" /\ row'.engine = "none"
    <3>1. pc = "idle" /\ row.engine = "none"
      BY <1>3 DEF IInv, NotDoneWhileRunning, SyncRun
    <3>2. PICK s : row' = [row EXCEPT !.status = s, !.model = TRUE]
      BY <1>3 DEF SyncRun
    <3> QED
      BY <1>3, <3>1, <3>2 DEF IInv, TypeOK, SyncRun
  <2> QED
    BY <2>1 DEF SideInv, SidecarsCatchUp
<1> QED
  BY <1>1, <1>2, <1>3

(* The steps of a run that has its text.                                    *)
LEMMA SavingSteps ==
    ASSUME IInv, SideInv,
           ParserAccepted \/ VisionEnds \/ Save \/ Commit \/ WritePreview \/ WriteEntities
    PROVE  SideInv'
<1>0. run' = run /\ {"preview", "entities", "result"} \subseteq Names
  BY DEF ParserAccepted, VisionEnds, Save, Commit, WritePreview, WriteEntities, Names, Sidecars
<1>1. CASE ParserAccepted
  <2>1. PICK names : /\ files' = Written(names, Parser)
                     /\ missed' = {"preview"} \ names
    BY <1>1 DEF ParserAccepted
  <2>2. PreviewFits'
    BY <1>0, <2>1, WrittenRun DEF PreviewFits
  <2>3. pc' = "save"
    BY <1>1 DEF ParserAccepted, Goto
  <2> QED
    BY <2>2, <2>3 DEF SideInv, SidecarsCatchUp
<1>2. CASE VisionEnds
  <2>1. pc' = "save" /\ final' = final /\ final \in VisionEngines
    BY <1>2 DEF IInv, ResultFits, VisionEnds, Goto
  <2> QED
    BY <2>1 DEF SideInv, SidecarsCatchUp, VisionEngines, Vision, Fallback, Parser
<1>3. CASE Save
  <2>1. pc = "save" /\ UNCHANGED <<final, missed>>
    BY <1>3 DEF Save, task
  <2>2. CASE files' = Written({"result"}, result.by) /\ pc' = "commit"
    <3>1. OwnResult' /\ files'["preview"] = files["preview"]
      BY <1>0, <2>2, WrittenRun DEF OwnResult
    <3> QED
      BY <1>0, <2>1, <2>2, <3>1 DEF SideInv, SidecarsCatchUp, PreviewFits
  <2>3. CASE pc' = "idle" /\ row' = [row EXCEPT !.status = "failed"]
    <3>1. ~Done'
      BY <2>3, StatusType DEF IInv, Done
    <3> QED
      BY <2>3, <3>1 DEF SideInv, SidecarsCatchUp
  <2> QED
    BY <1>3, <2>2, <2>3 DEF Save, Goto, Fail
<1>4. CASE Commit
  <2>1. /\ pc = "commit" /\ UNCHANGED <<final, missed, files>>
        /\ pc' = IF final = Parser THEN "entities" ELSE "preview"
    BY <1>4 DEF Commit, task, Goto
  <2> QED
    BY <1>0, <2>1 DEF SideInv, SidecarsCatchUp, PreviewFits, OwnResult
<1>5. CASE WritePreview
  <2>1. pc = "preview" /\ pc' = "entities" /\ WrittenOrMissed("preview")
    BY <1>5 DEF WritePreview, Goto
  <2>2. OwnResult' /\ PreviewFits'
    BY <1>0, <2>1, WrittenRun DEF WrittenOrMissed, SideInv, OwnResult, PreviewFits
  <2> QED
    BY <2>1, <2>2 DEF SideInv, SidecarsCatchUp
<1>6. CASE WriteEntities
  <2>1. pc = "entities" /\ pc' = "idle" /\ WrittenOrMissed("entities")
    BY <1>6 DEF WriteEntities, Goto
  <2>2. OwnResult' /\ PreviewFits' /\ ("entities" \in missed' \/ files'["entities"].run = run')
    BY <1>0, <2>1, WrittenRun DEF WrittenOrMissed, SideInv, OwnResult, PreviewFits
  <2> QED
    BY <2>1, <2>2 DEF SideInv, SidecarsCatchUp, OwnResult, PreviewFits
<1> QED
  BY <1>1, <1>2, <1>3, <1>4, <1>5, <1>6

(* A crash and a restart queue the job again, a stop ends it.               *)
LEMMA OutsideSteps ==
    ASSUME IInv, SideInv, Crash \/ Stop \/ Restart
    PROVE  SideInv'
<1>1. CASE Crash
  <2>1. pc' = "idle" /\ queued' = queued + 1 /\ queued \in Nat
    BY <1>1, ConstantsAssumption DEF Crash, Goto, IInv, TypeOK
  <2> QED
    BY <2>1 DEF SideInv, SidecarsCatchUp
<1>2. CASE Stop \/ Restart
  <2>1. ~Done' /\ UNCHANGED <<files, run, pc, final, missed>>
    BY <1>2, StatusType DEF Stop, Restart, Fail, Done, IInv, task
  <2> QED
    BY <2>1 DEF SideInv, SidecarsCatchUp, PreviewFits, OwnResult
<1> QED
  BY <1>1, <1>2

(* A job at rest that is done has the preview and the values of the run     *)
(* that wrote its result, unless their writing failed, however many runs,   *)
(* stops, restarts and crashes came before: what an interrupted or failed   *)
(* run leaves in the directory is never shown as the files of another.      *)
THEOREM SideFilesFit == Spec => []SidecarsCatchUp
<1>1. Init => SideInv
  BY DEF Init, SideInv, SidecarsCatchUp, Done
<1>2. IInv /\ SideInv /\ [Next]_vars => SideInv'
  <2> SUFFICES ASSUME IInv, SideInv, [Next]_vars PROVE SideInv'
    OBVIOUS
  <2>1. CASE UNCHANGED vars
    BY <2>1 DEF vars, SideInv, SidecarsCatchUp, PreviewFits, OwnResult, Done
  <2> QED
    BY <2>1, QuietSteps, SavingSteps, OutsideSteps DEF Next
<1>3. SideInv => SidecarsCatchUp
  BY DEF SideInv
<1> QED
  BY <1>1, <1>2, <1>3, Invariance, PTL DEF Spec

-----------------------------------------------------------------------------
(* THE SEARCH FOR A BOX (GpuFleet).                                         *)

(* Why a candidate is given up.                                             *)
Verdicts == {"out_of_stock", "error", "reverted", "timeout"}

(* The candidates before c were refused, taken back or too slow in this    *)
(* call of ensure_any_gpu_running.                                         *)
GivenUpBefore(c) == \A d \in 1..(c - 1) : verdict[d] # "none"

(* A search is always at a configured candidate; it switches boxes on only *)
(* with credentials, and then it has given up all before the one it is at. *)
SearchInv ==
    /\ FleetTypeOK
    /\ At("probe") \/ At("poweron") \/ At("hold") \/ At("wait") =>
          c0 \in 1..config.n
    /\ At("poweron") \/ At("hold") => config.credentials
    /\ At("poweron") \/ At("hold") \/ (At("wait") /\ config.credentials) =>
          GivenUpBefore(c0)
    /\ At("raised") /\ config.credentials => GivenUpBefore(config.n + 1)

(* Nothing is given up at the start.                                       *)
LEMMA InitSearch == FleetInit => SearchInv
  BY FleetAssumption
     DEF FleetInit, SearchInv, FleetTypeOK, At, c0, NoVerdict, NoTimer,
         IdleMinutes, Candidates

(* Giving up a candidate leads to the next one, or behind the last one to  *)
(* the exception.                                                          *)
LEMMA GiveUpStep ==
    ASSUME SearchInv, At("poweron") \/ At("hold") \/ At("wait"),
           config.credentials,
           NEW why \in Verdicts, GiveUp(why),
           config' = config
    PROVE  /\ worker' \in [pc : {"poweron", "raised"}, at : 0..N]
           /\ worker'.pc = "poweron" =>
                 worker'.at \in 1..config.n /\ GivenUpBefore(worker.at)'
           /\ worker'.pc = "raised" => GivenUpBefore(config.n + 1)'
           /\ verdict' \in [Candidates -> {"none"} \cup Verdicts]
<1>1. /\ c0 \in 1..config.n /\ config.n \in 0..N /\ N \in Nat
      /\ \A d \in 1..(c0 - 1) : verdict[d] # "none"
      /\ verdict \in [Candidates -> {"none"} \cup Verdicts]
  BY FleetAssumption DEF SearchInv, FleetTypeOK, GivenUpBefore, Verdicts
<1>2. verdict' = [verdict EXCEPT ![c0] = why]
  BY DEF GiveUp
<1>3. \A d \in 1..c0 : verdict'[d] # "none"
  BY <1>1, <1>2 DEF Candidates, Verdicts
<1>4. CASE c0 < config.n
  <2>1. worker' = [pc |-> "poweron", at |-> c0 + 1]
    BY <1>4 DEF GiveUp, WorkerAt
  <2> QED
    BY <1>1, <1>2, <1>3, <1>4, <2>1 DEF GivenUpBefore, Candidates, c0
<1>5. CASE ~(c0 < config.n)
  <2>1. worker' = [pc |-> "raised", at |-> 0]
    BY <1>5 DEF GiveUp, WorkerAt
  <2> QED
    BY <1>1, <1>2, <1>3, <1>5, <2>1 DEF GivenUpBefore, Candidates, c0
<1> QED
  BY <1>4, <1>5

(* Giving a candidate up with a verdict goes on to the next one and skips  *)
(* none.                                                                   *)
LEMMA GivenUpKeeps ==
    ASSUME SearchInv, At("poweron") \/ At("hold") \/ At("wait"),
           config.credentials,
           NEW why \in Verdicts, GiveUp(why),
           UNCHANGED <<boxes, waited, jobs>>
    PROVE  SearchInv'
<1>1. config' = config
  BY DEF boxes
<1>2. /\ worker' \in [pc : {"poweron", "raised"}, at : 0..N]
      /\ worker'.pc = "poweron" =>
            worker'.at \in 1..config.n /\ GivenUpBefore(worker.at)'
      /\ worker'.pc = "raised" => GivenUpBefore(config.n + 1)'
      /\ verdict' \in [Candidates -> {"none"} \cup Verdicts]
  BY <1>1, GiveUpStep
<1>3. FleetTypeOK'
  BY <1>2 DEF SearchInv, FleetTypeOK, boxes, Verdicts
<1> QED
  BY <1>1, <1>2, <1>3 DEF SearchInv, At, c0

(* The steps of the worker.                                                *)
LEMMA WorkerKeeps == ASSUME SearchInv, WorkerStep PROVE SearchInv'
<1> USE FleetAssumption DEF At, c0, boxes
<1>1. CASE StartJob
  BY <1>1 DEF StartJob, SearchInv, FleetTypeOK, WorkerAt, NoVerdict
<1>2. CASE ProbeHits
  BY <1>2 DEF ProbeHits, SearchInv, FleetTypeOK, WorkerAt
<1>3. CASE ProbeMisses
  BY <1>3 DEF ProbeMisses, SearchInv, FleetTypeOK, WorkerAt, GivenUpBefore
<1>4. CASE PowerOnOk
  BY <1>4
     DEF PowerOnOk, SearchInv, FleetTypeOK, WorkerAt, GivenUpBefore, Started,
         NoTimer, IdleMinutes
<1>5. CASE PowerOnRefused
  <2>1. /\ At("poweron") /\ config' = config /\ config.credentials
        /\ \E why \in {"out_of_stock", "error"} : GiveUp(why)
        /\ UNCHANGED <<boxes, waited, jobs>>
    BY <1>5 DEF PowerOnRefused, SearchInv
  <2> QED
    BY <2>1, GivenUpKeeps DEF Verdicts
<1>6. CASE Reverted
  <2>1. /\ At("hold") /\ config' = config /\ config.credentials
        /\ GiveUp("reverted")
        /\ UNCHANGED <<boxes, waited, jobs>>
    BY <1>6 DEF Reverted, SearchInv
  <2> QED
    BY <2>1, GivenUpKeeps DEF Verdicts
<1>7. CASE Holds
  BY <1>7 DEF Holds, SearchInv, FleetTypeOK, WorkerAt, GivenUpBefore
<1>8. CASE BootedInTime
  BY <1>8 DEF BootedInTime, SearchInv, FleetTypeOK, WorkerAt
<1>9. CASE BootTimeout
  <2>1. CASE config.credentials
    <3>1. /\ At("wait") /\ config' = config /\ GiveUp("timeout")
          /\ UNCHANGED <<boxes, waited, jobs>>
      BY <1>9, <2>1 DEF BootTimeout
    <3> QED
      BY <2>1, <3>1, GivenUpKeeps DEF Verdicts
  <2>2. CASE ~config.credentials
    BY <1>9, <2>2 DEF BootTimeout, SearchInv, FleetTypeOK, WorkerAt
  <2> QED
    BY <2>1, <2>2
<1>10. CASE JobFails
  BY <1>10 DEF JobFails, SearchInv, FleetTypeOK, WorkerAt
<1>11. CASE JobEnds
  BY <1>11 DEF JobEnds, SearchInv, FleetTypeOK, WorkerAt
<1> QED
  BY <1>1, <1>2, <1>3, <1>4, <1>5, <1>6, <1>7, <1>8, <1>9, <1>10, <1>11
     DEF WorkerStep

(* The boxes and the clock leave the search alone.                         *)
LEMMA SearchStays ==
    ASSUME SearchInv, UNCHANGED <<config, worker, verdict>>, FleetTypeOK'
    PROVE  SearchInv'
  BY DEF SearchInv, At, c0, GivenUpBefore

(* Boxes, scripts and requests leave the search alone.                     *)
LEMMA OthersKeep ==
    ASSUME SearchInv, FleetNext, ~WorkerStep
    PROVE  FleetTypeOK' /\ UNCHANGED <<config, worker, verdict>>
<1> USE FleetAssumption DEF SearchInv, FleetTypeOK, NoTimer, IdleMinutes
<1>1. CASE Request
  <2>1. c0 \in Candidates /\ busy \in [Candidates -> BOOLEAN]
    BY <1>1 DEF Request, c0, Candidates
  <2>2. [busy EXCEPT ![c0] = ~@] \in [Candidates -> BOOLEAN]
    BY <2>1, Zenon
  <2> QED
    BY <1>1, <2>1, <2>2 DEF Request
<1>2. CASE Tick
  BY <1>2 DEF Tick, At
<1>3. ASSUME NEW c \in Candidates, Boot(c)
      PROVE  FleetTypeOK' /\ UNCHANGED <<config, worker, verdict>>
  BY <1>3 DEF Boot
<1>4. ASSUME NEW c \in Candidates, VllmDies(c)
      PROVE  FleetTypeOK' /\ UNCHANGED <<config, worker, verdict>>
  BY <1>4 DEF VllmDies
<1>5. ASSUME NEW c \in Candidates, VllmRestarts(c)
      PROVE  FleetTypeOK' /\ UNCHANGED <<config, worker, verdict>>
  BY <1>5 DEF VllmRestarts
<1>6. ASSUME NEW c \in Candidates, Revert(c)
      PROVE  FleetTypeOK' /\ UNCHANGED <<config, worker, verdict>>
  BY <1>6 DEF Revert, Off
<1>7. ASSUME NEW c \in Candidates, Script(c)
      PROVE  FleetTypeOK' /\ UNCHANGED <<config, worker, verdict>>
  <2>1. CASE CheckAborts(c)
    BY <2>1 DEF CheckAborts, Checked
  <2>2. CASE ResetTimer(c)
    BY <2>2 DEF ResetTimer, Checked
  <2>3. CASE LookAtTimer(c)
    BY <2>3 DEF LookAtTimer, Checked
  <2>4. CASE PowerOff(c)
    BY <2>4 DEF PowerOff, Off
  <2> QED
    BY <1>7, <2>1, <2>2, <2>3, <2>4 DEF Script
<1> QED
  BY <1>1, <1>2, <1>3, <1>4, <1>5, <1>6, <1>7 DEF FleetNext

LEMMA SearchInvariance == FleetSpec => []SearchInv
<1>1. ASSUME SearchInv, [FleetNext]_fleetVars PROVE SearchInv'
  <2>1. CASE UNCHANGED fleetVars
    BY <1>1, <2>1, SearchStays DEF SearchInv, FleetTypeOK, fleetVars
  <2> QED
    BY <1>1, <2>1, WorkerKeeps, OthersKeep, SearchStays
<1> QED
  BY InitSearch, <1>1, PTL DEF FleetSpec

-----------------------------------------------------------------------------
(* Every variable holds what the code can put there: no search leaves the  *)
(* list of candidates, and no timer or wait outgrows its bound.            *)
THEOREM FleetIsTyped == FleetSpec => []FleetTypeOK
<1>1. SearchInv => FleetTypeOK
  BY DEF SearchInv
<1> QED
  BY SearchInvariance, <1>1, PTL

(* ensure_any_gpu_running raises only after every configured candidate was *)
(* given up, and waits for one only after all before it were, whatever the *)
(* cloud, the boxes and their scripts do meanwhile.                        *)
THEOREM EveryCandidateIsTried == FleetSpec => []NoCandidateSkipped
<1>1. SearchInv => NoCandidateSkipped
  BY FleetAssumption
     DEF SearchInv, FleetTypeOK, NoCandidateSkipped, GivenUpBefore, At
<1> QED
  BY SearchInvariance, <1>1, PTL

=============================================================================
