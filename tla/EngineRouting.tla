--------------------------- MODULE EngineRouting ---------------------------
(***************************************************************************)
(* Which engine reads a document, and what its files and its row then say. *)
(* One job: app/services/document_router.py chooses, the worker            *)
(* (app/workers/ocr_worker.py) runs app/services/ocr_runner.py in a        *)
(* subprocess once or twice, and app/routers/jobs.py serves what is in the *)
(* job's directory.  The worker commits and writes files in separate       *)
(* steps; an admin may stop or restart the job in between, and a worker    *)
(* that dies runs the entry again.  MaxRuns bounds the runs of the job.    *)
(***************************************************************************)
EXTENDS Naturals

CONSTANTS
    Docs,       \* the documents submitted, a subset of Kinds
    Requests,   \* the engine asked for, a subset of RequestedEngine
    Modes,      \* a subset of {"sync", "async"}
    MaxRuns,
    Faults      \* what may fail: a subset of AllFaults

(* digital: the text layer is good.  sparse: the probe is fooled by stray  *)
(* text.  scan: a PDF without text layer.  image: not a PDF.               *)
Kinds == {"digital", "sparse", "scan", "image"}
RequestedEngine == {"auto", "opendataloader", "vllm"}
AllFaults == {"probe", "parser", "sidecar", "gpu", "vision", "pages", "save",
              "preview", "entities", "crash"}

Parser == "opendataloader"
Vision == "vllm"
Fallback == "vllm-fallback-after-opendataloader"
Engines == {Parser, Vision, Fallback}
VisionEngines == {Vision, Fallback}

ASSUME ConstantsAssumption ==
    /\ Docs \subseteq Kinds
    /\ Requests \subseteq RequestedEngine
    /\ Modes \subseteq {"sync", "async"}
    /\ Faults \subseteq AllFaults
    /\ MaxRuns \in Nat \ {0}

VARIABLES
    doc, requested,   \* what was submitted
    sync,             \* submitted with mode=sync and not run yet
    row,              \* the row: status, engine, model (backend_* are set)
    files,            \* the job's directory: for each file, who wrote it
    queued,           \* entries of the job that wait in the queue
    run,              \* runs so far
    pc, final,        \* the worker's task: where it is, final_engine
    result,           \* the OcrResult of the run: who made it, pages_ok > 0
    gpu,              \* a GPU was asked for
    missed            \* side files of this result that could not be written

vars == <<doc, requested, sync, row, files, queued, run, pc, final, result, gpu, missed>>
submitted == <<doc, requested>>
task == <<final, result>>

Sidecars == {"structure", "preview", "layout"}
Names == Sidecars \cup {"result", "entities"}
NoFile == [engine |-> "none", run |-> 0]
By(e) == [engine |-> e, run |-> run]
Written(names, e) == [f \in Names |-> IF f \in names THEN By(e) ELSE files[f]]

Goto(label) == pc' = label
Fail == row' = [row EXCEPT !.status = "failed"]

-----------------------------------------------------------------------------
(* THE ROUTER AND THE SUBPROCESS.                                          *)

(* pdftotext may fail or time out: then the probe says no.                 *)
HasTextLayer(answer) ==
    \/ answer = TRUE /\ doc \in {"digital", "sparse"}
    \/ answer = FALSE /\ (doc = "scan" \/ "probe" \in Faults)

(* select_engine.                                                          *)
Selected(e) ==
    \/ doc = "image" /\ e = Vision
    \/ doc # "image" /\ HasTextLayer(TRUE) /\ e = Parser
    \/ doc # "image" /\ HasTextLayer(FALSE) /\ e = Vision

\* Mutant: what was extracted is taken as it is.
AcceptsAnything == doc # "image"

(* is_result_acceptable.                                                   *)
Acceptable == doc = "digital"

(* run_opendataloader writes the sidecars, each of which may be skipped,   *)
(* and the result; only then ocr_runner looks at what was extracted.       *)
ParserWrote(names) ==
    /\ names \in SUBSET (Sidecars \cup {"result"})
    /\ "sidecar" \notin Faults => Sidecars \subseteq names

-----------------------------------------------------------------------------
(* THE WORKER.                                                             *)

Init ==
    /\ doc \in Docs /\ requested \in Requests
    /\ sync \in {m = "sync" : m \in Modes}
    /\ row = [status |-> "pending", engine |-> "none", model |-> FALSE]
    /\ files = [f \in Names |-> NoFile]
    /\ queued = IF sync THEN 0 ELSE 1
    /\ run = 0 /\ pc = "idle" /\ final = "none"
    /\ result = [by |-> "none", pagesOk |-> FALSE] /\ gpu = FALSE
    /\ missed = {}

Pick ==
    /\ pc = "idle" /\ queued > 0 /\ run < MaxRuns
    /\ queued' = queued - 1
    /\ run' = run + 1
    /\ row' = [row EXCEPT !.status = "processing"]
    /\ Goto("route")
    /\ UNCHANGED <<submitted, sync, files, task, gpu, missed>>

(* requested_engine, or for auto what the router selects.                  *)
Route ==
    /\ pc = "route"
    /\ \E e \in {Parser, Vision} :
         /\ requested # "auto" => e = requested
         /\ requested = "auto" => Selected(e)
         /\ final' = e
         /\ Goto(IF e = Parser THEN "parser" ELSE "gpu")
    /\ UNCHANGED <<submitted, sync, row, files, queued, run, result, gpu, missed>>

ParserAccepted ==
    /\ pc = "parser" /\ Acceptable
    /\ \E names \in SUBSET Names :
         /\ ParserWrote(names) /\ "result" \in names
         /\ files' = Written(names, Parser)
         /\ missed' = {"preview"} \ names
    /\ result' = [by |-> Parser, pagesOk |-> TRUE]
    /\ Goto("save")
    /\ UNCHANGED <<submitted, sync, row, queued, run, final, gpu>>

(* Exit code 2.                                                            *)
ParserRejected ==
    /\ pc = "parser" /\ ~Acceptable /\ doc # "image"
    /\ \E names \in SUBSET Names :
         ParserWrote(names) /\ "result" \in names /\ files' = Written(names, Parser)
    /\ Goto("rejected")
    /\ UNCHANGED <<submitted, sync, row, queued, run, task, gpu, missed>>

(* Any other exit code, or the time limit: the files written so far stay.  *)
ParserDies ==
    /\ pc = "parser"
    /\ \/ doc = "image" /\ UNCHANGED files
       \/ /\ doc # "image" /\ "parser" \in Faults
          /\ \E names \in SUBSET (Sidecars \cup {"result"}) : files' = Written(names, Parser)
    /\ Fail
    /\ Goto("idle")
    /\ UNCHANGED <<submitted, sync, queued, run, task, gpu, missed>>

(* The caller pinned the parser: no fallback.                              *)
PinnedFails ==
    /\ pc = "rejected" /\ requested = Parser
    /\ row' = [row EXCEPT !.status = "failed", !.engine = Parser]
    /\ Goto("idle")
    /\ UNCHANGED <<submitted, sync, files, queued, run, task, gpu, missed>>

\* Mutant: the fallback does not look at the pin.
FallsBackAlways ==
    /\ pc = "rejected"
    /\ final' = Fallback
    /\ Goto("gpu")
    /\ UNCHANGED <<submitted, sync, row, files, queued, run, result, gpu, missed>>

\* Mutant: the fallback does not rename the engine.
FallsBackUnnamed ==
    /\ pc = "rejected" /\ requested # Parser
    /\ Goto("gpu")
    /\ UNCHANGED <<submitted, sync, row, files, queued, run, task, gpu, missed>>

FallBack ==
    /\ pc = "rejected" /\ requested # Parser
    /\ final' = Fallback
    /\ Goto("gpu")
    /\ UNCHANGED <<submitted, sync, row, files, queued, run, result, gpu, missed>>

(* ensure_any_gpu_running returns, or raises RuntimeError.                 *)
Ensure ==
    /\ pc = "gpu"
    /\ gpu' = TRUE
    /\ \/ Goto("vision") /\ UNCHANGED row
       \/ "gpu" \in Faults /\ Fail /\ Goto("idle")
    /\ UNCHANGED <<submitted, sync, files, queued, run, task, missed>>

(* run_ocr writes its result incrementally.                                *)
VisionEnds ==
    /\ pc = "vision"
    /\ files' = Written({"result"}, Vision)
    /\ \E ok \in {TRUE, "pages" \notin Faults} : result' = [by |-> Vision, pagesOk |-> ok]
    /\ missed' = {}
    /\ Goto("save")
    /\ UNCHANGED <<submitted, sync, row, queued, run, final, gpu>>

VisionFails ==
    /\ pc = "vision" /\ "vision" \in Faults
    /\ files' \in {files, Written({"result"}, Vision)}
    /\ Fail
    /\ Goto("idle")
    /\ UNCHANGED <<submitted, sync, queued, run, task, gpu, missed>>

(* format_output and save_result overwrite what the subprocess wrote.      *)
Save ==
    /\ pc = "save"
    /\ \/ files' = Written({"result"}, result.by) /\ Goto("commit") /\ UNCHANGED row
       \/ "save" \in Faults /\ Fail /\ Goto("idle") /\ UNCHANGED files
    /\ UNCHANGED <<submitted, sync, queued, run, task, gpu, missed>>

\* Mutant: the row names the engine that was asked for.
CommitRequested ==
    /\ pc = "commit"
    /\ row' = [status |-> IF result.pagesOk THEN "done" ELSE "failed",
               engine |-> requested,
               model |-> row.model \/ final \in VisionEngines]
    /\ Goto(IF final = Parser THEN "entities" ELSE "preview")
    /\ UNCHANGED <<submitted, sync, files, queued, run, task, gpu, missed>>

Commit ==
    /\ pc = "commit"
    /\ row' = [status |-> IF result.pagesOk THEN "done" ELSE "failed",
               engine |-> final,
               model |-> row.model \/ final \in VisionEngines]
    /\ Goto(IF final = Parser THEN "entities" ELSE "preview")
    /\ UNCHANGED <<submitted, sync, files, queued, run, task, gpu, missed>>

WrittenOrMissed(name) ==
    \/ files' = Written({name}, final) /\ UNCHANGED missed
    \/ name \in Faults /\ missed' = missed \cup {name} /\ UNCHANGED files

\* Mutant: a preview that is there is not written again.
PreviewKept ==
    /\ pc = "preview"
    /\ IF files["preview"] = NoFile THEN WrittenOrMissed("preview")
                                    ELSE UNCHANGED <<files, missed>>
    /\ Goto("entities")
    /\ UNCHANGED <<submitted, sync, row, queued, run, task, gpu>>

(* After the commit.  Neither may fail the job.                            *)
WritePreview ==
    /\ pc = "preview"
    /\ WrittenOrMissed("preview")
    /\ Goto("entities")
    /\ UNCHANGED <<submitted, sync, row, queued, run, task, gpu>>

WriteEntities ==
    /\ pc = "entities"
    /\ WrittenOrMissed("entities")
    /\ Goto("idle")
    /\ UNCHANGED <<submitted, sync, row, queued, run, task, gpu>>

(* The worker dies; its entry is delivered again.                          *)
Crash ==
    /\ "crash" \in Faults /\ pc # "idle"
    /\ queued + run < MaxRuns
    /\ queued' = queued + 1
    /\ Goto("idle")
    /\ UNCHANGED <<submitted, sync, row, files, run, task, gpu, missed>>

-----------------------------------------------------------------------------
(* THE API.                                                                *)

(* _run_sync blocks the event loop from the submission to the response:    *)
(* one step.  It always runs the vision pipeline in-process.  An error of  *)
(* save_result is not caught: the row stays processing.                    *)
SyncRun ==
    /\ sync /\ sync' = FALSE
    /\ run' = run + 1
    /\ \E status \in {"done", "failed", "processing"}, saved \in BOOLEAN :
         /\ status = "done" => saved
         /\ status = "failed" => {"vision", "pages", "save"} \cap Faults # {}
         /\ status = "failed" /\ saved => "pages" \in Faults
         /\ status = "processing" => "save" \in Faults /\ ~saved
         /\ row' = [row EXCEPT !.status = status, !.model = TRUE]
         /\ files' = IF saved THEN [files EXCEPT !["result"] = [engine |-> Vision, run |-> run']]
                     ELSE files
    /\ UNCHANGED <<submitted, queued, pc, task, gpu, missed>>

Stop ==
    /\ ~sync /\ row.status \in {"pending", "processing"}
    /\ Fail
    /\ UNCHANGED <<submitted, sync, files, queued, run, pc, task, gpu, missed>>

(* job_restart resets the status and the result columns, not the engine,   *)
(* not backend_*, and leaves the files where they are.                     *)
Restart ==
    /\ ~sync /\ queued + run < MaxRuns
    /\ row' = [row EXCEPT !.status = "pending"]
    /\ queued' = queued + 1
    /\ UNCHANGED <<submitted, sync, files, run, pc, task, gpu, missed>>

Next ==
    \/ Pick \/ Route
    \/ ParserAccepted \/ ParserRejected \/ ParserDies \/ PinnedFails \/ FallBack
    \/ Ensure \/ VisionEnds \/ VisionFails
    \/ Save \/ Commit \/ WritePreview \/ WriteEntities \/ Crash
    \/ SyncRun \/ Stop \/ Restart

Spec == Init /\ [][Next]_vars

-----------------------------------------------------------------------------
(* WHAT THE API SHOWS.  Each request reads the row and the directory in    *)
(* one step of the event loop.                                             *)

Exists(name) == files[name] # NoFile
Done == row.status = "done"
ResultBy == files["result"].engine

StructureUrl == Done /\ row.engine = Parser /\ Exists("structure")

(* get_job_structure: 200 rather than 404 or 409.                          *)
StructureServed == Done /\ Exists("structure")

-----------------------------------------------------------------------------
(* PROPERTIES.                                                             *)

(* The variables hold what the code can put there.                         *)
TypeOK ==
    /\ doc \in Docs /\ requested \in Requests /\ sync \in BOOLEAN
    /\ row \in [status : {"pending", "processing", "done", "failed"},
                engine : Engines \cup {"none"}, model : BOOLEAN]
    /\ files \in [Names -> [engine : Engines \cup {"none"}, run : 0..MaxRuns]]
    /\ queued \in 0..MaxRuns /\ run \in 0..MaxRuns
    /\ pc \in {"idle", "route", "parser", "rejected", "gpu", "vision", "save",
               "commit", "preview", "entities"}
    /\ final \in Engines \cup {"none"}
    /\ result \in [by : {"none", Parser, Vision}, pagesOk : BOOLEAN] /\ gpu \in BOOLEAN
    /\ missed \subseteq {"preview", "entities"}

(* A caller who pins the CPU parser never pays for a GPU, whatever the     *)
(* parser makes of the document and however often the job runs             *)
(* (ocr_worker.py:139-142).                                                *)
PinNeverStartsGpu == requested = Parser => ~gpu

(* What the parser extracted from a document without enough text is in the *)
(* directory, but it is never the result of a done job.                    *)
RejectedTextIsNotServed == Done /\ ResultBy = Parser => doc = "digital"

(* A done row that names an engine names the one that wrote the file that  *)
(* GET /result serves, over all runs of the job (ocr_worker.py:239).       *)
EngineNamesResult ==
    Done /\ row.engine # "none" => (ResultBy = Vision <=> row.engine \in VisionEngines)

(* The structure a client is pointed to belongs to a result of the parser: *)
(* its boxes are boxes of that text.                                       *)
StructureUrlFits == StructureUrl => Exists("structure") /\ ResultBy = Parser

(* A job at rest that is done has the preview and the values of the run    *)
(* that wrote its result, unless that very write failed, although both are *)
(* written after the commit, and whatever stops, restarts and crashes came *)
(* before.  (Only the API's own run writes neither.)                       *)
SidecarsCatchUp ==
    Done /\ row.engine # "none" /\ pc = "idle" /\ queued = 0 =>
        \A f \in {"preview", "entities"} \ missed : files[f].run = files["result"].run

(* requested_engine: "opendataloader pins the CPU parser and disables      *)
(* fallback" (schemas.py:144).                                             *)
PinHonoured == Done /\ requested = Parser => ResultBy = Parser

(* GET /structure: "Returns 404 Not Found for jobs served by the vLLM      *)
(* engine" (jobs.py:292).                                                  *)
StructureNotFoundForVision == ResultBy = Vision => ~StructureServed

(* backend_model: "Vision-LLM model that served this job"                  *)
(* (schemas.py:129).                                                       *)
ModelServedTheJob == Done /\ row.model => ResultBy = Vision
=============================================================================
