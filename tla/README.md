# DocklyOCR in TLA+

DocklyOCR turns uploaded PDFs and images into text: a FastAPI process takes jobs,
an ARQ worker reads them with a CPU parser or with a vision model on a rented GPU,
an admin page and a TTL cleanup change the same rows and directories. This
directory holds the models of that system, the TLC configurations that check
them, and theorems that TLAPS has proved. Paths below are those of the repository
(`src/app/...`, `src/scripts/...`).

    tlc -workers 2 -config JobLifecycle_races.cfg MCJobLifecycle.tla
    tlc -workers 2 -config Reading_moving.cfg MCReading.tla
    tlapm EntitiesProofs.tla

## 1. The system

| Part | Code | State it keeps | Operations |
|---|---|---|---|
| Door | `middleware.py`, `auth.py` | `api_keys` | refuse by declared length, look up the key, limit |
| Submission | `routers/ocr.py` | a row per job, the upload | `submit_ocr`, `_run_sync`, `_run_async` |
| Batches | `routers/ocr.py` | up to 50 rows, their uploads | `submit_ocr_batch` |
| Worker | `workers/ocr_worker.py` | none but its copy of the row | `process_ocr_job`, `deliver_with_retry`, the cleanup cron |
| Queue | ARQ on Redis (external) | entries: job, try, delay | enqueue, run, run again, finish |
| Admin | `routers/admin.py` | session, customers, keys | stop, restart, delete, revoke |
| Cleanup | `services/cleanup.py`, `scripts/cleanup_old_results.py` | the rows it selected | select, remove directories, commit |
| Storage | `services/storage.py` | `<job>/input`, `result`, `structure`, `preview`, `layout`, `entities` | save, get, delete |
| Webhook | `services/webhook.py` | `webhook_attempts`, `webhook_delivered` | POST, record, defer one retry |
| Engine routing | `services/document_router.py`, `services/ocr_runner.py` | `engine`, `requested_engine` | select, judge, fall back |
| OCR pipeline | `services/ocr_pipeline.py` | futures, results, files in one temporary directory | pool, merge, breaker, strategies |
| GPU selection | `services/gpu_manager.py` | none: reads the cloud | probe, power on, wait |
| GPU shutdown | `scripts/scaleway-deploy/auto-shutdown.sh` | the idle timer in `/tmp` | look, reset, switch off |
| Rate limiter | `auth.py` | a deque of times per key | `check` |
| Reading | `routers/jobs.py` | none | list page by page, status, result, side files; by customer |
| Value extraction | `entity_extractor.py` | none: text and structure in, values out | scan pages, drop repetitions, categories, boxes, counts |
| Pure code | `formatters.py`, `html_preview.py` | none | - |

The parts meet in two places that nothing locks: the `jobs` table, where every
session holds a copy of the row and writes back the columns it changed, and the
directory of a job. API and worker are one event loop each. Handlers are `async`
but call blocking code, so a loop is given up only at an `await`: the enqueue in
the API, the webhook POST in the worker. In particular `subprocess.run` holds the
worker's loop for the whole pipeline. Everything else interleaves: two queue
entries of one job after a restart, an admin who stops or deletes under a running
task, a cleanup pass in a process of its own, a worker that dies and whose entry
ARQ runs again, the threads of the page pool in one directory, the shutdown script
on the box against the worker that is about to use it.

What makes each part correct: no accepted job is forgotten and none is resurrected;
a done job has the result it claims; counters and flags of the webhook tell the
truth; the engine column names what is served, and a pin costs no GPU; the text of
a document survives the merge in any order of completion; a page fails only after
every strategy; the search for a box tries them all and ends, and boxes stop costing money;
a key is never admitted more often than its limit nor less often than promised;
every row of a batch is on the queue or its loss has a name, and the answer says
which; a client that pages through its jobs misses none, and what it downloads is
the whole result of the run its row spoke of, unless that job was run again meanwhile;
an amount is read once, at its value.
`PROJECT.json` lists the hazards, each at its line.

## 2. Modules

| Module | Models | State and actions against the code |
|---|---|---|
| `JobLifecycle` | submission, worker, stop, restart, delete, cleanup, crashes | `row` is the table, `files` the directories, `entry` the queue with the task that serves each entry, `api` the handler that holds the API's loop, `cleaner` a pass. One action per statement that reads, commits or touches a file; `Flush` is SQLAlchemy's UPDATE of changed columns, `Commit` its error on a row that is gone. `used`, `stranded`, `purged` are history. |
| `JobPromise` | what a client may see a job do | phases and the moves between them, no job open for ever; implemented by `JobLifecycle` under the mapping `Phase` |
| `WebhookDelivery` | `deliver_webhook`, `_schedule_webhook_retry`, `deliver_with_retry` | the copy read before the POST, the answer, the commit of copy plus one, the decision to defer one retry. The run of the pipeline is its first and last commit. `sent`, `lost` and `disturbed` are history. |
| `EngineRouting` | `select_engine`, `ocr_runner`, pin, fallback, result and side files | `files` records for each file which engine and which run wrote it, `row` what the API shows |
| `PagePool` | `run_ocr`: pool, `as_completed`, boundary merge, breaker | `stage` of each future, `results`, `next` to write, the main thread's position |
| `PageWork` | the strategies of one page and their files, for all pages of a pool | `files` is the shared temporary directory, `Glob` the cleanup pattern `pg<n>*`, `readable` the pages whose image Pillow can open |
| `GpuFleet` | `ensure_any_gpu_running` and `auto-shutdown.sh` | `box` the states of VM and vLLM unit, `timer` the idle file, `check` the script, `worker` the search; time in minutes |
| `RateLimiter` | `InMemoryRateLimiter.check` | `buckets`, the answer given, and `granted`, the history of what was let through |
| `Intake` | middleware, key lookup, the limiter behind it, `submit_ocr_batch`, the operator, a restart of the API | extends `RateLimiter`: `OverLimit` and `Admit` contain its `Refuse` and `Grant`. `batch` is the handler and its answer, `row` the table, `queued` the queue; one action from await to await. `stranded` is history. |
| `Reading` | `list_jobs`, `get_job_result` and the side files, against worker, operator and cleanup | `walk` is the client that pages, with the query of a page and the count before it as two statements; `fetch` a download: the row is read, the file looked for, measured, sent |
| `Amounts` | `_extract_amounts` | operators only: the matches of the three patterns over a text of words, also what the prefix pattern takes of a date or a decimal (`Taken`), and what the writer of the text meant |
| `Concatenation` | - | one operator, sequences one behind the other: the lines of a document in `PagePool`, the words of a page in `Entities` |
| `Entities` | `extract_entities` | extends `Amounts`. One action per pass over the document: scan a page, drop repetitions, headers, boxes, counts. `doc.pages` is the text, `doc.parsed` what `structure.json` has of it, which need not be the same |
| `MC*` | - | symmetry sets and page shapes for TLC |
| `*Proofs` | - | theorems, section 5 |

The modules are compositions of their own: `JobLifecycle` composes API, queue,
worker, cleaner, table and directories; `WebhookDelivery` refines the last step of
its worker; `EngineRouting` refines what lies between its `MarkProcessing` and
`CommitOutcome`; `PageWork` is the inside of `PagePool`'s `FinishPage`; `Intake` is
door, limiter, batch and queue in one state machine, and what it leaves in the queue
is what an entry of `JobLifecycle` begins with; `Reading` has the same writers as
`JobLifecycle`, reduced to what a reader sees of them, and the reader's own steps.
They are checked apart, because the product would be out of reach and they meet only at the
steps named here.

## 3. What the runs check

Bounds are constants of the configurations; every one is named there.

| Run | Question | Bounds, and why they are enough |
|---|---|---|
| `JobLifecycle_races` | no job lost, results servable, deletion final, nothing run twice without cause | one job, two entries, two tries, every operation and crash. A second entry is what a restart adds and a second try what a crash adds; a third repeats the same overlap. |
| `JobLifecycle_live` | `JobLifecycle` implements `JobPromise`, with liveness | one job, no symmetry (unsound for liveness) |
| `JobLifecycle_cleanup_race` | counterexample, see section 4 | one job, one pass, one restart |
| `WebhookDelivery_races` | attempts were made; a second chance, after the second delay and no third; nothing after success; every delivery ends | three entries: a run, its retry and the run of a restart; no symmetry, as the last question is one of liveness |
| `Intake_batches` | no row of a batch forgotten, the answer true, window and remainder kept | one batch of up to three files, sent again when refused, limit two: the third admitted request meets the limit, and the enqueue loop has a first, a middle and a last file. Files of size 1 and 2 against a limit of 1: too large alone, or only together. |
| `EngineRouting_faults` | pin, rejected text, engine column, side files | all kinds of document and request, three runs: one that leaves files, one that is rejected or dies, one that succeeds |
| `PagePool_pages` | text preserved, order irrelevant, what was read counts and keeps the breaker shut, termination | three pages: a line can move twice; two threads, a threshold of two (three in the code) so that the breaker can trip with pages running and pages queued; all 10 page shapes the merge can tell apart |
| `PageWork_pool` | strategies of a page no other page's glob reaches, no leftovers | pages 1 and 12 in every interleaving: two numbers that can be in a pool of twelve threads together, one beginning with the other, and the first one out of the other's reach |
| `PageWork_overlap` | counterexample | pages 1 and 12 |
| `GpuFleet_fleet` | no candidate skipped, search ends, billing stops | none to two candidates, with and without credentials, two jobs, every fault; a boot limit of two minutes, longer than the idle limit needs to be overtaken |
| `Entities_values` | amounts exact, a cell has the category of its header | 42,576 documents: every prose of five words of money in any mixture of notations (a match has at most three words, so five hold two that overlap), shorter ones with labels, dates, contract numbers and references beside a mark, pages with a table of two columns, merged or not, before a page that repeats its values, with a structure that is missing, theirs, theirs without page numbers, or the one page's in place of the other's |
| `Reading_moving` | no job missed, a download is the whole result of the run the row spoke of, unless a later run began | three jobs, one of another customer, pages of one job: a page boundary lies between any two; two runs of a restarted job, one job that expires |

Fairness. `JobLifecycle`: weak fairness of the steps of a handler that has begun, of
each entry's enqueue and task steps: both loops keep running, every call they
block on has a time limit (`subprocess.run(timeout=...)`, httpx timeouts), and
the containers restart. No fairness for requests, operators, the cleaner or
crashes. A job whose entry can be lost (no pool, Redis down, the API dies before
the enqueue, `save_result` raising in a sync run, `max_tries`) is counted in
`stranded` at the very step that loses it, and nothing else may keep it open.
`WebhookDelivery`: weak fairness of each entry, of which `ChainEnds` needs that a
delivery that has begun goes on: httpx and the job have a timeout. `PagePool`: of the threads and of
the main thread, as every request has a timeout. `GpuFleet`: of the worker, the
clock, the scripts and the boot of a VM; none for a unit that is loading, which may hang
for ever, active and without `/v1/models`, and none for `VllmRestarts`, because
`Restart=always` does not make a broken unit start. Therefore `BillingStops` excepts a box
whose unit is down or loading, for good or again and again.

Deadlock is checked in `GpuFleet_fleet` only; in the other models the work
really comes to an end (every entry used, every page taken, the clock's bound).

Properties that deserve a remark:

- `NoLostJob` is the safety form of "no job hangs": an open row has a submission,
  an entry or a task that will write its status, or a named failure stranded it.
  It is stronger than the row's type: a task that read the row as *failed*
  (stopped while queued) writes `status` only if that differs from its copy.
- `NoPostAfterDelivery` excepts runs after a restart and re-delivered entries; both
  do post again, by design of ARQ and of the restart.
- `SecondChance` says what the retry really is: without a restart or a re-delivery one
  retry, after the second of the three delays, because the attempt is counted before the
  index is taken, and no third POST, because `deliver_with_retry` schedules nothing. The
  documents promise more: `ThreeAttempts` in section 4.
- `OrderIrrelevant` compares the result of every completion order with the
  sequential merge of the pages, defined apart (`Sequential`).
- `SidecarsCatchUp` holds at rest only: `done` is committed before preview and
  entities are written, so a reader may for a moment see those of an earlier run.
- `AnswersAreHonest` is an action property about two successive requests of a key with
  time passing in between: who was told of a remainder is let through, and who is
  refused has really had `Limit` requests in the window. `Intake_batches` checks it
  behind the door, where a revoked key and a restart lie between the two. It is about
  what `check` returns; `enforce_rate_limit` (`auth.py:215-221`) discards that when the
  request is let through, so that no client reads the remainder.
- `RowsHaveAFate` is `NoLostJob` for batches: the handler commits all rows before it
  looks for the pool and enqueues one by one, and an operator may delete a sibling
  while it awaits, so that the handler itself raises.
- `WalkMissesNothing` holds although the list is sorted by the newest first and read
  with an offset: a job that comes in shifts the others back, so that one is seen
  twice, never skipped. It needs that none leaves the list, and a walk to the first
  short page; `TotalIsEnough` below shows why not the announced total.
- `DownloadIsTheResult` spans three looks at the file by two parties: the handler's,
  the response's stat and its read. It excuses a download during which the same job is
  run again: that run writes into the same file, and the body may be torn or the new one.
- `AmountsAreExact` compares the passes of the code with `Meant` and `Meaning`, which are
  defined without patterns or order, figure by figure. Excepted are single places, never
  whole texts: `Misread` names those where a pattern by itself reads something else. Each
  of them is a sentence of section 4.
- `HeaderDecides` excepts merged headers that the structure cannot place, and values that
  a structure finds although it does not have the page as it is in the text: a line may be
  broken differently, and beside the text of the vision model lies the structure of a
  rejected parser.
- `SuccessCounts` is about two places at once: the merge may empty a page, and
  `pages_ok = 0` fails the job in the worker.

## 4. Where code and words differ

Two disagreements are runs of the project (`expect: violation`):

- `JobLifecycle_cleanup_race`: `cleanup_old_jobs` deletes what it selected, also a job
  that `job_restart` opened meanwhile, against "never delete in-flight jobs"
  (`services/cleanup.py:10`).
- `PageWork_overlap`: `_cleanup_page_tmpfiles` of page 1 removes the files of page 12, which
  then fails with its first strategy, against "after all fallback strategies"
  (`schemas.py:120`).

The modules also state the following sentences of docs and comments; TLC finds
each violated with the configuration named, which can be run in the same way. A
configuration called `*_sentences` lists several, one active and the others commented out,
because TLC stops at the first violation.

| Configuration | Sentence | What the code does |
|---|---|---|
| `JobLifecycle_finished_at` | `schemas.py:95`: null until done or failed | a job stopped while queued is picked up and shows `processing` with `finished_at` |
| `JobLifecycle_error_message` | `schemas.py:124`: populated when failed | a stopped job that still runs ends `done` with the message of the stop |
| `WebhookDelivery_sentences` | `routers/ocr.py:97`: the final payload on completion (`PostsAreFinal`) | a restart between commit and POST makes it report `pending` |
| | `schemas.py:181`: attempts made so far (`CounterNeverRunsBack`) | of two overlapping deliveries the older copy wins |
| | `schemas.py:177`: completion delivered (`DeliveredAfterCompletion`) | the answer of the run before the restart marks the new run |
| | three attempts after 30 s, 2 min and 10 min (`OCR-API-Projekt-Anforderungen.md:208`, `:354`; `services/webhook.py:4`, `:25`; `ocr_worker.py:10`; `routers/ocr.py:97`) (`ThreeAttempts`) | a run posts twice: once by itself and once by its retry, which schedules no other; the delay is 2 min, 30 s and 10 min are never used |
| `Intake_listed` | `routers/ocr.py:388`: each file becomes its own job and is in the list | a file that cannot be written has a failed row and is left out of the list |
| `RateLimiter_reset` | `auth.py:182`: when the oldest entry leaves | the reset time is rounded down, a client that waits for it is refused |
| `PagePool_failed` | `schemas.py:120`: pages the pipeline failed on | a one-line page that the merge empties counts as failed |
| `EngineRouting_pin_sync` | `schemas.py:144`: pins the CPU parser | `_run_sync` never looks at the pin |
| `EngineRouting_structure` | `routers/jobs.py:292`: 404 for vLLM jobs | the rejected parser run leaves `structure.json`, which is served |
| `EngineRouting_model` | `schemas.py:129`: the model that served this job | `backend_model` survives a restart that moves the job to the parser |
| `GpuFleet_crashed` | `auto-shutdown.sh:4`: stops after 2 min idle | with vLLM down, `set -e` ends the script before it looks at the timer; a unit that hangs while it loads resets the timer every minute |
| `GpuFleet_idle` | the same | one look per minute, carried out up to 15 s later: a box in use is switched off |
| `GpuFleet_warmup` | `auto-shutdown.sh:22`: warm-up must not be killed | `/v1/models` answers before the graphs are compiled, and the timer runs |
| `Reading_sentences` | a client stops at the `total` of the page (`TotalIsEnough`) | count and page are two statements; a job that comes in behind the count pushes the last one past the total |
| | `SideFileIsWhole`: the same promise for side files | they are written after the job is done, and in place |
| | `routers/jobs.py:197`: 410 when evicted (`GoneIsSaid`) | evicted behind the handler's look, the answer is 500 |
| `Entities_sentences` | `entity_extractor.py:4`: every money amount (`EveryAmountIsFound`) | `1.500 Mio` is not read, and of `EUR 500 EUR 1.500` the suffix pattern takes the second mark for 500, so that 1.500 is lost |
| | `entity_extractor.py:8`: only what is literally there (`OnlyFiguresAreRead`) | the lookahead of the prefix pattern makes `\d+` give digits back: `EUR 25.50` is an amount of 2, `EUR 01.05.2026` one of 0 |
| | `docs/WERTERKENNUNG.md:42`: the factor of 1000 (`NoFactorThousand`) | the prefix pattern matches at the end of TEUR: `TEUR 1.500` is 1500 EUR |
| | `docs/WERTERKENNUNG.md:209`: exact coordinates (`BoxOnOwnPage`) | all elements are searched: a value that its own page's elements do not hold gets the box of another page |
| | `entity_extractor.py:642`: values inside a cell (`OnlyCellValuesOverridden`) | `500 EUR` in the prose is found at the end of a cell that says `1.500 EUR` |
| | `routers/jobs.py:405`: ISO dates (`DatesExist`) | 31.02. passes |

Two more were met while reading and need no model: `ocr_runner.py:103-105` says that a
rejected extraction does "NOT write the output files", but `opendataloader_pipeline.py:268-271`
has written them before the result is judged (what follows from that is in `EngineRouting`);
and `README.md:196` promises a `Retry-After` header with 429, which `auth.py:188-196` does
not send.

## 5. What is proved

TLC checks small instances; the theorems hold for every value of the constants
that satisfies the named assumptions. Most say that bounds are positive and that
operations and faults are known ones; those that say what an input looks like are
`ShapesAssumption` of `PagePool` (a page with text has a line, because `try_ocr` takes an
answer without one for no text) and those of the value extraction. `Amounts`:
`FiguresAssumption` (figures, marks and words with dots are different words),
`StumpAssumption` (what `\d+` takes of a dotted word is a figure or nothing). `Entities`:
`LabelsAssumption` and `VocabularyAssumption` (a label is no figure, the bar that separates
cells is no word, dates have dots), `PartsAssumption` (what the prefix pattern takes is found
in the text again, which is what substrings do), `DocumentsAssumption` (the type of a document),
`RadiusAssumption`, and `TablesAssumption` (every column of the text stands under exactly one
header, and the headers of a table without merged ones are numbered as its columns;
`HeaderDecides` says nothing of other tables). Nothing is assumed of the tables of the
structure, nor that it agrees with the text.
TLC evaluates each of them in the run of its module.

Every invariant and every action property of a passing run is stated by one of these theorems.

| Module | Theorem | Statement |
|---|---|---|
| `JobLifecycleProofs` | `TypeCorrect` | `Spec => []TypeOK` |
| | `NoJobIsLost` | `Spec => []NoLostJob` |
| | `DeletionIsFinal` | `Spec => DeletedStaysDeleted` |
| | `DoneJobsAreServed` | `Spec => []ResultServable` |
| | `RerunsAreDeliveries` | `Spec => RerunOnlyOnRedelivery` |
| | `PromiseIsSafe` | `Spec => Promise!Safety`: the refinement of `JobPromise`, without its liveness |
| | `FinishedRowsAreComplete` | without restarts, `Spec => []SettledRowsComplete` |
| `IntakeProofs` | `TypeCorrect`, `WindowIsNeverExceeded`, `AnswersAreTrue` | of the limiter alone: `TypeOK`, `WindowBound`, `AnswersAreHonest` |
| | `IntakeIsTyped`, `WindowHoldsBehindTheDoor`, `AnswersStayTrue`, `NoRowIsForgotten`, `BatchAnswersAreTrue` | all five properties of `Intake_batches` |
| `RunProofs` | `TypeCorrect`, `PinIsFree`, `OnlyAcceptedText`, `EngineIsHonest` | `TypeOK` and three invariants of `EngineRouting_faults` |
| | `SideFilesFit` | `SidecarsCatchUp`, the fourth |
| | `StructureFits` | a structure URL is only shown for a result of the parser |
| | `FleetIsTyped`, `EveryCandidateIsTried` | `FleetTypeOK` and `NoCandidateSkipped` of `GpuFleet_fleet` |
| `ReadingProofs` | `TypeCorrect`, `NoJobIsMissed`, `ResultsAreWhole` | all three properties of `Reading_moving` |
| `WebhookDeliveryProofs` | `TypeCorrect`, `NoAttemptIsInvented`, `SuccessIsTheLast`, `RefusalsAreRetried` | the safety properties of `WebhookDelivery_races` |
| `PipelineProofs` | `PoolTypeCorrect`, `TextIsPreserved`, `OrderDoesNotShow`, `WhatWasReadCounts` | all four invariants of `PagePool_pages` |
| | `WorkTypeCorrect`, `NothingIsLeftBehind`, `FailsAfterAllStrategies` | all three invariants of `PageWork_pool` |
| `EntitiesProofs` | `TypeCorrect`, `AmountsAreReadExactly`, `TheHeaderDecides` | all three invariants of `Entities_values`: `TypeOK`, `AmountsAreExact`, `HeaderDecides` |
| | `ValuesInvariance` | `Spec => []ValuesInv`, from which they follow |
| | `NothingIsReadTwice`, `EveryTextIsRead` | for every text: no figure in two matches; outside the misread places what is read is what is meant |
| `ConcatenationProofs` | - | lemmas only: induction up to n, and what `Concatenated(w, n)` is for every n |

*JobLifecycle.* `TypeOK` is inductive, with one lemma per process. `NoLostJob` is not:
a submission that has inserted its row must still find it open when it enqueues.
`SubmitsOpenRow` adds that, and `LostInv` is inductive. Each commit goes through
`StatusAfter`, which says what a flush leaves in `status` from the copy and the
table. `DeletionIsFinal` needs `TypeOK` only: every write of a row is either an insert
of an id never used or an UPDATE, and an UPDATE of a missing row changes nothing.
`FinishedRowsAreComplete` is about two columns, so its invariant `SettledInv` also
says what the copies in flight may write back (`CopiesHold`). It assumes that
`"restart"` is no operation: the copy `job_restart` holds may be written over an
outcome, and the reset columns are then those of the new run.
`JobLifecycle_two.cfg` checks the same invariant for two jobs. `DoneJobsAreServed` needs to know who
may be in the directory of a job: at most one task holds the worker's loop (`OneTask`), a
submission has no task (`UsedJobs`), and where a task may write, its row is not done
(`TaskServes`), which holds because two steps alone make a row done (`NoNewDone`) and a mark
that writes nothing found the row open. `RerunsAreDeliveries` looks at the first entry of a
job: until it is marked only the API writes the row, its copy is the row, and only a stop
can have finished it (`FirstInv`); what is not the first never is again (`StaysLate`). `PromiseIsSafe`
maps each step to a step of `JobPromise` or a stutter: a removed job cannot come back, an
unknown one only by its submission (`RowsAppear`, `UsedAndStranded`).

*RateLimiter.* `WindowBound` speaks of all requests ever granted while the code keeps a
bucket. The invariant ties the two: the bucket is a suffix of `granted`
(`BucketIsSuffix`) and everything before it has left the window for good
(`RestHasLeft`). When a request is granted the bucket is shorter than the limit, so
the entry `Limit` places earlier is in the part that has left. `RoomIsLeft` carries
the promise of `X-RateLimit-Remaining` to the next request. `Evicted` takes the first
live entry with CHOOSE; that one exists is `FirstPosition`, from the library's
well-foundedness of the naturals.

*Intake.* Every step of `Intake` is a step of `RateLimiter`, leaves the limiter alone,
or is the restart that empties it, so that the limiter's invariant carries over
(`LimiterStep`, `RestartStep`) and its lemmas are cited, not repeated. `BatchInv` adds what
the handler holds: files it has not enqueued have rows or are stranded (`HasFate`),
a refused request has left nothing (`NothingYet`), what is listed is what was saved
and is on the queue up to what is still to do (`ListedFits`).

*EngineRouting.* `EngineNamesResult` relates row and directory at the end of a run, so
the invariant follows the run: until its last commit the row is not done
(`NotDoneWhileRunning`), and from save to commit the result at hand, the file and
`final` agree (`ResultFits`). `PinKept` keeps a pinned run off the branch to the GPU. `SideInv` follows the side
files from the subprocess to the rest of the run.

*Reading.* A page is a range of ranks in a list whose members come and go. `Ahead` says
that every job the walk has not seen stands at or behind the offset: jobs that come in
only push it back, and reading a page takes away the ranks the offset skips
(`RanksAreDense`, `PageIsFull`, by finiteness of the set of jobs). A short page then
leaves nobody behind (`ShortIsLast`). `ResultsAreWhole` follows the file from the worker
that writes it (`RunFits`, `SavedFits`) to the row that claims it (`DoneFits`) and the
reader that has measured it (`FetchFits`).

*WebhookDelivery.* Without a restart there is one chain of entries, of which at most one will
still send (`OneChain`): an entry that has its answer either marks the delivery or leaves one
successor, never both. That is why no POST follows a success. `RefusalsAreRetried` holds
for overlapping deliveries too; its invariant says that as long as the second POST is missing
some entry stands for it (`StandsFor`). Undisturbed the chain has a run and at most one retry,
so that the counter is one when the delay is taken and the limit is never met. The variable
`lost` records that the counter was at its limit when an entry decided to give up: an older
copy may lower the counter later, so the state alone no longer tells.

*GpuFleet.* `NoCandidateSkipped` is about the moment the search raises, so `SearchInv` follows
the search: before the candidate at hand every one has a verdict that gives it up
(`GivenUpBefore`), and this is still so when the search ends without a box. Whatever clock,
scripts, boxes and faults do meanwhile leaves position and verdicts alone.

*PagePool.* The claim is that the order of completion does not show, of recursive functions
of the pages. `PoolInv` says it of every moment: the results as merged so far, with the pages
that are still missing filled in from what the backend yields (`Filled`), are what merging the
first `next - 1` pages in sequence makes of the document (`MergedUpTo`). Taking a page
changes what is missing and not what it is filled with; merging a boundary is one step on both
sides. At the end nothing is missing, and the document is `Sequential`. A page that the breaker
left without text counts like one that the backend left without, which is why the invariant
also knows that after the breaker no page that was taken has text. `TextPreserved` and
`SuccessCounts` are then facts about the sequential merge: a move takes a line from one page to
the one before it and changes no concatenation (`ConcatenationProofs`).

*Recursive functions.* The library's induction takes an operator as a parameter. Here the
induction is stated of a set of numbers (`Induction`, from the well-foundedness of the
naturals): the set of those n for which the function built step by step exists. That a
function given by a CHOOSE has the values of its recursive definition follows, and facts
about it are shown in the same way.

*PageWork.* The theorems hold for every set of pages and every relation between their names.
`TidyInv` ties each file on disk to the step of the page that will remove it. `TriedInv` is
about pages whose names no other page's glob reaches: their files are where the strategy left
them (`FilesHere`) and every strategy before the current one has been tried (`Tried`);
`OtherPage` says once that the steps of other pages do not touch them.

*Amounts.* No recursion is needed: `finditer` takes the leftmost match, and as each match
holds one figure the matches of a pattern are a set, one per figure. `EveryTextIsRead`
has two directions. A figure that is meant is matched by the pattern its mark calls for, and
the passes before leave it (`MeantIsCaptured`); what is kept belongs to a figure with a mark
of its own (`CapturedIsMeant`), because a match that would take the mark of a neighbour
overlaps the neighbour's.

*Entities.* A value is found in the text of a page and judged by what is looked up later in the
document, so `ValuesInv` says of each value where it comes from (`KnownInv`): the words it
quotes lie in its page, and as none of them is a bar they lie together (`WordsLieTogether`), in
the prose, in one header or in one cell, which is the k-th behind k bars. The category is
the one read from the context until the pass over the tables, and what the header decides from
then on (`CategoryInv`); `TablesAssumption` gives the one header it needs, and a structure that
has the page as it is finds the value in its own cell at least (`OwnCell`). The amount of a value is
a function of its raw text, so that dropping repetitions loses none (`AmountsInv`), and
`EveryTextIsRead` says that the amounts of a page are the ones meant. `TypeCorrect` adds that the
nearest label exists where one is in reach (`ProximityTyped`, by `LastPosition`), and that a
structure of any shape hands out labels only (`HeaderTyped`).

Left to TLC: liveness (`PromiseKept` beyond its safety part, `ChainEnds`, `Terminates`,
`SearchEnds`, `BillingStops`) and anything about ENABLED, which the provers at hand do not
handle. `JobLifecycle_cleanup_race` and `PageWork_overlap` are counterexamples, there
is nothing to prove.

## 6. Abstractions

- `JobLifecycle`: the failure messages of the worker are one value; the age of a job
  is left open, any finished job may be selected; the cleanup script subsumes the
  cron job, which blocks the worker's loop and so interleaves less; the two event
  loops give way only at their awaits.
- A submission without worker-visible input ("input missing") cannot occur in a
  sync run and is part of the worker's failure otherwise.
- `WebhookDelivery`: one job, a well-formed URL, payload reduced to the status it
  reports; a lost answer and a refusal are the same to the sender.
- `EngineRouting`: one job; the probe's failure is a choice; a crash re-delivers as
  long as `MaxRuns` allows, exhaustion of `max_tries` is in `JobLifecycle`; a sync run
  is one step because it blocks the loop.
- `PagePool`: `as_completed` may yield finished futures in any order, which includes
  every order the library produces; a page's text is its lines, a line what the merge
  looks at; requests that fail are pages without text.
- `PageWork`: glob and unlink are one step; an image is readable always or never; image geometry and the table re-scan
  are left out, the latter is one more request for the rendered
  image, which no glob removes; its answer replaces the text, and `PagePool` leaves open what text
  a page yields.
- `GpuFleet`: minutes; steps that take no time do not straddle a tick; `/tmp` is
  empty after a boot; the cloud's and the local power-off are the same to the box;
  one job at a time, since the worker's loop is blocked. `shutdown_gpu_if_idle`
  is called by nobody and left out.
- `RateLimiter`: a clock that does not step back. A restart is an action of `Intake`:
  the buckets die with the process, so `WindowBound` is a promise of one process.
- `Intake`: files are reduced to an accepted type and a size. Creating the rows of a
  batch is one step, because it has no await; behind an await the session reads a row
  again, save that of the last file, which is still loaded. One batch at a time:
  batches share nothing but limiter and pool. What becomes of a queued job is
  `JobLifecycle`'s. Customers stay active.
- `Reading`: `created_at` is distinct; the client does one thing at a time; `Restarts`,
  `Expired` and `MaxRuns` bound what the others do. A restart needs an input, so an
  expired job is not restarted.
- `Amounts` and `Entities`: words are separated by one white space. What the patterns do below
  a word is modelled where they begin or end inside one: at the end of TEUR, at the first digits
  of a word with dots, and where a raw text is looked up as a substring, which is a relation
  between words (`Tails`, `Heads`). Left out are a one-word raw text in the middle of a
  longer word, words with dots whose beginning looks like a grouped figure (`05.2026`), decimals
  after a comma, and the pass over squeezed spacing. The 60 characters of context are
  `Radius` words; Mrd is another Mio, the euro sign another EUR. A page has one table with
  one data row; the structure is any sequence of such pages.

Not modelled: session login, customer forms and HTML fragments of the admin pages (one
transaction each), request validation that changes no state, output formats and the
HTML preview (pure formatting), rendering and image geometry, schema creation at
start, health checks, and the scripts run once by hand at deployment.

## 7. What is left

In this order:

1. `_ensure_columns` with API and worker starting together (`db.py:73`).
2. Tables whose headers overlap or leave a column out, which `TablesAssumption` excludes.
