------------------------------ MODULE PagePool ------------------------------
(***************************************************************************)
(* run_ocr of app/services/ocr_pipeline.py: the pages of one document go   *)
(* through a thread pool, the main thread takes them as they complete,     *)
(* trips a circuit breaker when the backend looks dead, and merges and     *)
(* writes the pages whose predecessors are all there.  What the backend    *)
(* makes of each page is fixed by the document (ocr); the threads decide   *)
(* the order.  PageWork has the inside of one page.                        *)
(***************************************************************************)
EXTENDS Naturals, Sequences, FiniteSets, Concatenation

CONSTANTS
    N,              \* pages of the document
    MaxParallel,    \* MAX_PARALLEL_PAGES
    Threshold,      \* CIRCUIT_BREAKER_FAILED_THRESHOLD
    Shapes          \* the page contents that a run considers

ASSUME BoundsAssumption == /\ N \in Nat \ {0}
                           /\ MaxParallel \in Nat \ {0}
                           /\ Threshold \in Nat \ {0}

Pages == 1..N

(* A line is the pieces of text that stand in it, in order, and the two     *)
(* things the merge looks at: does it end a sentence, does it begin a       *)
(* section.                                                                *)
Line(pieces, ends, starts) == [words |-> pieces, ends |-> ends,
                               starts |-> starts]
Text(lines, table) == [text |-> TRUE, lines |-> lines, table |-> table]
NoText == [text |-> FALSE, lines |-> <<>>, table |-> FALSE]
Missing == [text |-> FALSE, lines |-> <<>>, table |-> TRUE]

(* A shape is a page whose lines hold no pieces yet; try_ocr takes an answer *)
(* without any line for no text.                                           *)
ASSUME ShapesAssumption ==
    \A shape \in Shapes :
       \/ shape = NoText
       \/ /\ shape.lines # <<>>
          /\ shape \in [text : {TRUE}, table : BOOLEAN,
                        lines : Seq([words : {<<>>}, ends : BOOLEAN, starts : BOOLEAN])]

(* Page i of a document: each of its lines is a piece of its own.          *)
Page(shape, i) ==
    [shape EXCEPT !.lines = [l \in 1..Len(@) |->
                               [@[l] EXCEPT !.words = <<<<i, l>>>>]]]

VARIABLES
    ocr,        \* what _process_single_page yields for each page
    stage,      \* of each future
    results,    \* results[i], Missing until the page was taken
    next,       \* next_to_write
    file,       \* the chunks of the incremental writer
    main,       \* where the main thread is
    cursor      \* the next future to cancel

vars == <<ocr, stage, results, next, file, main, cursor>>

-----------------------------------------------------------------------------
(* _merge_across_boundaries for one pair.                                  *)

LastLine(p) == p.lines[Len(p.lines)]
Breaks(p, q) ==
    /\ p.text /\ q.text
    /\ ~p.table /\ ~q.table
    /\ ~LastLine(p).ends
    /\ ~q.lines[1].starts

Joined(a, b) == [words |-> a.words \o b.words, ends |-> b.ends,
                 starts |-> a.starts]

WithoutLast(p) == [p EXCEPT !.lines = SubSeq(@, 1, Len(@) - 1)]

WithHead(p, line) == [p EXCEPT !.lines[1] = line]

\* Mutant: the line stays on the page it came from, too.
MergeCopies(f, k) ==
    IF k > 1 /\ Breaks(f[k - 1], f[k])
      THEN [f EXCEPT ![k] = WithHead(@, Joined(LastLine(f[k - 1]), @.lines[1]))]
      ELSE f

\* Mutant: a page is merged with its successor, before that was merged.
MergeAhead(f, k) ==
    IF k < N /\ Breaks(f[k], f[k + 1])
      THEN [f EXCEPT ![k] = WithoutLast(@),
                     ![k + 1] = WithHead(@, Joined(LastLine(f[k]), @.lines[1]))]
      ELSE f

(* The pages of f after the pair (k - 1, k) was merged.                    *)
Merge(f, k) ==
    IF k > 1 /\ Breaks(f[k - 1], f[k])
      THEN [f EXCEPT ![k - 1] = WithoutLast(@),
                     ![k] = WithHead(@, Joined(LastLine(f[k - 1]), @.lines[1]))]
      ELSE f

-----------------------------------------------------------------------------
(* The pool.                                                               *)

StartPage(i) ==
    /\ stage[i] = "queued"
    /\ \A j \in 1..(i - 1) : stage[j] # "queued"
    /\ Cardinality({j \in Pages : stage[j] = "running"}) < MaxParallel
    /\ stage' = [stage EXCEPT ![i] = "running"]
    /\ UNCHANGED <<ocr, results, next, file, main, cursor>>

FinishPage(i) ==
    /\ stage[i] = "running"
    /\ stage' = [stage EXCEPT ![i] = "finished"]
    /\ UNCHANGED <<ocr, results, next, file, main, cursor>>

-----------------------------------------------------------------------------
(* The main thread.                                                        *)

Taken(text) == {j \in Pages : stage[j] = "taken" /\ ocr[j].text = text}

\* Mutant: the breaker forgets to look at the successes.
TripsAnyway(i) == ~ocr[i].text /\ Cardinality(Taken(FALSE)) + 1 >= Threshold

(* failed_so_far and ok_so_far count what each page yielded when it was     *)
(* taken, page i included.                                                  *)
Trips(i) ==
    /\ ~ocr[i].text
    /\ Taken(TRUE) = {}
    /\ Cardinality(Taken(FALSE)) + 1 >= Threshold

(* as_completed yields the future of page i.                               *)
Take(i) ==
    /\ main = "collect"
    /\ stage[i] = "finished"
    /\ stage' = [stage EXCEPT ![i] = "taken"]
    /\ results' = [results EXCEPT ![i] = ocr[i]]
    /\ main' = IF Trips(i) THEN "cancel" ELSE "write"
    /\ UNCHANGED <<ocr, next, file, cursor>>

\* Mutant: a page without text leaves no chunk.
WriteSkipsFailed ==
    /\ main = "write"
    /\ next <= N
    /\ results[next] # Missing
    /\ results' = Merge(results, next)
    /\ file' = IF results'[next].text THEN Append(file, results'[next]) ELSE file
    /\ next' = next + 1
    /\ UNCHANGED <<ocr, stage, main, cursor>>

(* One turn of the while loop that writes contiguous pages.                *)
WritePage ==
    /\ main = "write"
    /\ next <= N
    /\ results[next] # Missing
    /\ results' = Merge(results, next)
    /\ file' = Append(file, results'[next])
    /\ next' = next + 1
    /\ UNCHANGED <<ocr, stage, main, cursor>>

\* Mutant: the main thread waits for the page that is missing in the order.
StopWritingAtEnd ==
    /\ main = "write"
    /\ next > N
    /\ main' = "done"
    /\ UNCHANGED <<ocr, stage, results, next, file, cursor>>

StopWriting ==
    /\ main = "write"
    /\ next \in Pages => results[next] = Missing
    /\ main' = IF \A j \in Pages : stage[j] = "taken" THEN "done"
                                                      ELSE "collect"
    /\ UNCHANGED <<ocr, stage, results, next, file, cursor>>

(* f.cancel() for each future in turn; the threads go on meanwhile.        *)
CancelPage ==
    /\ main = "cancel"
    /\ cursor <= N
    /\ stage' = [stage EXCEPT ![cursor] = IF @ = "queued" THEN "cancelled"
                                                          ELSE @]
    /\ cursor' = cursor + 1
    /\ UNCHANGED <<ocr, results, next, file, main>>

(* The exception leaves the with block, which waits for running threads.   *)
Raise ==
    /\ main = "cancel"
    /\ cursor > N
    /\ \A j \in Pages : stage[j] \notin {"queued", "running"}
    /\ main' = "raised"
    /\ UNCHANGED <<ocr, stage, results, next, file, cursor>>

-----------------------------------------------------------------------------
Init ==
    /\ ocr \in {[i \in Pages |-> Page(shape[i], i)] : shape \in [Pages -> Shapes]}
    /\ stage = [i \in Pages |-> "queued"]
    /\ results = [i \in Pages |-> Missing]
    /\ next = 1
    /\ file = <<>>
    /\ main = "collect"
    /\ cursor = 1

Thread == \E i \in Pages : StartPage(i) \/ FinishPage(i)
Main == (\E i \in Pages : Take(i)) \/ WritePage \/ StopWriting
          \/ CancelPage \/ Raise

Next == Thread \/ Main

Spec == Init /\ [][Next]_vars

(* The threads run, and every request has a timeout.                       *)
FairSpec == Spec /\ WF_vars(Thread) /\ WF_vars(Main)

-----------------------------------------------------------------------------
(* What every control variable may hold; the pages taken are those present. *)
TypeOK ==
    /\ stage \in [Pages -> {"queued", "running", "finished", "taken",
                            "cancelled"}]
    /\ \A i \in Pages : results[i] # Missing <=> stage[i] = "taken"
    /\ next \in 1..(N + 1)
    /\ Len(file) = next - 1
    /\ main \in {"collect", "write", "done", "cancel", "raised"}
    /\ cursor \in 1..(N + 1)

(* The pieces of a page and of all pages, in order.                        *)
Pieces(p) == Concatenated([l \in DOMAIN p.lines |-> p.lines[l].words], Len(p.lines))
AllPieces(f) == Concatenated([i \in Pages |-> Pieces(f[i])], N)

(* The pages taken, and the others as the backend will give them.          *)
Filled == [i \in Pages |-> IF results[i] = Missing THEN ocr[i] ELSE results[i]]

(* Merging never loses, repeats or reorders a piece of text: at every       *)
(* moment the pages taken, with the others as the backend will give them,   *)
(* read as the document does.                                               *)
TextPreserved == AllPieces(Filled) = AllPieces(ocr)

(* The reference: the pages one after the other, the first n pairs merged.  *)
MergedUpTo(f, n) ==
    LET upTo[k \in 0..n] == IF k = 0 THEN f ELSE Merge(upTo[k - 1], k)
    IN upTo[n]
Sequential == MergedUpTo(ocr, N)

(* The order in which the threads complete does not show in the result.    *)
OrderIrrelevant == main = "done" => results = Sequential

PagesOk == {i \in Pages : results[i].text /\ results[i].lines # <<>>}

(* What was read counts: a document of which some page was read does not    *)
(* end with pages_ok = 0, which the worker turns into a failed job          *)
(* (ocr_worker.py:225), although the merge empties pages; and the breaker   *)
(* never trips behind a page that was taken with its text.                  *)
SuccessCounts ==
    /\ main = "done" /\ (\E i \in Pages : ocr[i].text) => PagesOk # {}
    /\ main \in {"cancel", "raised"} =>
          \A i \in Pages : stage[i] = "taken" => ~ocr[i].text

(* Whatever fails, run_ocr returns or raises.                              *)
Terminates == <>(main \in {"done", "raised"})

(* app/schemas.py:120 of pages_failed: "Number of pages the pipeline failed *)
(* on after all fallback strategies".                                       *)
PagesFailedFailed ==
    main = "done" => N - Cardinality(PagesOk)
                        = Cardinality({i \in Pages : ~ocr[i].text})

=============================================================================
