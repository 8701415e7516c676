------------------------------ MODULE PageWork ------------------------------
(***************************************************************************)
(* _ocr_image_with_strategies of app/services/ocr_pipeline.py: what the    *)
(* threads of the pool do for their pages, at the same time and in one     *)
(* temporary directory.  The files of page n begin with pg<n>; a cleanup   *)
(* removes what the glob pg<n>* finds.  Pages are the numbers of the pages *)
(* that are in the pool together.                                          *)
(***************************************************************************)
EXTENDS Naturals, FiniteSets

CONSTANT PoolPages

ASSUME PagesAssumption == PoolPages \subseteq Nat \ {0}

VARIABLES
    at,         \* where the thread of each page is
    strategy,   \* the strategy it is trying
    files,      \* the temporary files that exist: <<page, kind>>
    asked,      \* the strategies the backend was asked with
    readable    \* the pages whose image Pillow can open: never changes

workVars == <<at, strategy, files, asked, readable>>

(* STRATEGIES: the last two render in grayscale, none splits the page.     *)
Strategies == 1..5
Gray == {4, 5}
ColumnSplit == 0

Kinds == {"work", "proc", "left", "right"}

(* The decimal number of page q begins with that of page p.                *)
BeginsWith(q, p) == \E d \in {1, 10, 100, 1000} : q \div d = p

Glob(p) == {f \in files : BeginsWith(f[1], p)}

Go(p, s) == at' = [at EXCEPT ![p] = s]
Has(p, kind) == <<p, kind>> \in files
Ask(p, s) == asked' = [asked EXCEPT ![p] = @ \cup {s}]
Stay == UNCHANGED <<strategy, asked, readable>>

-----------------------------------------------------------------------------
(* The strategy loop.                                                      *)

(* img.save(work_path): the page image itself is never touched.            *)
Save(p) ==
    /\ at[p] = "save"
    /\ p \in readable
    /\ files' = files \cup {<<p, "work">>}
    /\ Go(p, "resize")
    /\ Stay

(* An image that cannot be opened: `continue`, after a cleanup.             *)
SaveRaises(p) ==
    /\ at[p] = "save"
    /\ p \notin readable
    /\ Go(p, "cleanup")
    /\ UNCHANGED files
    /\ Stay

(* A file that is gone raises FileNotFoundError, which nothing catches      *)
(* before run_ocr marks the page ERROR.                                     *)
OpenWork(p) ==
    /\ at[p] = "resize"
    /\ Go(p, IF Has(p, "work") THEN "rewrite" ELSE "error")
    /\ UNCHANGED files
    /\ Stay

RewriteWork(p) ==
    /\ at[p] = "rewrite"
    /\ files' = files \cup {<<p, "work">>}
    /\ Go(p, IF strategy[p] \in Gray THEN "gray" ELSE "ask")
    /\ Stay

MakeGray(p) ==
    /\ at[p] = "gray"
    /\ IF Has(p, "work")
         THEN Go(p, "ask") /\ files' = files \cup {<<p, "proc">>}
         ELSE Go(p, "error") /\ UNCHANGED files
    /\ Stay

Target(p) == IF strategy[p] \in Gray THEN "proc" ELSE "work"

(* try_ocr: text, or no text for whatever reason; all errors are caught.   *)
Answer(p) ==
    /\ at[p] = "ask"
    /\ Has(p, Target(p))
    /\ Ask(p, strategy[p])
    /\ Go(p, "cleanok") \/ Go(p, "cleanup")
    /\ UNCHANGED <<strategy, files, readable>>

NothingToAsk(p) ==
    /\ at[p] = "ask"
    /\ ~Has(p, Target(p))
    /\ Go(p, "cleanup")
    /\ UNCHANGED files
    /\ Stay

CleanupOk(p) ==
    /\ at[p] = "cleanok"
    /\ files' = files \ Glob(p)
    /\ Go(p, "ok")
    /\ Stay

\* Mutant: the last strategy of the list is never reached.
CleanupEarly(p) ==
    /\ at[p] = "cleanup"
    /\ files' = files \ Glob(p)
    /\ IF strategy[p] < Cardinality(Strategies) - 1
         THEN Go(p, "save") /\ strategy' = [strategy EXCEPT ![p] = @ + 1]
         ELSE Go(p, "split") /\ strategy' = [strategy EXCEPT ![p] = ColumnSplit]
    /\ UNCHANGED <<asked, readable>>

\* Mutant: one strategy more than there are.
CleanupLate(p) ==
    /\ at[p] = "cleanup"
    /\ files' = files \ Glob(p)
    /\ IF strategy[p] <= Cardinality(Strategies)
         THEN Go(p, "save") /\ strategy' = [strategy EXCEPT ![p] = @ + 1]
         ELSE Go(p, "split") /\ strategy' = [strategy EXCEPT ![p] = ColumnSplit]
    /\ UNCHANGED <<asked, readable>>

(* On to the next strategy, and after the last one to the column split.    *)
Cleanup(p) ==
    /\ at[p] = "cleanup"
    /\ files' = files \ Glob(p)
    /\ IF strategy[p] < Cardinality(Strategies)
         THEN Go(p, "save") /\ strategy' = [strategy EXCEPT ![p] = @ + 1]
         ELSE Go(p, "split") /\ strategy' = [strategy EXCEPT ![p] = ColumnSplit]
    /\ UNCHANGED <<asked, readable>>

-----------------------------------------------------------------------------
(* _try_column_split_ocr, before the strategies when the page looks like    *)
(* columns ("first") and as the last resort ("split").                      *)

SplitSave(p) ==
    /\ at[p] \in {"first", "split"}
    /\ p \in readable
    /\ files' = files \cup {<<p, "work">>}
    /\ Go(p, IF at[p] = "first" THEN "first2" ELSE "split2")
    /\ Stay

NoSplitResult(p, first) == Go(p, IF first THEN "save" ELSE "failed")

(* The same image again: cleanup and None.  It was no page of columns       *)
(* either, because _detect_columns catches the error, too.                  *)
SplitRaises(p) ==
    /\ at[p] = "split"
    /\ p \notin readable
    /\ files' = files \ Glob(p)
    /\ NoSplitResult(p, FALSE)
    /\ Stay

Halves(p) ==
    /\ at[p] \in {"first2", "split2"}
    /\ IF Has(p, "work")
         THEN /\ files' = (files \ {<<p, "work">>})
                            \cup {<<p, "left">>, <<p, "right">>}
              /\ Go(p, IF at[p] = "first2" THEN "first3" ELSE "split3")
         ELSE /\ files' = files \ Glob(p)
              /\ NoSplitResult(p, at[p] = "first2")
    /\ UNCHANGED <<asked, readable>>
    /\ strategy' = [strategy EXCEPT ![p] = IF at'[p] = "save" THEN 1 ELSE @]

\* Mutant: the halves stay in the directory.
AskHalvesKeeping(p) ==
    LET there == \E side \in {"left", "right"} : Has(p, side)
    IN /\ at[p] \in {"first3", "split3"}
       /\ UNCHANGED files
       /\ asked' = IF there THEN [asked EXCEPT ![p] = @ \cup {ColumnSplit}]
                            ELSE asked
       /\ (there /\ Go(p, "ok")) \/ NoSplitResult(p, at[p] = "first3")
       /\ UNCHANGED readable
       /\ strategy' = [strategy EXCEPT ![p] = IF at'[p] = "save" THEN 1 ELSE @]

(* Both halves are asked for and removed; one answer is enough.            *)
AskHalves(p) ==
    LET there == \E side \in {"left", "right"} : Has(p, side)
    IN /\ at[p] \in {"first3", "split3"}
       /\ files' = files \ {<<p, "left">>, <<p, "right">>}
       /\ asked' = IF there THEN [asked EXCEPT ![p] = @ \cup {ColumnSplit}]
                            ELSE asked
       /\ (there /\ Go(p, "ok")) \/ NoSplitResult(p, at[p] = "first3")
       /\ UNCHANGED readable
       /\ strategy' = [strategy EXCEPT ![p] = IF at'[p] = "save" THEN 1 ELSE @]

-----------------------------------------------------------------------------
(* _detect_columns decides whether a page begins with the column split.    *)
WorkInit ==
    /\ readable \in SUBSET PoolPages
    /\ at \in [PoolPages -> {"first", "save"}]
    /\ \A p \in PoolPages : at[p] = "first" => p \in readable
    /\ strategy = [p \in PoolPages |-> IF at[p] = "first" THEN ColumnSplit ELSE 1]
    /\ files = {}
    /\ asked = [p \in PoolPages |-> {}]

Step(p) ==
    \/ Save(p) \/ SaveRaises(p) \/ OpenWork(p) \/ RewriteWork(p) \/ MakeGray(p)
    \/ Answer(p) \/ NothingToAsk(p) \/ CleanupOk(p) \/ Cleanup(p)
    \/ SplitSave(p) \/ SplitRaises(p) \/ Halves(p) \/ AskHalves(p)

WorkNext == \E p \in PoolPages : Step(p)

WorkSpec == WorkInit /\ [][WorkNext]_workVars

-----------------------------------------------------------------------------
Ended == {"ok", "failed", "error"}

(* Every variable has its type; no strategy past the end of the list.      *)
WorkTypeOK ==
    /\ at \in [PoolPages -> Ended \cup {"save", "resize", "rewrite", "gray", "ask",
                  "cleanup", "cleanok", "first", "first2", "first3", "split",
                  "split2", "split3"}]
    /\ strategy \in [PoolPages -> Strategies \cup {ColumnSplit}]
    /\ files \subseteq PoolPages \X Kinds
    /\ asked \in [PoolPages -> SUBSET (Strategies \cup {ColumnSplit})]
    /\ readable \subseteq PoolPages

(* app/schemas.py:120: a page failed "after all fallback strategies", that  *)
(* is, the backend was asked with each of them, if there is an image at all. *)
FailedAfterAllStrategies ==
    \A p \in PoolPages \cap readable : at[p] \in {"failed", "error"} =>
       Strategies \cup {ColumnSplit} \subseteq asked[p]

(* No other page in the pool has a glob that matches the files of p.        *)
Alone(p) == \A q \in PoolPages \ {p} : ~BeginsWith(p, q)

(* The same for the pages that Pillow can open and that no glob of another  *)
(* page reaches, whatever the other pages do and in whatever order.         *)
AloneFailsAfterAllStrategies ==
    \A p \in PoolPages \cap readable : Alone(p) /\ at[p] \in {"failed", "error"} =>
       Strategies \cup {ColumnSplit} \subseteq asked[p]

(* A page that came to its end leaves no file behind: a document of any     *)
(* length holds the files of the pages in the pool only.                    *)
NoLeftovers ==
    \A p \in PoolPages : at[p] \in {"ok", "failed"} =>
       \A kind \in Kinds : <<p, kind>> \notin files

=============================================================================
