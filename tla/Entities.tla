------------------------------ MODULE Entities ------------------------------
(***************************************************************************)
(* extract_entities of app/services/entity_extractor.py: the values of a   *)
(* document, page by page, without repetitions, then categories and boxes  *)
(* from the structure of the parser, then the counts.                      *)
(*                                                                         *)
(* A page is prose and at most one table with one data row.  In the text   *)
(* the table is a row of headers and a row of cells between bars; in the   *)
(* structure a header may span columns.  What the parser put into the      *)
(* structure is a view of its own: a line may break inside a value, and    *)
(* beside the text of the vision model lies what a rejected parser left.   *)
(* A signal word is a label, and the 60 characters of context are Radius    *)
(* words.                                                                  *)
(***************************************************************************)
EXTENDS Amounts, FiniteSets, Concatenation

CONSTANTS
    Documents,  \* the documents of a run
    Vocabulary, \* the words of their prose and of their cells
    Labels,     \* the words of the two catalogues
    AmountClass, DateClass, \* label -> category, "unbekannt" if not its own
    Dates,      \* date -> day and month, as the pattern reads them
    Short,      \* the figures of at most three digits
    Tails,      \* pairs of words, the first a proper ending of the second
    Heads,      \* the same for proper beginnings
    Radius      \* words of context looked at on each side

ASSUME LabelsAssumption ==
    /\ Labels \cap (Numbers \cup Marks \cup {"Mio", "none", "|"}) = {}
    /\ {DOMAIN AmountClass, DOMAIN DateClass} = {Labels}
ASSUME VocabularyAssumption ==
    /\ "|" \notin Vocabulary \cup Labels \cup Numbers \cup Dotted
    /\ DOMAIN Dates \subseteq Dotted /\ Short \subseteq Plain
(* What the prefix pattern takes of a text is found in it again.           *)
ASSUME PartsAssumption ==
    /\ <<"EUR", "TEUR">> \in Tails
    /\ \A w \in Dotted : Stump[w] # "none" => <<Stump[w], w>> \in Heads
ASSUME RadiusAssumption == Radius \in Nat \ {0}

(* A header covers its span of columns.                                    *)
Covers(head, column) == column \in head.column..head.column + head.span - 1
Merged(page) == \E k \in DOMAIN page.heads : page.heads[k].span > 1

PageShape ==
    [prose : Seq(Vocabulary), cells : Seq(Seq(Vocabulary)),
     heads : Seq([label : Labels, column : Nat, span : Nat])]
ASSUME DocumentsAssumption ==
    Documents \subseteq [pages : Seq(PageShape), parsed : Seq(PageShape),
                         numbered : SUBSET Nat,
                         structure : {"ok", "none", "unreadable"}]

(* The headers of a table tile its columns, in order.                      *)
ASSUME TablesAssumption ==
    \A d \in Documents : \A p \in DOMAIN d.pages :
       LET page == d.pages[p]
       IN /\ \A c \in DOMAIN page.cells : \E k \in DOMAIN page.heads :
                \A j \in DOMAIN page.heads : Covers(page.heads[j], c) <=> j = k
          /\ \/ Merged(page)
             \/ \A k \in DOMAIN page.heads : page.heads[k].column = k

VARIABLES
    doc,        \* pages; structure.json, if it is there and readable: the
                \* pages as parsed, and those whose elements say their page
    next,       \* the page to read
    phase,      \* how far extract_entities has come
    found,      \* the entities; at is the place in the text of their page
    counts      \* meta: amount_categories

vars == <<doc, next, phase, found, counts>>

-----------------------------------------------------------------------------
(* A page as text.                                                         *)
Bars(parts) ==
    <<"|">> \o Concatenated([k \in DOMAIN parts |-> parts[k] \o <<"|">>],
                            Len(parts))
HeadRow(page) == Bars([k \in DOMAIN page.heads |-> <<page.heads[k].label>>])
RowStart(page) == Len(page.prose) + Len(HeadRow(page))
PageText(page) ==
    IF page.heads = <<>> THEN page.prose
    ELSE page.prose \o HeadRow(page) \o Bars(page.cells)

(* _table_column_label: the bars of the row up to the position, and the    *)
(* header with that number, merged or not.                                 *)
MarkdownHeader(page, i) ==
    LET column == Cardinality({j \in RowStart(page) + 1..i :
                                  At(PageText(page), j) = "|"})
    IN IF column \in DOMAIN page.heads THEN page.heads[column].label
                                       ELSE "none"

(* The nearest label before a value, else the nearest one behind it.       *)
LabelsIn(text, range) == {j \in range : At(text, j) \in Labels}
NearBefore(text, from) == LabelsIn(text, from - Radius..from - 1)
NearAfter(text, to) == LabelsIn(text, to + 1..to + Radius)
Proximity(text, from, to, class) ==
    LET known(near) == {j \in near : class[text[j]] # "unbekannt"}
        before == known(NearBefore(text, from))
        after == known(NearAfter(text, to))
    IN CASE before # {} -> <<class[text[CHOOSE j \in before :
                                \A k \in before : k <= j]], "proximity">>
         [] before = {} /\ after # {} -> <<class[text[CHOOSE j \in after :
                                \A k \in after : k >= j]], "proximity">>
         [] OTHER -> <<"unbekannt", "none">>

(* _categorize.                                                            *)
Categorize(page, from, to, class) ==
    LET header == MarkdownHeader(page, from)
    IN IF header = "none" THEN Proximity(PageText(page), from, to, class)
       ELSE IF class[header] # "unbekannt"
         THEN <<class[header], "table_header_md">>
         ELSE <<"unbekannt", "none">>

-----------------------------------------------------------------------------
\* Mutant: pages are counted from zero.
EntityFromZero(kind, p, at, raw, value, category) ==
    [kind |-> kind, page |-> p - 1, at |-> at, raw |-> raw, value |-> value,
     category |-> category[1], source |-> category[2], box |-> 0]

Entity(kind, p, at, raw, value, category) ==
    [kind |-> kind, page |-> p, at |-> at, raw |-> raw, value |-> value,
     category |-> category[1], source |-> category[2], box |-> 0]

(* The text of a match; the prefix pattern may begin and end inside a word. *)
Raw(text, m) ==
    IF m.from < m.at THEN <<"EUR", Taken(text[m.at])>>
    ELSE SubSeq(text, m.from, m.to)

ExtractAmounts(page, p) ==
    LET text == PageText(page)
    IN {Entity("amounts", p, m.at, Raw(text, m), m.value,
               Categorize(page, m.from, m.to, AmountClass)) :
          m \in Captured(text)}

(* _DATE_RE with its check of day and month, and no clause before it: the   *)
(* pattern of clauses matches at the end of "Vertragsnummer", too.         *)
IsDate(text, i) ==
    /\ text[i] \in DOMAIN Dates
    /\ Dates[text[i]].day \in 1..31 /\ Dates[text[i]].month \in 1..12
    /\ At(text, i - 1) \notin {"Ziffer", "Vertragsnummer"}
ExtractDates(page, p) ==
    LET text == PageText(page)
    IN {Entity("dates", p, i, <<text[i]>>, 0,
               Categorize(page, i, i, DateClass)) :
          i \in {j \in Positions(text) : IsDate(text, j)}}

(* Percentages have at most three digits and no separator of thousands.    *)
ExtractPercentages(page, p) ==
    LET text == PageText(page)
    IN {Entity("percentages", p, i, <<text[i], "%">>, Figure[text[i]],
               <<"unbekannt", "none">>) :
          i \in {j \in Positions(text) :
                    At(text, j) \in Short /\ At(text, j + 1) = "%"}}

(* The word after the label of a contract number, if it has a digit and     *)
(* four characters; that an amount may be read there as well is not asked.  *)
(* A label directly behind a label is taken for its number and dropped.     *)
IsContractLabel(text, i) ==
    \E first \in 1..i :
       /\ \A k \in first..i : At(text, k) = "Vertragsnummer"
       /\ At(text, first - 1) # "Vertragsnummer"
       /\ (i - first) % 2 = 0
ExtractPolicyNumbers(page, p) ==
    LET text == PageText(page)
    IN {Entity("policy_numbers", p, i, <<text[i]>>, 0, <<"unbekannt", "none">>) :
          i \in {j \in Positions(text) : /\ IsContractLabel(text, j - 1)
                                         /\ text[j] \in (Numbers \ Short) \cup Dotted}}

(* A condition set with its year, if there is one.                         *)
ExtractReferences(page, p) ==
    LET text == PageText(page)
    IN {Entity("references", p, i,
               SubSeq(text, i, IF At(text, i + 1) = "2008" THEN i + 1 ELSE i), 0,
               <<"unbekannt", "none">>) :
          i \in {j \in Positions(text) : text[j] = "AFB"}}

Extracted(page, p) ==
    ExtractAmounts(page, p) \cup ExtractDates(page, p)
       \cup ExtractPercentages(page, p) \cup ExtractPolicyNumbers(page, p)
       \cup ExtractReferences(page, p)

-----------------------------------------------------------------------------
(* Cells of the structure: of two headers that cover a column the later one *)
(* has it.                                                                 *)

\* Mutant: column span is not looked at.
HeaderAtColumn(page, column) ==
    LET over == {k \in DOMAIN page.heads : page.heads[k].column = column}
    IN IF over = {} THEN "none"
       ELSE page.heads[CHOOSE k \in over : \A j \in over : j <= k].label

HeaderOf(page, column) ==
    LET over == {k \in DOMAIN page.heads : Covers(page.heads[k], column)}
    IN IF over = {} THEN "none"
       ELSE page.heads[CHOOSE k \in over : \A j \in over : j <= k].label

(* _build_table_cells: an empty cell and one below no header are left out. *)
TableCells ==
    UNION {{[page |-> p, column |-> c] : c \in {k \in DOMAIN doc.parsed[p].cells :
               /\ doc.parsed[p].cells[k] # <<>>
               /\ HeaderOf(doc.parsed[p], k) # "none"}} : p \in DOMAIN doc.parsed}
CellText(cell) == doc.parsed[cell.page].cells[cell.column]

(* "raw in text", which may begin and end inside a word: 500 EUR is the end *)
(* of 1.500 EUR, and EUR 2 the beginning of EUR 2008.                      *)
IsTail(x, y) == x = y \/ <<x, y>> \in Tails
IsHead(x, y) == x = y \/ <<x, y>> \in Heads
Occurs(raw, text) ==
    \E k \in 0..Len(text) - Len(raw) :
       IF Len(raw) = 1
         THEN IsTail(raw[1], text[k + 1]) \/ IsHead(raw[1], text[k + 1])
         ELSE /\ IsTail(raw[1], text[k + 1])
              /\ IsHead(raw[Len(raw)], text[k + Len(raw)])
              /\ \A j \in 2..Len(raw) - 1 : raw[j] = text[k + j]

(* A cell that does not say its page is looked at for values of all pages.  *)
Matches(e) == {cell \in TableCells : /\ Occurs(e.raw, CellText(cell))
                                     /\ \/ cell.page \notin doc.numbered
                                        \/ cell.page = e.page}

Class(kind) == IF kind = "amounts" THEN AmountClass ELSE DateClass

(* _enrich_with_table_categories, for one value.                           *)
WithHeader(e) ==
    IF e.kind \in {"amounts", "dates"} /\ Cardinality(Matches(e)) = 1
      THEN LET cell == CHOOSE cell \in Matches(e) : TRUE
           IN [e EXCEPT !.source = "table_header", !.category =
                 Class(e.kind)[HeaderOf(doc.parsed[cell.page], cell.column)]]
      ELSE e

(* The elements of the structure: the prose of a page, headers and cells.  *)
ElementsOf(p) ==
    LET page == doc.parsed[p]
    IN {[page |-> p, no |-> 0, text |-> page.prose]}
         \cup {[page |-> p, no |-> k, text |-> <<page.heads[k].label>>] :
                  k \in DOMAIN page.heads}
         \cup {[page |-> p, no |-> Len(page.heads) + c, text |-> page.cells[c]] :
                  c \in DOMAIN page.cells}
ElementsWith(e) ==
    {el \in UNION {ElementsOf(p) : p \in DOMAIN doc.parsed} :
        Occurs(e.raw, el.text)}

(* _enrich_with_bboxes, for one value: not restricted to its page.  The box  *)
(* is told by the page of the element.                                      *)
WithBox(e) ==
    IF Cardinality(ElementsWith(e)) = 1
      THEN [e EXCEPT !.box = (CHOOSE el \in ElementsWith(e) : TRUE).page] ELSE e

(* The first of equal (raw, page) stays.                                   *)
FirstOnly(ents) ==
    {e \in ents : \A f \in ents :
        <<f.kind, f.raw, f.page>> = <<e.kind, e.raw, e.page>> => e.at <= f.at}

Tally(ents) ==
    [c \in {e.category : e \in {f \in ents : f.kind = "amounts"}} |->
        Cardinality({e \in ents : e.kind = "amounts" /\ e.category = c})]

-----------------------------------------------------------------------------
Init ==
    /\ doc \in Documents
    /\ next = 1
    /\ phase = "scan"
    /\ found = {}
    /\ counts = <<>>

ScanPage ==
    /\ phase = "scan"
    /\ next <= Len(doc.pages)
    /\ found' = found \cup Extracted(doc.pages[next], next)
    /\ next' = next + 1
    /\ UNCHANGED <<doc, phase, counts>>

Dedupe ==
    /\ phase = "scan"
    /\ next > Len(doc.pages)
    /\ found' = FirstOnly(found)
    /\ phase' = IF doc.structure = "ok" THEN "tables" ELSE "count"
    /\ UNCHANGED <<doc, next, counts>>

EnrichTables ==
    /\ phase = "tables"
    /\ found' = {WithHeader(e) : e \in found}
    /\ phase' = "boxes"
    /\ UNCHANGED <<doc, next, counts>>

EnrichBoxes ==
    /\ phase = "boxes"
    /\ found' = {WithBox(e) : e \in found}
    /\ phase' = "count"
    /\ UNCHANGED <<doc, next, counts>>

Count ==
    /\ phase = "count"
    /\ counts' = Tally(found)
    /\ phase' = "ready"
    /\ UNCHANGED <<doc, next, found>>

Next == ScanPage \/ Dedupe \/ EnrichTables \/ EnrichBoxes \/ Count

Spec == Init /\ [][Next]_vars

-----------------------------------------------------------------------------
Kinds == {"amounts", "dates", "percentages", "policy_numbers", "references"}
Classes == {"unbekannt"} \cup {AmountClass[l] : l \in Labels}
                         \cup {DateClass[l] : l \in Labels}

Sources == {"none", "proximity", "table_header_md", "table_header"}

(* Every entity has its type, stands at a place of the page it names, and  *)
(* has a category of the catalogue of its kind of label.                   *)
TypeOK ==
    /\ next \in 1..Len(doc.pages) + 1
    /\ phase \in {"scan", "tables", "boxes", "count", "ready"}
    /\ \A e \in found :
          /\ e.kind \in Kinds /\ e.page \in 1..next - 1
          /\ e.at \in Positions(PageText(doc.pages[e.page]))
          /\ e.value \in Nat /\ e.category \in Classes
          /\ e.source \in Sources
    /\ DOMAIN counts \subseteq Classes

Amounts(p) == {e \in found : e.kind = "amounts" /\ e.page = p}

(* No figure is read twice, whatever notations a page mixes; every figure   *)
(* whose mark is its own is kept with its value through every later step;   *)
(* and what is kept was meant, with that value.  Excepted are the places    *)
(* that the patterns misread.                                               *)
AmountsAreExact ==
    \A p \in 1..next - 1 :
       LET text == PageText(doc.pages[p])
       IN /\ \A e, f \in Amounts(p) : e.at = f.at => e = f
          /\ \A i \in Positions(text) : Meant(text, i) /\ ~Misread(text, i) =>
                Meaning(text, i) \in {e.value : e \in Amounts(p)}
          /\ \A e \in Amounts(p) :
                \/ Misread(text, e.at)
                \/ Meant(text, e.at) /\ e.value = Meaning(text, e.at)

InCell(e) == e.at > RowStart(doc.pages[e.page])
ColumnOf(e) ==
    LET page == doc.pages[e.page]
    IN Cardinality({j \in RowStart(page) + 1..e.at :
                       At(PageText(page), j) = "|"})

(* The structure has the page as it is in the text.                        *)
Same(p) == p \in DOMAIN doc.parsed /\ doc.parsed[p] = doc.pages[p]

(* A value in a cell has the category of the header above it and no other,  *)
(* whether that is known from the bars of the text or from the structure,   *)
(* and whatever stands beside it, in prose or on other pages.  Excepted are *)
(* merged headers where the structure does not place the value in one cell, *)
(* and values that a structure with another view of the page finds.         *)
HeaderDecides ==
    phase = "ready" =>
       \A e \in {f \in found : f.kind \in {"amounts", "dates"} /\ InCell(f)} :
          LET page == doc.pages[e.page]
              above == {k \in DOMAIN page.heads : Covers(page.heads[k], ColumnOf(e))}
          IN \/ /\ Merged(page)
                /\ doc.structure # "ok" \/ Cardinality(Matches(e)) # 1
             \/ doc.structure = "ok" /\ ~Same(e.page) /\ Matches(e) # {}
             \/ {e.category} = {Class(e.kind)[page.heads[k].label] : k \in above}

-----------------------------------------------------------------------------
(* app/services/entity_extractor.py:4: "every money amount ... found in the *)
(* extracted text": each figure beside a mark.                              *)
EveryAmountIsFound ==
    phase = "ready" => \A p \in DOMAIN doc.pages :
       LET text == PageText(doc.pages[p])
       IN \A i \in Positions(text) :
             /\ IsNumber(text, i)
             /\ IsMark(text, i - 1) \/ At(text, i + 1) \in Marks \cup {"Mio"}
             => Meaning(text, i) \in {e.value : e \in Amounts(p)}

(* app/services/entity_extractor.py:8: numbers "must never be               *)
(* hallucinated": what is found is literally in the text.                   *)
OnlyFiguresAreRead ==
    \A e \in found : e.kind = "amounts" =>
       IsNumber(PageText(doc.pages[e.page]), e.at)

(* docs/WERTERKENNUNG.md:42: the factor of 1000 is eliminated.             *)
NoFactorThousand ==
    \A e \in found : e.kind = "amounts" =>
       LET text == PageText(doc.pages[e.page])
       IN At(text, e.at - 1) = "TEUR" /\ Meant(text, e.at) =>
             e.value = Meaning(text, e.at)

(* app/services/entity_extractor.py:642: categories are overridden of       *)
(* "values that sit inside a structured table cell".                        *)
OnlyCellValuesOverridden ==
    \A e \in found : e.source = "table_header" =>
       e.raw \in {CellText(cell) : cell \in Matches(e)}

(* docs/WERTERKENNUNG.md:209: bbox and pdf_page are the exact coordinates,  *)
(* "wenn der Wert eindeutig einem Element zuordenbar war".                  *)
BoxOnOwnPage == \A e \in found : e.box \in {0, e.page}

(* app/routers/jobs.py:405: dates are given as ISO 8601 dates.             *)
DatesExist ==
    \A e \in found : e.kind = "dates" =>
       Dates[e.raw[1]].day <= (IF Dates[e.raw[1]].month = 2 THEN 29 ELSE 31)

=============================================================================
