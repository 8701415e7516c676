------------------------------ MODULE Amounts ------------------------------
(***************************************************************************)
(* How _extract_amounts of app/services/entity_extractor.py reads amounts  *)
(* of money.  A text is a sequence of words with one white space between   *)
(* them, which is what the patterns allow between a figure and its mark    *)
(* (\s?).  finditer is leftmost and does not overlap; since every match    *)
(* holds exactly one figure, the matches of a pattern are those at all its *)
(* figures.  Mrd is another Mio, the euro sign another EUR.                *)
(***************************************************************************)
EXTENDS Integers, Sequences

CONSTANTS
    Plain,      \* figures without a thousands separator, of at most 4 digits
    Grouped,    \* figures with one: "1.500"
    Figure,     \* the value of each, _to_float_german
    Dotted,     \* words of digits and dots that are neither: "01.05.2026"
    Stump       \* of each the first digits without the last one: "0", or none

Numbers == Plain \cup Grouped
Marks == {"EUR", "TEUR"}
Million == 1000000
Unit == [m \in Marks |-> IF m = "TEUR" THEN 1000 ELSE 1]

ASSUME FiguresAssumption ==
    /\ Plain \cap Grouped = {}
    /\ Dotted \cap Numbers = {}
    /\ (Numbers \cup Dotted) \cap (Marks \cup {"Mio", "none"}) = {}
    /\ Figure \in [Numbers -> Nat]
ASSUME StumpAssumption == Stump \in [Dotted -> Plain \cup {"none"}]

(* The word at a position, outside the text none.                          *)
At(text, i) == IF i \in 1..Len(text) THEN text[i] ELSE "none"

IsNumber(text, i) == At(text, i) \in Numbers
IsMark(text, i) == At(text, i) \in Marks
IsMio(text, i) == At(text, i) \in Plain /\ At(text, i + 1) = "Mio"

-----------------------------------------------------------------------------
(* A match: the position of its figure, its first and last word, its value. *)
Match(at, from, to, value) ==
    [at |-> at, from |-> from, to |-> to, value |-> value]

Overlaps(m, n) == m.from <= n.to /\ n.from <= m.to

(* _AMOUNT_MIO_RE; the currency behind it may be missing.                  *)
MioMatch(text, i) ==
    Match(i, i, IF At(text, i + 2) = "EUR" THEN i + 2 ELSE i + 1,
          Figure[text[i]] * Million)

(* _AMOUNT_SUFFIX_RE: 500 EUR, 500 TEUR.                                   *)
SuffixMatch(text, i) ==
    Match(i, i, i + 1, Figure[text[i]] * Unit[text[i + 1]])

(* What \d+ takes of a word in _AMOUNT_PREFIX_RE.  Of a dotted word its     *)
(* first group is followed by a dot and a digit, which the lookahead        *)
(* forbids, so the pattern gives up the last digit of that group.           *)
Taken(word) == IF word \in Dotted THEN Stump[word] ELSE word

(* _AMOUNT_PREFIX_RE: EUR 500.  It looks at nothing in front of EUR, so it  *)
(* matches at the end of TEUR, too, and reads EUR.                          *)
PrefixMatch(text, i) == Match(i, i - 1, i, Figure[Taken(text[i])])

Positions(text) == 1..Len(text)
MioMatches(text) ==
    {MioMatch(text, i) : i \in {j \in Positions(text) : IsMio(text, j)}}
SuffixMatches(text) ==
    {SuffixMatch(text, i) : i \in {j \in Positions(text) :
                               IsNumber(text, j) /\ IsMark(text, j + 1)}}
PrefixMatches(text) ==
    {PrefixMatch(text, i) : i \in {j \in Positions(text) :
                     Taken(text[j]) \in Numbers /\ IsMark(text, j - 1)}}

\* Mutant: only an overlap with a match of the same place counts.
Untouched(new, old) == {m \in new : \A n \in old : m.from # n.from}

(* The overlap check of the second and third pattern.                      *)
Spared(new, old) == {m \in new : \A n \in old : ~Overlaps(m, n)}

Captured(text) ==
    LET mio == MioMatches(text)
        suffix == Spared(SuffixMatches(text), mio)
    IN mio \cup suffix \cup Spared(PrefixMatches(text), mio \cup suffix)

-----------------------------------------------------------------------------
(* The reference: what the writer of a text meant, figure by figure,       *)
(* without patterns, spans or an order of scanning.  A mark belongs to the  *)
(* figure before it, also across Mio, and only without one to the figure    *)
(* behind it.                                                               *)
TakenAhead(text, j) ==
    \/ IsNumber(text, j - 1)
    \/ At(text, j) = "EUR" /\ At(text, j - 1) = "Mio" /\ IsNumber(text, j - 2)

Meant(text, i) ==
    /\ IsNumber(text, i)
    /\ \/ At(text, i + 1) \in Marks \cup {"Mio"}
       \/ IsMark(text, i - 1) /\ ~TakenAhead(text, i - 1)

Meaning(text, i) ==
    Figure[text[i]] *
       (IF At(text, i + 1) = "Mio" THEN Million
        ELSE IF IsMark(text, i + 1) THEN Unit[text[i + 1]]
        ELSE Unit[text[i - 1]])

(* The places the patterns misread: a word with dots that is no figure, a   *)
(* grouped figure in millions and what stands behind its mark, and a figure  *)
(* that only TEUR in front of it makes an amount.                           *)
Misread(text, i) ==
    \/ At(text, i) \in Dotted
    \/ At(text, i) \in Grouped /\ At(text, i + 1) = "Mio"
    \/ /\ At(text, i - 3) \in Grouped
       /\ At(text, i - 2) = "Mio" /\ At(text, i - 1) = "EUR"
    \/ At(text, i - 1) = "TEUR" /\ At(text, i + 1) \notin Marks \cup {"Mio"}

(* What is read of a text is what is meant by it, wherever it is not        *)
(* misread.                                                                 *)
ReadsAsMeant(text) ==
    {<<m.at, m.value>> : m \in {n \in Captured(text) : ~Misread(text, n.at)}}
       = {<<i, Meaning(text, i)>> : i \in {j \in Positions(text) :
                               Meant(text, j) /\ ~Misread(text, j)}}

=============================================================================
