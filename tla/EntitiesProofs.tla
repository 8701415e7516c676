--------------------------- MODULE EntitiesProofs ---------------------------
(***************************************************************************)
(* What is proved of the values of a document, for documents of every      *)
(* length and any figures, labels and dates.                               *)
(*                                                                         *)
(* First one text: what the patterns of amounts read of it.  Then a page   *)
(* as text: words without a bar between them lie in the prose, in one      *)
(* header or in one cell, and in a cell behind as many bars as its number. *)
(* So a value in a table has a cell of its own page, where the structure   *)
(* has that page as it is.  Last the steps of extract_entities, by the     *)
(* invariant ValuesInv.                                                    *)
(***************************************************************************)
EXTENDS Entities, ConcatenationProofs, FiniteSetTheorems, FunctionTheorems

(* A match of any pattern holds one figure and at most two words more.     *)
LEMMA MatchShapes ==
    ASSUME NEW text, Len(text) \in Nat
    PROVE  /\ \A m \in MioMatches(text) :
                 /\ m.at \in Positions(text) /\ IsMio(text, m.at)
                 /\ m = MioMatch(text, m.at)
           /\ \A m \in SuffixMatches(text) :
                 /\ m.at \in Positions(text) /\ IsNumber(text, m.at)
                 /\ IsMark(text, m.at + 1) /\ m = SuffixMatch(text, m.at)
           /\ \A m \in PrefixMatches(text) :
                 /\ m.at \in Positions(text) /\ Taken(text[m.at]) \in Numbers
                 /\ IsMark(text, m.at - 1) /\ m = PrefixMatch(text, m.at)
  BY DEF MioMatches, SuffixMatches, PrefixMatches, MioMatch, SuffixMatch,
         PrefixMatch, Match

(* A word of a text is a figure, a mark or Mio, and only one of them.      *)
LEMMA OneRole ==
    ASSUME NEW text, NEW i
    PROVE  /\ IsNumber(text, i) => ~IsMark(text, i) /\ At(text, i) # "Mio"
           /\ IsMark(text, i) => At(text, i) # "Mio"
           /\ IsMio(text, i) => IsNumber(text, i)
  BY FiguresAssumption DEF IsNumber, IsMark, IsMio, Numbers, Marks

(* What the prefix pattern takes a figure of is a figure or has dots.      *)
LEMMA TakenFrom ==
    ASSUME NEW word
    PROVE  /\ word \in Numbers => Taken(word) = word
           /\ Taken(word) \in Numbers =>
                 /\ word \in Numbers \cup Dotted /\ word \notin Marks
                 /\ word # "Mio" /\ word # "none"
                 /\ word \notin Dotted => word \in Numbers /\ Taken(word) = word
  BY FiguresAssumption DEF Taken

(* What one pattern matches never overlaps.                                *)
LEMMA PatternIsDisjoint ==
    ASSUME NEW text, Len(text) \in Nat
    PROVE  /\ \A m, n \in MioMatches(text) : m # n => ~Overlaps(m, n)
           /\ \A m, n \in SuffixMatches(text) : m # n => ~Overlaps(m, n)
           /\ \A m, n \in PrefixMatches(text) : m # n => ~Overlaps(m, n)
<1>1. ASSUME NEW m \in MioMatches(text), NEW n \in MioMatches(text), m # n
      PROVE  ~Overlaps(m, n)
  <2>1. /\ m.at \in Int /\ IsMio(text, m.at) /\ m = MioMatch(text, m.at)
        /\ n.at \in Int /\ IsMio(text, n.at) /\ n = MioMatch(text, n.at)
    BY MatchShapes DEF Positions
  <2>2. m.at # n.at
    BY <1>1, <2>1
  <2>3. \A i \in {m.at + 1, n.at + 1} : ~IsNumber(text, i)
    BY <2>1, OneRole DEF IsMio
  <2>4. \A i \in Int : At(text, i) = "EUR" => ~IsNumber(text, i)
    BY OneRole DEF IsMark, Marks
  <2>5. IsNumber(text, m.at) /\ IsNumber(text, n.at)
    BY <2>1, OneRole
  <2>6. /\ m.from = m.at /\ n.from = n.at
        /\ m.to = IF At(text, m.at + 2) = "EUR" THEN m.at + 2 ELSE m.at + 1
        /\ n.to = IF At(text, n.at + 2) = "EUR" THEN n.at + 2 ELSE n.at + 1
    BY <2>1 DEF MioMatch, Match
  <2>7. n.at # m.at + 1 /\ m.at # n.at + 1
    BY <2>3, <2>5
  <2>8. /\ n.at = m.at + 2 => At(text, m.at + 2) # "EUR"
        /\ m.at = n.at + 2 => At(text, n.at + 2) # "EUR"
    BY <2>1, <2>4, <2>5
  <2> QED BY <2>1, <2>2, <2>6, <2>7, <2>8 DEF Overlaps
<1>2. ASSUME NEW m \in SuffixMatches(text), NEW n \in SuffixMatches(text), m # n
      PROVE  ~Overlaps(m, n)
  <2>1. /\ m.at \in Int /\ IsNumber(text, m.at) /\ IsMark(text, m.at + 1)
        /\ n.at \in Int /\ IsNumber(text, n.at) /\ IsMark(text, n.at + 1)
        /\ m = SuffixMatch(text, m.at) /\ n = SuffixMatch(text, n.at)
    BY MatchShapes DEF Positions
  <2>2. n.at # m.at + 1 /\ m.at # n.at + 1 /\ m.at # n.at
    BY <1>2, <2>1, OneRole
  <2>3. m.from = m.at /\ m.to = m.at + 1 /\ n.from = n.at /\ n.to = n.at + 1
    BY <2>1 DEF SuffixMatch, Match
  <2> QED BY <2>1, <2>2, <2>3 DEF Overlaps
<1>3. ASSUME NEW m \in PrefixMatches(text), NEW n \in PrefixMatches(text), m # n
      PROVE  ~Overlaps(m, n)
  <2>1. /\ m.at \in Positions(text) /\ Taken(text[m.at]) \in Numbers
        /\ n.at \in Positions(text) /\ Taken(text[n.at]) \in Numbers
        /\ IsMark(text, m.at - 1) /\ IsMark(text, n.at - 1)
        /\ m = PrefixMatch(text, m.at) /\ n = PrefixMatch(text, n.at)
    BY MatchShapes
  <2>4. m.at \in Int /\ n.at \in Int /\ ~IsMark(text, m.at) /\ ~IsMark(text, n.at)
    BY <2>1, TakenFrom DEF IsMark, At, Positions
  <2>2. n.at # m.at - 1 /\ m.at # n.at - 1 /\ m.at # n.at
    BY <1>3, <2>1, <2>4
  <2>3. m.from = m.at - 1 /\ m.to = m.at /\ n.from = n.at - 1 /\ n.to = n.at
    BY <2>1 DEF PrefixMatch, Match
  <2> QED BY <2>2, <2>3, <2>4 DEF Overlaps
<1> QED BY <1>1, <1>2, <1>3

(* No word of a text is used in two amounts, in whatever order notations    *)
(* are mixed: the matches that are kept are disjoint.                       *)
THEOREM NothingIsReadTwice ==
    ASSUME NEW text, Len(text) \in Nat
    PROVE  \A m, n \in Captured(text) : m # n => ~Overlaps(m, n)
<1> DEFINE Mio == MioMatches(text)
           Suffix == Spared(SuffixMatches(text), Mio)
           Prefix == Spared(PrefixMatches(text), Mio \cup Suffix)
<1>1. \A m, n : Overlaps(m, n) <=> Overlaps(n, m)
  BY DEF Overlaps
<1>2. \A m, n \in Mio : m # n => ~Overlaps(m, n)
  BY PatternIsDisjoint
<1>3. \A m, n \in Suffix : m # n => ~Overlaps(m, n)
  BY PatternIsDisjoint DEF Spared
<1>4. \A m, n \in Prefix : m # n => ~Overlaps(m, n)
  BY PatternIsDisjoint DEF Spared
<1>5. /\ \A m \in Suffix, n \in Mio : ~Overlaps(m, n)
      /\ \A m \in Prefix, n \in Mio \cup Suffix : ~Overlaps(m, n)
  BY DEF Spared
<1>6. Captured(text) = Mio \cup Suffix \cup Prefix
  BY DEF Captured
<1> HIDE DEF Mio, Suffix, Prefix
<1> QED BY <1>1, <1>2, <1>3, <1>4, <1>5, <1>6

-----------------------------------------------------------------------------
(* Where a word is a mark or Mio, there is a text.                         *)
LEMMA WordIsInText ==
    ASSUME NEW text, Len(text) \in Nat, NEW i \in Int,
           IsMark(text, i) \/ At(text, i) = "Mio" \/ IsNumber(text, i)
    PROVE  i \in Positions(text) /\ At(text, i) = text[i]
  BY FiguresAssumption DEF At, IsMark, IsNumber, Marks, Positions

(* A figure in millions is never taken for one with a mark behind it, so    *)
(* the first overlap check spares every match of the suffix pattern.       *)
LEMMA SuffixIsSpared ==
    ASSUME NEW text, Len(text) \in Nat
    PROVE  Spared(SuffixMatches(text), MioMatches(text)) = SuffixMatches(text)
<1> SUFFICES ASSUME NEW m \in SuffixMatches(text), NEW n \in MioMatches(text)
             PROVE  ~Overlaps(m, n)
  BY DEF Spared
<1>1. /\ m.at \in Int /\ IsNumber(text, m.at) /\ IsMark(text, m.at + 1)
      /\ n.at \in Int /\ IsMio(text, n.at)
      /\ m = SuffixMatch(text, m.at) /\ n = MioMatch(text, n.at)
  BY MatchShapes DEF Positions
<1>2. m.from = m.at /\ m.to = m.at + 1
  BY <1>1 DEF SuffixMatch, Match
<1>3. n.from = n.at /\ n.to \in {n.at + 1, n.at + 2}
      /\ (n.to = n.at + 2 => At(text, n.at + 2) = "EUR")
  BY <1>1 DEF MioMatch, Match
<1>4. At(text, n.at + 1) = "Mio" /\ IsNumber(text, n.at)
  BY <1>1, OneRole DEF IsMio
<1>5. n.at # m.at /\ n.at # m.at + 1 /\ m.at # n.at + 1
  BY <1>1, <1>4, OneRole
<1>6. m.at = n.at + 2 => n.to # n.at + 2
  BY <1>1, <1>3, OneRole DEF IsMark, Marks
<1> QED BY <1>1, <1>2, <1>3, <1>5, <1>6 DEF Overlaps

(* A figure that is an amount is captured with its meaning, unless it       *)
(* stands where the patterns misread.                                      *)
LEMMA MeantIsCaptured ==
    ASSUME NEW text, Len(text) \in Nat, NEW i \in Positions(text),
           Meant(text, i), ~Misread(text, i)
    PROVE  \E m \in Captured(text) : m.at = i /\ m.value = Meaning(text, i)
<1> USE DEF Positions
<1>1. i \in Int /\ IsNumber(text, i) /\ text[i] \in Numbers /\ At(text, i) = text[i]
  BY WordIsInText DEF Meant, IsNumber
<1>2. CASE At(text, i + 1) = "Mio"
  <2>1. At(text, i) \notin Grouped
    BY <1>2 DEF Misread
  <2>2. IsMio(text, i)
    BY <1>1, <1>2, <2>1 DEF IsMio, IsNumber, Numbers
  <2>3. MioMatch(text, i) \in Captured(text)
    BY <2>2 DEF MioMatches, Captured
  <2>4. MioMatch(text, i).at = i /\ MioMatch(text, i).value = Meaning(text, i)
    BY <1>2 DEF MioMatch, Match, Meaning
  <2> QED BY <2>3, <2>4
<1>3. CASE At(text, i + 1) # "Mio" /\ IsMark(text, i + 1)
  <2>1. SuffixMatch(text, i) \in SuffixMatches(text)
    BY <1>1, <1>3 DEF SuffixMatches
  <2>2. SuffixMatch(text, i) \in Captured(text)
    BY <2>1, SuffixIsSpared DEF Captured
  <2>3. SuffixMatch(text, i).at = i /\ SuffixMatch(text, i).value = Meaning(text, i)
    BY <1>3 DEF SuffixMatch, Match, Meaning
  <2> QED BY <2>2, <2>3
<1>4. CASE At(text, i + 1) # "Mio" /\ ~IsMark(text, i + 1)
  <2>1. IsMark(text, i - 1) /\ ~TakenAhead(text, i - 1) /\ At(text, i - 1) # "TEUR"
    BY <1>4 DEF Meant, IsMark, Misread
  <2>2. /\ i - 1 \in Positions(text) /\ At(text, i - 1) = text[i - 1]
        /\ text[i - 1] = "EUR" /\ ~IsNumber(text, i - 2)
        /\ ~(At(text, i - 2) = "Mio" /\ IsNumber(text, i - 3))
    <3>1. i - 1 \in Positions(text) /\ At(text, i - 1) = text[i - 1]
      BY <1>1, <2>1, WordIsInText
    <3>2. (i - 1) - 1 = i - 2 /\ (i - 1) - 2 = i - 3
      BY <1>1
    <3>3. text[i - 1] = "EUR"
      BY <2>1, <3>1 DEF IsMark, Marks
    <3> QED BY <2>1, <3>1, <3>2, <3>3 DEF TakenAhead
  <2>3. PrefixMatch(text, i) \in PrefixMatches(text)
    BY <1>1, <2>1, TakenFrom DEF PrefixMatches
  <2>4. PrefixMatch(text, i).from = i - 1 /\ PrefixMatch(text, i).to = i
    BY DEF PrefixMatch, Match
  <2>5. ASSUME NEW n \in MioMatches(text) PROVE ~Overlaps(PrefixMatch(text, i), n)
    <3>1. /\ n.at \in Int /\ IsNumber(text, n.at) /\ At(text, n.at + 1) = "Mio"
          /\ n.from = n.at /\ n.to \in {n.at + 1, n.at + 2}
      BY MatchShapes, OneRole DEF IsMio, MioMatch, Match
    <3>2. n.at # i /\ n.at # i - 1 /\ n.at # i - 2
      BY <1>4, <2>1, <2>2, <3>1, OneRole
    <3>3. n.at # i - 3
      <4> SUFFICES ASSUME n.at = i - 3 PROVE FALSE
        OBVIOUS
      <4>1. n.at + 1 = i - 2
        BY <1>1
      <4> QED BY <2>2, <3>1, <4>1
    <3> QED BY <1>1, <2>4, <3>1, <3>2, <3>3 DEF Overlaps
  <2>6. ASSUME NEW n \in SuffixMatches(text) PROVE ~Overlaps(PrefixMatch(text, i), n)
    <3>1. /\ n.at \in Int /\ IsNumber(text, n.at) /\ IsMark(text, n.at + 1)
          /\ n.from = n.at /\ n.to = n.at + 1
      BY MatchShapes DEF SuffixMatch, Match
    <3>2. n.at # i /\ n.at # i - 1 /\ n.at # i - 2
      BY <1>4, <2>1, <2>2, <3>1, OneRole
    <3> QED BY <1>1, <2>4, <3>1, <3>2 DEF Overlaps
  <2>7. PrefixMatch(text, i) \in Captured(text)
    BY <2>3, <2>5, <2>6, SuffixIsSpared DEF Captured, Spared
  <2>8. PrefixMatch(text, i).at = i /\ PrefixMatch(text, i).value = Meaning(text, i)
    <3>1. Unit[text[i - 1]] = 1
      BY <2>2 DEF Unit, Marks
    <3>2. Figure[text[i]] \in Nat /\ Taken(text[i]) = text[i]
      BY <1>1, FiguresAssumption, TakenFrom
    <3> QED BY <1>4, <3>1, <3>2 DEF PrefixMatch, Match, Meaning
  <2> QED BY <2>7, <2>8
<1> QED BY <1>2, <1>3, <1>4

(* What is captured is a figure that is an amount, as meant, unless it      *)
(* stands where the patterns misread.                                      *)
LEMMA CapturedIsMeant ==
    ASSUME NEW text, Len(text) \in Nat, NEW m \in Captured(text),
           ~Misread(text, m.at)
    PROVE  /\ m.at \in Positions(text) /\ Meant(text, m.at)
           /\ m.value = Meaning(text, m.at)
<1> USE DEF Positions
<1>1. CASE m \in MioMatches(text)
  <2>1. m.at \in Positions(text) /\ IsMio(text, m.at) /\ m = MioMatch(text, m.at)
    BY <1>1, MatchShapes
  <2> QED BY <2>1, OneRole DEF IsMio, Meant, MioMatch, Match, Meaning
<1>2. CASE m \in SuffixMatches(text)
  <2>1. /\ m.at \in Positions(text) /\ IsNumber(text, m.at)
        /\ IsMark(text, m.at + 1) /\ m = SuffixMatch(text, m.at)
    BY <1>2, MatchShapes
  <2>2. At(text, m.at + 1) \in Marks /\ At(text, m.at + 1) # "Mio"
    BY <2>1, OneRole DEF IsMark
  <2> QED BY <2>1, <2>2 DEF Meant, SuffixMatch, Match, Meaning
<1>3. CASE /\ m \in PrefixMatches(text)
           /\ \A n \in MioMatches(text) \cup SuffixMatches(text) : ~Overlaps(m, n)
  <2> DEFINE i == m.at
  <2>1. /\ i \in Positions(text) /\ Taken(text[i]) \in Numbers
        /\ IsMark(text, i - 1) /\ m = PrefixMatch(text, i)
    BY <1>3, MatchShapes
  <2>2. i \in Int /\ m.from = i - 1 /\ m.to = i
    BY <2>1 DEF PrefixMatch, Match
  <2>3. At(text, i) = text[i] /\ text[i] \notin Dotted
    BY <2>1 DEF At, Misread
  <2>4. /\ IsNumber(text, i) /\ Taken(text[i]) = text[i] /\ text[i] \in Numbers
    BY <2>1, <2>3, TakenFrom DEF IsNumber
  <2>5. ~IsMark(text, i + 1)
    <3> SUFFICES ASSUME IsMark(text, i + 1) PROVE FALSE
      OBVIOUS
    <3>1. SuffixMatch(text, i) \in SuffixMatches(text)
      BY <2>1, <2>4 DEF SuffixMatches
    <3>2. SuffixMatch(text, i).from = i /\ SuffixMatch(text, i).to = i + 1
      BY DEF SuffixMatch, Match
    <3> QED BY <1>3, <2>2, <3>1, <3>2 DEF Overlaps
  <2>6. At(text, i + 1) # "Mio"
    <3> SUFFICES ASSUME At(text, i + 1) = "Mio" PROVE FALSE
      OBVIOUS
    <3>1. IsMio(text, i)
      BY <2>4 DEF Misread, IsMio, IsNumber, Numbers
    <3>2. MioMatch(text, i) \in MioMatches(text)
      BY <2>1, <3>1 DEF MioMatches
    <3>3. MioMatch(text, i).from = i /\ MioMatch(text, i).to \in {i + 1, i + 2}
      BY DEF MioMatch, Match
    <3> QED BY <1>3, <2>2, <3>2, <3>3 DEF Overlaps
  <2>7. /\ i - 1 \in Positions(text) /\ At(text, i - 1) = "EUR"
        /\ text[i - 1] = "EUR"
    <3>1. At(text, i - 1) # "TEUR"
      BY <2>5, <2>6 DEF Misread, IsMark
    <3>2. i - 1 \in Positions(text) /\ At(text, i - 1) = text[i - 1]
      BY <2>1, <2>2, WordIsInText
    <3> QED BY <2>1, <3>1, <3>2 DEF IsMark, Marks
  <2>8. ~IsNumber(text, i - 2)
    <3> SUFFICES ASSUME IsNumber(text, i - 2) PROVE FALSE
      OBVIOUS
    <3>1. i - 2 \in Positions(text) /\ (i - 2) + 1 = i - 1
      BY <2>2, WordIsInText
    <3>2. SuffixMatch(text, i - 2) \in SuffixMatches(text)
      BY <2>1, <3>1 DEF SuffixMatches
    <3>3. SuffixMatch(text, i - 2).from = i - 2 /\ SuffixMatch(text, i - 2).to = i - 1
      BY <3>1 DEF SuffixMatch, Match
    <3> QED BY <1>3, <2>2, <3>2, <3>3 DEF Overlaps
  <2>9. ~(At(text, i - 2) = "Mio" /\ IsNumber(text, i - 3))
    <3> SUFFICES ASSUME At(text, i - 2) = "Mio", IsNumber(text, i - 3) PROVE FALSE
      OBVIOUS
    <3>1. /\ i - 3 \in Positions(text)
          /\ (i - 3) + 1 = i - 2 /\ (i - 3) + 2 = i - 1
      BY <2>2, WordIsInText
    <3>2. IsMio(text, i - 3)
      BY <2>7, <3>1 DEF Misread, IsMio, IsNumber, Numbers
    <3>3. MioMatch(text, i - 3) \in MioMatches(text)
      BY <3>1, <3>2 DEF MioMatches
    <3>4. MioMatch(text, i - 3).from = i - 3 /\ MioMatch(text, i - 3).to = i - 1
      BY <2>7, <3>1 DEF MioMatch, Match
    <3> QED BY <1>3, <2>2, <3>3, <3>4 DEF Overlaps
  <2>10. ~TakenAhead(text, i - 1)
    <3>1. (i - 1) - 1 = i - 2 /\ (i - 1) - 2 = i - 3
      BY <2>2
    <3> QED BY <2>8, <2>9, <3>1 DEF TakenAhead
  <2>11. Unit[text[i - 1]] = 1 /\ Figure[text[i]] \in Nat
    BY <2>4, <2>7, FiguresAssumption DEF Unit, Marks
  <2>12. Meaning(text, i) = Figure[text[i]]
    BY <2>5, <2>6, <2>11 DEF Meaning
  <2>13. m.value = Figure[text[i]] /\ Meant(text, i)
    BY <2>1, <2>4, <2>10 DEF PrefixMatch, Match, Meant
  <2> QED BY <2>1, <2>12, <2>13
<1> QED BY <1>1, <1>2, <1>3, SuffixIsSpared DEF Captured, Spared

(* Of every text, of any length and in any mixture of notations, exactly    *)
(* what was meant is read, at every place where the patterns do not misread: *)
(* every figure whose mark is its own, with its value, and nothing else.   *)
THEOREM EveryTextIsRead ==
    ASSUME NEW text, Len(text) \in Nat
    PROVE  ReadsAsMeant(text)
<1>1. \A m \in Captured(text) : ~Misread(text, m.at) =>
         m.at \in Positions(text) /\ Meant(text, m.at)
            /\ m.value = Meaning(text, m.at)
  BY CapturedIsMeant
<1>2. \A i \in Positions(text) : Meant(text, i) /\ ~Misread(text, i) =>
         \E m \in Captured(text) : m.at = i /\ m.value = Meaning(text, i)
  BY MeantIsCaptured
<1> QED BY <1>1, <1>2 DEF ReadsAsMeant

(* A PAGE AS TEXT.                                                         *)
TextWords == Vocabulary \cup Labels \cup {"|"}
BarsOf(s, n) == {j \in 1..n : s[j] = "|"}

(* Part k of a row lies behind position o, between two bars, and with it   *)
(* every position of it has k bars before it.                              *)
PartAt(row, part, k, o) ==
    /\ o \in Nat /\ o + Len(part) < Len(row)
    /\ \A j \in 1..Len(part) : row[o + j] = part[j]
    /\ row[o + Len(part) + 1] = "|"
    /\ Cardinality(BarsOf(row, o)) = k

(* Every word of a row belongs to one of its parts, unless it is a bar.    *)
Split(row, parts, n) ==
    \A i \in 1..Len(row) : row[i] = "|" \/ \E k \in 1..n, o \in 0..(i - 1) :
       i <= o + Len(parts[k]) /\ PartAt(row, parts[k], k, o)

(* A row begins with its first bar.                                        *)
LEMMA BarsBegin == BarsOf(<<"|">>, 1) = {1}
  BY DEF BarsOf

(* The bars among the first words of a text can be counted.                *)
LEMMA BarsFinite ==
    ASSUME NEW s, NEW n \in Nat
    PROVE  /\ IsFiniteSet(BarsOf(s, n))
           /\ Cardinality(BarsOf(s, n)) \in Nat
<1>1. IsFiniteSet(1..n)
  BY FS_Interval
<1>2. BarsOf(s, n) \subseteq 1..n
  BY DEF BarsOf
<1>3. IsFiniteSet(BarsOf(s, n))
  BY <1>1, <1>2, FS_Subset
<1> QED
  BY <1>3, FS_CardinalityType

(* A bar is counted once.                                                  *)
LEMMA OneMoreBar ==
    ASSUME NEW s, NEW n \in Nat, s[n + 1] = "|"
    PROVE  Cardinality(BarsOf(s, n + 1)) = Cardinality(BarsOf(s, n)) + 1
<1>1. BarsOf(s, n + 1) = BarsOf(s, n) \cup {n + 1} /\ n + 1 \notin BarsOf(s, n)
  BY DEF BarsOf
<1> QED
  BY <1>1, BarsFinite, FS_AddElement

(* A row and a part without bars behind it, and a bar.                     *)
LEMMA RowGrows ==
    ASSUME NEW row, NEW part, row \in Seq(TextWords), part \in Seq(TextWords),
           \A j \in 1..Len(part) : part[j] # "|", NEW k, 
           Cardinality(BarsOf(row, Len(row))) = k
    PROVE  LET new == row \o part \o <<"|">>
           IN /\ new \in Seq(TextWords) /\ Len(new) = Len(row) + Len(part) + 1
              /\ \A i \in 1..Len(row) : new[i] = row[i]
              /\ PartAt(new, part, k, Len(row))
              /\ Cardinality(BarsOf(new, Len(new))) = k + 1
<1> DEFINE new == row \o part \o <<"|">>
<1>1. <<"|">> \in Seq(TextWords) /\ Len(<<"|">>) = 1 /\ <<"|">>[1] = "|"
  BY DEF TextWords
<1>2. Len(row) \in Nat /\ Len(part) \in Nat
  OBVIOUS
<1>3. /\ new \in Seq(TextWords) /\ Len(new) = Len(row) + Len(part) + 1
      /\ \A i \in 1..Len(row) : new[i] = row[i]
      /\ \A j \in 1..Len(part) : new[Len(row) + j] = part[j]
      /\ new[Len(row) + Len(part) + 1] = "|"
  BY <1>1, <1>2
<1> HIDE DEF new
<1>4. BarsOf(new, Len(row)) = BarsOf(row, Len(row))
  BY <1>2, <1>3 DEF BarsOf
<1>5. PartAt(new, part, k, Len(row))
  BY <1>2, <1>3, <1>4 DEF PartAt
<1>6. BarsOf(new, Len(row) + Len(part)) = BarsOf(new, Len(row))
  <2>1. ASSUME NEW i \in Len(row) + 1..Len(row) + Len(part) PROVE new[i] # "|"
    <3>1. i - Len(row) \in 1..Len(part) /\ Len(row) + (i - Len(row)) = i
      BY <1>2
    <3>2. new[i] = part[i - Len(row)]
      BY <1>3, <3>1
    <3> QED
      BY <3>1, <3>2
  <2> QED
    BY <1>2, <2>1 DEF BarsOf
<1>7. Cardinality(BarsOf(new, Len(new))) = k + 1
  <2>1. Len(row) + Len(part) \in Nat
    BY <1>2
  <2> QED
    BY <1>3, <1>4, <1>6, <2>1, OneMoreBar
<1> QED
  BY <1>3, <1>5, <1>7 DEF new

(* The parts of a row hold no bars.                                        *)
Parts(parts) == parts \in Seq(Seq(Vocabulary \cup Labels))
RowOf(parts, m) ==
    <<"|">> \o Concatenated([k \in DOMAIN parts |-> parts[k] \o <<"|">>], m)

RowUpTo(parts, m) ==
    LET row == RowOf(parts, m)
    IN /\ row \in Seq(TextWords) /\ Len(row) > 0
       /\ row[1] = "|" /\ row[Len(row)] = "|"
       /\ Cardinality(BarsOf(row, Len(row))) = m + 1
       /\ Split(row, parts, m)

(* No part of a row has a bar in it.                                       *)
LEMMA PartIsFree ==
    ASSUME NEW parts, Parts(parts), NEW k \in DOMAIN parts
    PROVE  /\ parts[k] \in Seq(TextWords)
           /\ \A j \in 1..Len(parts[k]) : parts[k][j] # "|"
<1>1. parts[k] \in Seq(Vocabulary \cup Labels)
  BY DEF Parts
<1> QED
  BY <1>1, VocabularyAssumption DEF TextWords

(* A row without parts is one bar.                                         *)
LEMMA RowBegins == ASSUME NEW parts PROVE RowUpTo(parts, 0)
<1>1. RowOf(parts, 0) = <<"|">>
  <2>1. RowOf(parts, 0) = <<"|">> \o <<>>
    BY ConcatenatedEmpty DEF RowOf
  <2> QED
    BY <2>1
<1>2. Cardinality(BarsOf(<<"|">>, 1)) = 1
  BY BarsBegin, FS_Singleton
<1>3. PICK row : row = <<"|">>
  OBVIOUS
<1>4. /\ row \in Seq(TextWords) /\ Len(row) = 1 /\ row[1] = "|"
      /\ Cardinality(BarsOf(row, 1)) = 0 + 1
  BY <1>2, <1>3 DEF TextWords
<1>5. Split(row, parts, 0)
  BY <1>4 DEF Split
<1> QED
  BY <1>1, <1>3, <1>4, <1>5 DEF RowUpTo

(* A part keeps its place when the row grows.                              *)
LEMMA PartStays ==
    ASSUME NEW row, NEW new, Len(row) \in Nat, Len(new) \in Nat, Len(row) <= Len(new),
           \A i \in 1..Len(row) : new[i] = row[i],
           NEW part, Len(part) \in Nat, NEW k, NEW o, PartAt(row, part, k, o)
    PROVE  PartAt(new, part, k, o)
<1>1. BarsOf(new, o) = BarsOf(row, o)
  BY DEF BarsOf, PartAt
<1> QED
  BY <1>1 DEF PartAt

(* With each part a row grows by the part and a bar.                       *)
LEMMA RowContinues ==
    ASSUME NEW parts, Parts(parts), NEW m \in Nat, m < Len(parts), RowUpTo(parts, m)
    PROVE  RowUpTo(parts, m + 1)
<1> DEFINE w == [k \in DOMAIN parts |-> parts[k] \o <<"|">>]
           row == RowOf(parts, m)
           new == RowOf(parts, m + 1)
<1>0. m + 1 \in DOMAIN parts /\ DOMAIN parts = 1..Len(parts) /\ Len(parts) \in Nat
  BY DEF Parts
<1>1. PICK part \in Seq(TextWords) : part = parts[m + 1]
  BY <1>0, PartIsFree
<1>2. \A j \in 1..Len(part) : part[j] # "|"
  BY <1>0, <1>1, PartIsFree
<1>3. \A k \in 1..Len(parts) : w[k] \in Seq(TextWords)
  <2> TAKE k \in 1..Len(parts)
  <2>1. parts[k] \in Seq(TextWords) /\ <<"|">> \in Seq(TextWords)
    BY <1>0, PartIsFree DEF TextWords
  <2> QED
    BY <1>0, <2>1
<1>4. PICK c \in Seq(TextWords) : c = Concatenated(w, m)
  <2>1. \A k \in 1..m : w[k] \in Seq(TextWords)
    BY <1>0, <1>3
  <2> HIDE DEF w
  <2> QED
    BY <2>1, ConcatenatedType
<1>5. new = (row \o part) \o <<"|">>
  <2>1. Concatenated(w, m + 1) = c \o (part \o <<"|">>)
    <3>1. w[m + 1] = part \o <<"|">>
      BY <1>0, <1>1
    <3> HIDE DEF w
    <3> QED
      BY <1>4, <3>1, ConcatenatedNext
  <2>2. row = <<"|">> \o c /\ new = <<"|">> \o (c \o (part \o <<"|">>))
    <3>1. row = <<"|">> \o Concatenated(w, m) /\ new = <<"|">> \o Concatenated(w, m + 1)
      BY DEF RowOf
    <3> HIDE DEF row, new, w
    <3> QED
      BY <1>4, <2>1, <3>1
  <2>3. PICK bar \in Seq(TextWords) : bar = <<"|">>
    <3>1. <<"|">> \in Seq(TextWords)
      BY DEF TextWords
    <3> QED
      BY <3>1, Zenon
  <2>4. bar \o (c \o (part \o bar)) = ((bar \o c) \o part) \o bar
    OBVIOUS
  <2> QED
    BY <2>2, <2>3, <2>4
<1>6. /\ row \in Seq(TextWords) /\ Len(row) \in Nat /\ Len(row) > 0 /\ row[1] = "|"
      /\ Cardinality(BarsOf(row, Len(row))) = m + 1
      /\ Split(row, parts, m)
  BY DEF RowUpTo
<1> HIDE DEF w, row, new
<1>7. /\ new \in Seq(TextWords) /\ Len(new) = Len(row) + Len(part) + 1
      /\ \A i \in 1..Len(row) : new[i] = row[i]
      /\ PartAt(new, part, m + 1, Len(row))
      /\ Cardinality(BarsOf(new, Len(new))) = (m + 1) + 1
  BY <1>2, <1>5, <1>6, RowGrows
<1>8. ASSUME NEW i \in 1..Len(new), new[i] # "|"
      PROVE  \E k \in 1..(m + 1), o \in 0..(i - 1) :
                i <= o + Len(parts[k]) /\ PartAt(new, parts[k], k, o)
  <2>1. CASE i <= Len(row)
    <3>1. i \in 1..Len(row) /\ row[i] # "|"
      BY <1>6, <1>7, <1>8, <2>1
    <3>2. PICK k \in 1..m, o \in 0..(i - 1) :
             i <= o + Len(parts[k]) /\ PartAt(row, parts[k], k, o)
      BY <1>6, <3>1 DEF Split
    <3>3. Len(parts[k]) \in Nat
      <4>1. parts[k] \in Seq(TextWords)
        BY <1>0, PartIsFree
      <4> QED
        BY <4>1
    <3>4. PartAt(new, parts[k], k, o)
      <4>1. Len(new) \in Nat /\ Len(row) <= Len(new)
        BY <1>1, <1>6, <1>7
      <4> QED
        BY <1>6, <1>7, <3>2, <3>3, <4>1, PartStays
    <3> QED
      BY <3>2, <3>4
  <2>2. CASE i > Len(row)
    <3>1. i <= Len(row) + Len(part)
      BY <1>1, <1>6, <1>7, <1>8, <2>2 DEF PartAt
    <3> QED
      BY <1>1, <1>6, <1>7, <2>2, <3>1
  <2> QED
    BY <1>6, <2>1, <2>2
<1>9. new[1] = "|" /\ new[Len(new)] = "|" /\ Len(new) > 0
  <2>1. Len(part) \in Nat /\ 1 \in 1..Len(row) /\ Len(new) > 0
    BY <1>1, <1>6, <1>7
  <2>2. new[1] = "|"
    BY <1>6, <1>7, <2>1
  <2> QED
    BY <1>7, <2>1, <2>2 DEF PartAt
<1> QED
  BY <1>7, <1>8, <1>9 DEF RowUpTo, Split, new

(* A row is split into its parts, whatever their number.                   *)
LEMMA RowIsSplit ==
    ASSUME NEW parts, Parts(parts)
    PROVE  RowUpTo(parts, Len(parts))
<1> DEFINE T == {m \in 0..Len(parts) : RowUpTo(parts, m)}
<1>0. Len(parts) \in Nat
  BY DEF Parts
<1>1. 0 \in T
  BY <1>0, RowBegins
<1>2. \A m \in 0..Len(parts) : m # Len(parts) /\ m \in T => m + 1 \in T
  BY <1>0, RowContinues
<1>3. 0..Len(parts) \subseteq T
  <2> HIDE DEF T
  <2> QED
    BY <1>0, <1>1, <1>2, Induction
<1> QED
  BY <1>0, <1>3

(* Words between two bars lie in one part.                                 *)
LEMMA SegmentInRow ==
    ASSUME NEW parts, Parts(parts), NEW row, row = RowOf(parts, Len(parts)),
           NEW a \in 1..Len(row), NEW b \in a..Len(row),
           \A j \in a..b : row[j] # "|"
    PROVE  \E k \in DOMAIN parts, o \in 0..(a - 1) :
              b <= o + Len(parts[k]) /\ PartAt(row, parts[k], k, o)
<1>1. /\ row \in Seq(TextWords) /\ Split(row, parts, Len(parts))
      /\ 1..Len(parts) = DOMAIN parts
  BY RowIsSplit DEF RowUpTo, Parts
<1>2. PICK k \in 1..Len(parts), o \in 0..(a - 1) :
         a <= o + Len(parts[k]) /\ PartAt(row, parts[k], k, o)
  BY <1>1 DEF Split
<1>3. Len(parts[k]) \in Nat
  <2>1. parts[k] \in Seq(TextWords)
    BY <1>1, PartIsFree
  <2> QED
    BY <2>1
<1>4. row[o + Len(parts[k]) + 1] = "|"
  BY <1>2 DEF PartAt
<1>5. b <= o + Len(parts[k])
  BY <1>1, <1>2, <1>3, <1>4
<1> QED
  BY <1>1, <1>2, <1>5

HeadParts(page) == [k \in DOMAIN page.heads |-> <<page.heads[k].label>>]

(* Prose, headers and cells of a page hold words and no bars.              *)
LEMMA PageParts ==
    ASSUME NEW page \in PageShape
    PROVE  /\ page.prose \in Seq(TextWords)
           /\ \A j \in 1..Len(page.prose) : page.prose[j] # "|"
           /\ Parts(page.cells) /\ Parts(HeadParts(page))
           /\ DOMAIN page.heads = 1..Len(page.heads) /\ Len(page.heads) \in Nat
           /\ DOMAIN page.cells = 1..Len(page.cells) /\ Len(page.cells) \in Nat
           /\ DOMAIN HeadParts(page) = DOMAIN page.heads
           /\ Bars(page.cells) = RowOf(page.cells, Len(page.cells))
           /\ HeadRow(page) = RowOf(HeadParts(page), Len(HeadParts(page)))
<1>1. /\ page.prose \in Seq(Vocabulary) /\ page.cells \in Seq(Seq(Vocabulary))
      /\ page.heads \in Seq([label : Labels, column : Nat, span : Nat])
  BY DEF PageShape
<1>2. /\ page.prose \in Seq(TextWords)
      /\ \A j \in 1..Len(page.prose) : page.prose[j] # "|"
  BY <1>1, VocabularyAssumption DEF TextWords
<1>3. Parts(page.cells)
  <2>1. \A k \in 1..Len(page.cells) : page.cells[k] \in Seq(Vocabulary \cup Labels)
    <3> TAKE k \in 1..Len(page.cells)
    <3>1. page.cells[k] \in Seq(Vocabulary)
      BY <1>1
    <3> QED
      BY <3>1
  <2> QED
    BY <1>1, <2>1 DEF Parts
<1>4. Parts(HeadParts(page)) /\ DOMAIN HeadParts(page) = DOMAIN page.heads
  <2>1. \A k \in 1..Len(page.heads) : <<page.heads[k].label>> \in Seq(Vocabulary \cup Labels)
    <3> TAKE k \in 1..Len(page.heads)
    <3>1. page.heads[k] \in [label : Labels, column : Nat, span : Nat]
      BY <1>1, ElementOfSeq
    <3> QED
      BY <3>1
  <2>2. DOMAIN page.heads = 1..Len(page.heads) /\ Len(page.heads) \in Nat
    BY <1>1
  <2>3. HeadParts(page) \in [1..Len(page.heads) -> Seq(Vocabulary \cup Labels)]
    BY <2>1, <2>2 DEF HeadParts
  <2>4. HeadParts(page) \in Seq(Seq(Vocabulary \cup Labels))
    BY <2>2, <2>3, SeqDef
  <2> QED
    BY <2>2, <2>4 DEF Parts, HeadParts
<1>5. \A parts : Bars(parts) = RowOf(parts, Len(parts))
  BY DEF Bars, RowOf
<1>6. HeadRow(page) = Bars(HeadParts(page))
  BY DEF HeadRow, HeadParts
<1> QED
  BY <1>1, <1>2, <1>3, <1>4, <1>5, <1>6

(* A page with a table: prose, headers, cells.                             *)
Layout(page, text, head, row) ==
    /\ text \in Seq(TextWords) /\ head \in Seq(TextWords) /\ row \in Seq(TextWords)
    /\ RowStart(page) = Len(page.prose) + Len(head)
    /\ Len(text) = RowStart(page) + Len(row)
    /\ head[1] = "|" /\ row[1] = "|" /\ Len(head) > 0 /\ Len(row) > 0
    /\ \A i \in 1..Len(page.prose) : text[i] = page.prose[i]
    /\ \A i \in 1..Len(head) : text[Len(page.prose) + i] = head[i]
    /\ \A i \in 1..Len(row) : text[RowStart(page) + i] = row[i]

(* PageText puts prose, headers and cells one behind the other.            *)
LEMMA TableLayout ==
    ASSUME NEW page \in PageShape, page.heads # <<>>
    PROVE  Layout(page, PageText(page), HeadRow(page), Bars(page.cells))
<1>1. PICK prose \in Seq(TextWords) : prose = page.prose
  BY PageParts
<1>2. PICK head \in Seq(TextWords) :
         head = HeadRow(page) /\ head[1] = "|" /\ Len(head) > 0
  BY PageParts, RowIsSplit DEF RowUpTo
<1>3. PICK row \in Seq(TextWords) :
         row = Bars(page.cells) /\ row[1] = "|" /\ Len(row) > 0
  BY PageParts, RowIsSplit DEF RowUpTo
<1>4. PICK text : text = (prose \o head) \o row
  OBVIOUS
<1>5. PageText(page) = text
  BY <1>1, <1>2, <1>3, <1>4 DEF PageText
<1>6. RowStart(page) = Len(prose) + Len(head)
  BY <1>1, <1>2 DEF RowStart
<1>7. /\ text \in Seq(TextWords) /\ Len(text) = Len(prose) + Len(head) + Len(row)
      /\ \A i \in 1..Len(prose) : text[i] = prose[i]
      /\ \A i \in 1..Len(head) : text[Len(prose) + i] = head[i]
      /\ \A i \in 1..Len(row) : text[Len(prose) + Len(head) + i] = row[i]
  BY <1>4
<1> QED
  BY <1>1, <1>2, <1>3, <1>5, <1>6, <1>7 DEF Layout

(* The text of a page is a sequence of words and bars.                     *)
LEMMA TextType ==
    ASSUME NEW page \in PageShape
    PROVE  PageText(page) \in Seq(TextWords) /\ Len(PageText(page)) \in Nat
<1>1. CASE page.heads = <<>>
  BY <1>1, PageParts DEF PageText
<1>2. CASE page.heads # <<>>
  BY <1>2, TableLayout DEF Layout
<1> QED
  BY <1>1, <1>2

(* A set of positions shifted by d has as many.                            *)
LEMMA Shifted ==
    ASSUME NEW S \in SUBSET Nat, IsFiniteSet(S), NEW d \in Nat,
           NEW T \in SUBSET Nat, \A t \in T : t - d \in S, \A i \in S : i + d \in T
    PROVE  Cardinality(T) = Cardinality(S)
<1> DEFINE f == [i \in S |-> i + d]
<1>1. f \in [S -> T] /\ \A a, b \in S : f[a] = f[b] => a = b
  OBVIOUS
<1>2. \A t \in T : \E i \in S : f[i] = t
  <2> TAKE t \in T
  <2>1. t - d \in S /\ (t - d) + d = t
    OBVIOUS
  <2> WITNESS t - d \in S
  <2> QED
    BY <2>1
<1> HIDE DEF f
<1>3. f \in Bijection(S, T)
  BY <1>1, <1>2, Fun_IsBij
<1> QED
  BY <1>3, Fun_ExistsBij, FS_Bijection

-----------------------------------------------------------------------------
(* Words of a text that lie behind position o in a part.                   *)
PlacedIn(text, a, b, part, o) ==
    /\ o \in 0..(a - 1) /\ b - o <= Len(part)
    /\ \A j \in a..b : text[j] = part[j - o]

(* What a row has at a place, the text has it there.                       *)
LEMMA PlacedInRow ==
    ASSUME NEW text, NEW row, NEW d \in Nat, Len(row) \in Nat,
           \A i \in 1..Len(row) : text[d + i] = row[i],
           NEW a \in Nat, NEW b \in Nat, d < a, a <= b, b <= d + Len(row),
           NEW part, Len(part) \in Nat, NEW k, NEW o \in 0..((a - d) - 1),
           b - d <= o + Len(part), PartAt(row, part, k, o)
    PROVE  PlacedIn(text, a, b, part, d + o)
<1>1. ASSUME NEW j \in a..b PROVE text[j] = part[j - (d + o)]
  <2>1. j - d \in 1..Len(row) /\ d + (j - d) = j
    OBVIOUS
  <2>2. j - (d + o) \in 1..Len(part) /\ o + (j - (d + o)) = j - d
    OBVIOUS
  <2>3. text[j] = row[j - d]
    BY <2>1
  <2>4. row[j - d] = part[j - (d + o)]
    BY <2>2 DEF PartAt
  <2> QED
    BY <2>3, <2>4
<1> QED
  BY <1>1 DEF PlacedIn

BarsBefore(page, i) ==
    {j \in RowStart(page) + 1..i : At(PageText(page), j) = "|"}

(* Without a bar between them, words of a page lie all in the prose, in one *)
(* header or in one cell, and in that case behind as many bars of the row.  *)
InProse(page, a, b) ==
    PlacedIn(PageText(page), a, b, page.prose, 0) /\ b <= Len(page.prose)
InHead(page, a, b) ==
    \E k \in DOMAIN page.heads, o \in Nat :
       /\ PlacedIn(PageText(page), a, b, <<page.heads[k].label>>, o)
       /\ b <= RowStart(page)
InCellNo(page, a, b, k) ==
    /\ a > RowStart(page)
    /\ \E o \in Nat : PlacedIn(PageText(page), a, b, page.cells[k], o)
    /\ \A i \in a..b : Cardinality(BarsBefore(page, i)) = k

(* Before every word of cell k are k bars of its row.                      *)
LEMMA CellBars ==
    ASSUME NEW page \in PageShape, page.heads # <<>>, NEW k, NEW o \in Nat,
           NEW part, Len(part) \in Nat, \A j \in 1..Len(part) : part[j] # "|",
           PartAt(Bars(page.cells), part, k, o),
           NEW i \in RowStart(page) + o + 1..RowStart(page) + o + Len(part),
           RowStart(page) \in Nat
    PROVE  Cardinality(BarsBefore(page, i)) = k
<1> DEFINE row == Bars(page.cells)
           d == RowStart(page)
           text == PageText(page)
<1>1. /\ row \in Seq(TextWords) /\ Len(text) = d + Len(row)
      /\ \A x \in 1..Len(row) : text[d + x] = row[x]
  BY TableLayout DEF Layout
<1>2. /\ o + Len(part) < Len(row) /\ Len(row) \in Nat
      /\ \A j \in 1..Len(part) : row[o + j] = part[j]
      /\ Cardinality(BarsOf(row, o)) = k
  BY <1>1 DEF PartAt
<1> HIDE DEF row, d, text
<1>3. BarsOf(row, o) \in SUBSET Nat /\ BarsBefore(page, i) \in SUBSET Nat
  BY DEF BarsOf, BarsBefore, d
<1>4. ASSUME NEW t \in BarsBefore(page, i) PROVE t - d \in BarsOf(row, o)
  <2>1. t \in d + 1..i /\ At(text, t) = "|"
    BY DEF BarsBefore, d, text
  <2>2. t - d \in 1..Len(row) /\ d + (t - d) = t /\ t \in 1..Len(text)
    BY <1>1, <1>2, <2>1 DEF d
  <2>3. row[t - d] = "|"
    BY <1>1, <2>1, <2>2 DEF At
  <2>4. ASSUME t - d > o PROVE FALSE
    <3>1. (t - d) - o \in 1..Len(part) /\ o + ((t - d) - o) = t - d
      BY <2>1, <2>2, <2>4 DEF d
    <3> QED
      BY <1>2, <2>3, <3>1
  <2> QED
    BY <2>2, <2>3, <2>4 DEF BarsOf
<1>5. ASSUME NEW x \in BarsOf(row, o) PROVE x + d \in BarsBefore(page, i)
  <2>1. x \in 1..o /\ row[x] = "|" /\ x \in 1..Len(row) /\ d \in Nat
    BY <1>2 DEF BarsOf, d
  <2>2. x + d \in 1..Len(text) /\ x + d = d + x /\ x + d \in d + 1..i
    BY <1>1, <1>2, <2>1 DEF d
  <2>3. text[x + d] = "|"
    BY <1>1, <2>1, <2>2
  <2> QED
    BY <2>2, <2>3 DEF BarsBefore, At, d, text
<1>6. IsFiniteSet(BarsOf(row, o))
  BY BarsFinite
<1>7. d \in Nat
  BY DEF d
<1> QED
  BY <1>2, <1>3, <1>4, <1>5, <1>6, <1>7, Shifted

(* What lies in a part lies between its first and last word.               *)
LEMMA Within ==
    ASSUME NEW a \in Nat, NEW b \in Nat, NEW d \in Nat, NEW n \in Nat, d < a,
           NEW o \in 0..((a - d) - 1), b - d <= o + n, NEW i \in a..b
    PROVE  i \in d + o + 1..d + o + n
  OBVIOUS

BarFree(text, a, b) ==
    /\ a \in 1..Len(text) /\ b \in a..Len(text)
    /\ \A j \in a..b : text[j] # "|"

(* BarFree words of a page lie in one element of its structure.            *)
LEMMA WordsLieTogether ==
    ASSUME NEW page \in PageShape, NEW a, NEW b, BarFree(PageText(page), a, b)
    PROVE  \/ InProse(page, a, b) \/ InHead(page, a, b)
           \/ page.heads # <<>> /\ \E k \in DOMAIN page.cells : InCellNo(page, a, b, k)
<1> DEFINE text == PageText(page)
           head == HeadRow(page)
           row == Bars(page.cells)
           p == Len(page.prose)
           d == RowStart(page)
<1>0. /\ a \in 1..Len(text) /\ b \in a..Len(text) /\ Len(text) \in Nat
      /\ \A j \in a..b : text[j] # "|"
      /\ p \in Nat
  BY TextType, PageParts DEF BarFree
<1>1. CASE page.heads = <<>>
  <2>1. text = page.prose
    BY <1>1 DEF PageText
  <2> QED
    BY <1>0, <2>1 DEF InProse, PlacedIn
<1>2. CASE page.heads # <<>>
  <2>1. Layout(page, text, head, row) /\ p = Len(page.prose) /\ d = RowStart(page)
    BY <1>2, TableLayout
  <2> HIDE DEF text, head, row, p, d
  <2>2. /\ head \in Seq(TextWords) /\ row \in Seq(TextWords)
        /\ d = p + Len(head) /\ d \in Nat /\ Len(text) = d + Len(row)
        /\ Len(head) \in Nat /\ Len(row) \in Nat
        /\ head[1] = "|" /\ row[1] = "|" /\ Len(head) > 0 /\ Len(row) > 0
        /\ \A i \in 1..p : text[i] = page.prose[i]
        /\ \A i \in 1..Len(head) : text[p + i] = head[i]
        /\ \A i \in 1..Len(row) : text[d + i] = row[i]
    BY <1>0, <2>1 DEF Layout
  <2>3. text[p + 1] = "|" /\ text[d + 1] = "|"
    BY <2>2
  <2>4. CASE a <= p
    <3>1. b <= p
      BY <1>0, <2>2, <2>3, <2>4
    <3>2. PlacedIn(text, a, b, page.prose, 0) /\ b <= Len(page.prose)
      BY <1>0, <2>2, <3>1 DEF PlacedIn, p
    <3> QED
      BY <3>2 DEF InProse, text
  <2>5. CASE a > p /\ a <= d
    <3>1. b <= d
      <4> SUFFICES ASSUME ~(b <= d) PROVE FALSE
        OBVIOUS
      <4>1. d + 1 \in a..b
        BY <1>0, <2>2, <2>5
      <4> QED
        BY <1>0, <2>3, <4>1
    <3>2. /\ a - p \in 1..Len(head) /\ b - p \in a - p..Len(head)
          /\ \A j \in a - p..b - p : head[j] # "|"
      <4>1. ASSUME NEW j \in a - p..b - p PROVE head[j] # "|"
        <5>1. j \in 1..Len(head) /\ p + j \in a..b
          BY <1>0, <2>2, <2>5, <3>1
        <5> QED
          BY <1>0, <2>2, <5>1
      <4> QED
        BY <1>0, <2>2, <2>5, <3>1, <4>1
    <3>3. /\ Parts(HeadParts(page)) /\ DOMAIN HeadParts(page) = DOMAIN page.heads
          /\ head = RowOf(HeadParts(page), Len(HeadParts(page)))
      BY PageParts DEF head
    <3>4. PICK k \in DOMAIN page.heads, o \in 0..((a - p) - 1) :
             /\ b - p <= o + Len(HeadParts(page)[k])
             /\ PartAt(head, HeadParts(page)[k], k, o)
      BY <3>2, <3>3, SegmentInRow
    <3>5. HeadParts(page)[k] = <<page.heads[k].label>>
      BY DEF HeadParts
    <3>6. PlacedIn(text, a, b, <<page.heads[k].label>>, p + o)
      <4>1. Len(<<page.heads[k].label>>) \in Nat
        OBVIOUS
      <4>2. a \in Nat /\ b \in Nat /\ p < a /\ a <= b /\ b <= p + Len(head)
        BY <1>0, <2>2, <2>5, <3>1
      <4>3. /\ b - p <= o + Len(<<page.heads[k].label>>)
            /\ PartAt(head, <<page.heads[k].label>>, k, o)
        BY <3>4, <3>5
      <4> QED
        BY <1>0, <2>2, <4>1, <4>2, <4>3, PlacedInRow
    <3>7. p + o \in Nat
      BY <1>0, <2>2, <2>5
    <3> QED
      BY <3>1, <3>6, <3>7 DEF InHead, text, d
  <2>6. CASE a > d
    <3>2. /\ a - d \in 1..Len(row) /\ b - d \in a - d..Len(row)
          /\ \A j \in a - d..b - d : row[j] # "|"
      <4>1. ASSUME NEW j \in a - d..b - d PROVE row[j] # "|"
        <5>1. j \in 1..Len(row) /\ d + j \in a..b
          BY <1>0, <2>2, <2>6
        <5> QED
          BY <1>0, <2>2, <5>1
      <4> QED
        BY <1>0, <2>2, <2>6, <4>1
    <3>3. Parts(page.cells) /\ row = RowOf(page.cells, Len(page.cells))
      BY PageParts DEF row
    <3>4. PICK k \in DOMAIN page.cells, o \in 0..((a - d) - 1) :
             /\ b - d <= o + Len(page.cells[k])
             /\ PartAt(row, page.cells[k], k, o)
      BY <3>2, <3>3, SegmentInRow
    <3>5. /\ Len(page.cells[k]) \in Nat
          /\ \A j \in 1..Len(page.cells[k]) : page.cells[k][j] # "|"
      <4>1. page.cells[k] \in Seq(TextWords)
        BY <3>3, PartIsFree
      <4> QED
        BY <3>3, <4>1, PartIsFree
    <3>6. PlacedIn(text, a, b, page.cells[k], d + o)
      <4>2. a \in Nat /\ b \in Nat /\ d < a /\ a <= b /\ b <= d + Len(row)
        BY <1>0, <2>2, <2>6
      <4> QED
        BY <1>0, <2>2, <3>4, <3>5, <4>2, PlacedInRow
    <3>7. d + o \in Nat /\ o \in Nat
      BY <1>0, <2>2, <2>6
    <3>8. ASSUME NEW i \in a..b PROVE Cardinality(BarsBefore(page, i)) = k
      <4>1. PICK n \in Nat : n = Len(page.cells[k])
        BY <3>5
      <4>2. a \in Nat /\ b \in Nat /\ d \in Nat /\ d < a
        BY <1>0, <2>2, <2>6
      <4>3. i \in d + o + 1..d + o + n
        BY <3>4, <4>1, <4>2, Within
      <4>4. i \in RowStart(page) + o + 1..RowStart(page) + o + Len(page.cells[k])
        BY <2>1, <4>1, <4>3
      <4>5. /\ PartAt(Bars(page.cells), page.cells[k], k, o) /\ RowStart(page) \in Nat
            /\ o \in Nat
        BY <2>1, <2>2, <3>4, <3>7 DEF row
      <4> QED
        BY <1>2, <3>5, <4>4, <4>5, CellBars
    <3>9. InCellNo(page, a, b, k)
      BY <2>6, <3>6, <3>7, <3>8 DEF InCellNo, text, d
    <3> QED
      BY <1>2, <3>9
  <2> QED
    BY <1>0, <2>2, <2>4, <2>5, <2>6
<1> QED
  BY <1>1, <1>2

(* A raw text is what stands from a to b, where the first word may lose its *)
(* beginning (the T of TEUR) and the last of several its end.              *)
Quotes(raw, text, a, b) ==
    /\ BarFree(text, a, b)
    /\ Len(raw) = b - a + 1 /\ IsTail(raw[1], text[a])
    /\ Len(raw) = 1 \/ IsHead(raw[Len(raw)], text[b])
    /\ \A j \in 2..Len(raw) - 1 : raw[j] = text[a + j - 1]

(* e is as it was read from its page.                                      *)
IsEntity(e) ==
    e = [kind |-> e.kind, page |-> e.page, at |-> e.at, raw |-> e.raw,
         value |-> e.value, category |-> e.category, source |-> e.source,
         box |-> e.box]
ReadAt(e, page, a, b) ==
    /\ Quotes(e.raw, PageText(page), a, b) /\ e.at \in a..b
    /\ e.kind \in {"amounts", "dates"} =>
          e.category = Categorize(page, a, b, Class(e.kind))[1]
AsRead(e, page) == \E a, b \in Nat : ReadAt(e, page, a, b)

(* What is cut out of a text is quoted from it.                            *)
LEMMA SubSeqQuotes ==
    ASSUME NEW text \in Seq(TextWords), NEW a, NEW b, BarFree(text, a, b)
    PROVE  Quotes(SubSeq(text, a, b), text, a, b)
<1>1. a \in 1..Len(text) /\ b \in a..Len(text) /\ Len(text) \in Nat
  BY DEF BarFree
<1> DEFINE raw == SubSeq(text, a, b)
<1>2. /\ Len(raw) = b - a + 1
      /\ \A j \in 1..(b - a + 1) : raw[j] = text[a + j - 1]
  BY <1>1
<1> HIDE DEF raw
<1>3. raw[1] = text[a] /\ raw[Len(raw)] = text[b]
  BY <1>1, <1>2
<1>4. IsTail(raw[1], text[a]) /\ IsHead(raw[Len(raw)], text[b])
  BY <1>3 DEF IsTail, IsHead
<1>5. \A j \in 2..Len(raw) - 1 : raw[j] = text[a + j - 1]
  BY <1>1, <1>2
<1>6. Quotes(raw, text, a, b)
  BY <1>2, <1>4, <1>5 DEF Quotes
<1> QED
  BY <1>6 DEF raw

(* One word is quoted.                                                     *)
LEMMA OneWord ==
    ASSUME NEW text \in Seq(TextWords), NEW i \in Positions(text), text[i] # "|"
    PROVE  BarFree(text, i, i) /\ Quotes(<<text[i]>>, text, i, i)
<1>1. i \in 1..Len(text) /\ i \in i..Len(text) /\ Len(text) \in Nat /\ i..i = {i}
  BY DEF Positions
<1>2. BarFree(text, i, i)
  BY <1>1 DEF BarFree
<1>3. /\ Len(<<text[i]>>) = i - i + 1 /\ <<text[i]>>[1] = text[i]
      /\ Len(<<text[i]>>) = 1 /\ 2..Len(<<text[i]>>) - 1 = {}
  BY <1>1
<1> QED
  BY <1>2, <1>3 DEF Quotes, IsTail

(* Two words are quoted, the first up to its beginning, the second to its  *)
(* end.                                                                    *)
LEMMA TwoWords ==
    ASSUME NEW text \in Seq(TextWords), NEW i \in Positions(text), text[i] # "|",
           i + 1 \in Positions(text), text[i + 1] # "|",
           NEW x, IsTail(x, text[i]), NEW y, IsHead(y, text[i + 1])
    PROVE  BarFree(text, i, i + 1) /\ Quotes(<<x, y>>, text, i, i + 1)
<1>1. /\ i \in 1..Len(text) /\ i + 1 \in i..Len(text) /\ Len(text) \in Nat
      /\ i..i + 1 = {i, i + 1}
  BY DEF Positions
<1>2. BarFree(text, i, i + 1)
  BY <1>1 DEF BarFree
<1>3. /\ Len(<<x, y>>) = (i + 1) - i + 1 /\ <<x, y>>[1] = x
      /\ <<x, y>>[Len(<<x, y>>)] = y /\ 2..Len(<<x, y>>) - 1 = {}
  BY <1>1
<1> QED
  BY <1>2, <1>3 DEF Quotes

(* What stands at a position is in the text.                               *)
LEMMA AtIsInText ==
    ASSUME NEW text, NEW i \in Int, At(text, i) # "none"
    PROVE  i \in Positions(text) /\ At(text, i) = text[i]
  BY DEF At, Positions

(* Figures, marks and dates are neither bars nor missing.                  *)
LEMMA NumbersAreWords ==
    /\ \A x \in Numbers : x # "|" /\ x # "none"
    /\ \A x \in Marks : x # "|" /\ x # "none"
    /\ \A x \in Dotted : x # "|" /\ x # "none"
  BY VocabularyAssumption, FiguresAssumption DEF Marks

(* What the prefix pattern takes of a word is its beginning.               *)
LEMMA TakenIsHead ==
    ASSUME NEW word, Taken(word) \in Numbers
    PROVE  word # "|" /\ word # "none" /\ IsHead(Taken(word), word)
<1>1. word \in Numbers \cup Dotted
  BY TakenFrom
<1>2. IsHead(Taken(word), word)
  BY PartsAssumption, FiguresAssumption DEF Taken, IsHead
<1> QED
  BY <1>1, <1>2, NumbersAreWords

(* An amount quotes its match, and stands in it.                           *)
LEMMA MatchIsQuoted ==
    ASSUME NEW text \in Seq(TextWords), NEW m \in Captured(text)
    PROVE  /\ Quotes(Raw(text, m), text, m.from, m.to)
           /\ m.at \in m.from..m.to /\ m.from \in Nat /\ m.to \in Nat
<1>0. Len(text) \in Nat
  OBVIOUS
<1>1. CASE m \in MioMatches(text)
  <2>1. /\ m.at \in Positions(text) /\ IsMio(text, m.at) /\ IsNumber(text, m.at)
        /\ m = MioMatch(text, m.at)
    BY <1>0, <1>1, MatchShapes, OneRole
  <2>2. /\ m.at \in Int /\ m.at \in 1..Len(text) /\ text[m.at] # "|"
        /\ m.at + 1 \in 1..Len(text) /\ text[m.at + 1] # "|"
    <3>1. At(text, m.at) # "none" /\ At(text, m.at) # "|"
      BY <2>1, NumbersAreWords DEF IsNumber
    <3>2. At(text, m.at + 1) = "Mio"
      BY <2>1 DEF IsMio
    <3> QED
      BY <1>0, <2>1, <3>1, <3>2, AtIsInText DEF Positions
  <2>3. m.from = m.at /\ m.to = IF At(text, m.at + 2) = "EUR" THEN m.at + 2 ELSE m.at + 1
    BY <2>1 DEF MioMatch, Match
  <2>4. At(text, m.at + 2) = "EUR" => m.at + 2 \in 1..Len(text) /\ text[m.at + 2] # "|"
    BY <1>0, <2>2, AtIsInText DEF Positions
  <2>5. BarFree(text, m.from, m.to)
    <3>1. m.from \in 1..Len(text) /\ m.to \in m.from..Len(text)
      BY <1>0, <2>2, <2>3, <2>4
    <3>2. ASSUME NEW j \in m.from..m.to PROVE text[j] # "|"
      <4>1. \/ j = m.at \/ j = m.at + 1
            \/ j = m.at + 2 /\ At(text, m.at + 2) = "EUR"
        BY <2>2, <2>3
      <4> QED
        BY <2>2, <2>4, <4>1
    <3> QED
      BY <3>1, <3>2 DEF BarFree
  <2>6. Raw(text, m) = SubSeq(text, m.from, m.to)
    <3>1. ~(m.from < m.at)
      BY <2>2, <2>3
    <3> QED
      BY <3>1 DEF Raw
  <2> QED
    BY <2>2, <2>3, <2>5, <2>6, SubSeqQuotes
<1>2. CASE m \in SuffixMatches(text)
  <2>1. /\ m.at \in Positions(text) /\ IsNumber(text, m.at) /\ IsMark(text, m.at + 1)
        /\ m = SuffixMatch(text, m.at)
    BY <1>0, <1>2, MatchShapes
  <2>2. m.from = m.at /\ m.to = m.at + 1
    BY <2>1 DEF SuffixMatch, Match
  <2>3. /\ m.at \in Int /\ m.at \in 1..Len(text) /\ text[m.at] # "|"
        /\ m.at + 1 \in 1..Len(text) /\ text[m.at + 1] # "|"
    BY <1>0, <2>1, AtIsInText, NumbersAreWords DEF IsNumber, IsMark, Positions
  <2>5. BarFree(text, m.from, m.to)
    <3>1. m.from \in 1..Len(text) /\ m.to \in m.from..Len(text)
      BY <1>0, <2>2, <2>3
    <3>2. ASSUME NEW j \in m.from..m.to PROVE text[j] # "|"
      <4>1. j = m.at \/ j = m.at + 1
        BY <2>2, <2>3
      <4> QED
        BY <2>3, <4>1
    <3> QED
      BY <3>1, <3>2 DEF BarFree
  <2>6. Raw(text, m) = SubSeq(text, m.from, m.to)
    <3>1. ~(m.from < m.at)
      BY <2>2, <2>3
    <3> QED
      BY <3>1 DEF Raw
  <2> QED
    BY <2>2, <2>3, <2>5, <2>6, SubSeqQuotes
<1>3. CASE m \in PrefixMatches(text)
  <2>1. /\ m.at \in Positions(text) /\ Taken(text[m.at]) \in Numbers
        /\ IsMark(text, m.at - 1) /\ m = PrefixMatch(text, m.at)
    BY <1>0, <1>3, MatchShapes
  <2>2. m.from = m.at - 1 /\ m.to = m.at
    BY <2>1 DEF PrefixMatch, Match
  <2>3. /\ m.at \in Int /\ m.at \in Positions(text) /\ text[m.at] # "|"
        /\ IsHead(Taken(text[m.at]), text[m.at])
        /\ m.at - 1 \in Positions(text) /\ text[m.at - 1] # "|" /\ text[m.at - 1] \in Marks
    <3>1. m.at \in Int /\ m.at - 1 \in Int
      BY <1>0, <2>1 DEF Positions
    <3> QED
      BY <2>1, <3>1, AtIsInText, TakenIsHead, NumbersAreWords DEF IsMark
  <2>4. IsTail("EUR", text[m.at - 1])
    BY <2>3, PartsAssumption DEF IsTail, Marks
  <2>5. (m.at - 1) + 1 = m.at /\ m.at - 1 \in Nat /\ m.at \in Nat
    BY <2>3 DEF Positions
  <2>6. Raw(text, m) = <<"EUR", Taken(text[m.at])>>
    BY <2>2, <2>3 DEF Raw
  <2>7. Quotes(<<"EUR", Taken(text[m.at])>>, text, m.at - 1, m.at)
    <3>1. PICK i : i = m.at - 1 /\ i + 1 = m.at
      BY <2>5
    <3>2. Quotes(<<"EUR", Taken(text[i + 1])>>, text, i, i + 1)
      BY <2>3, <2>4, <3>1, TwoWords
    <3> QED
      BY <3>1, <3>2
  <2>8. m.at \in m.from..m.to /\ m.from \in Nat /\ m.to \in Nat
    BY <2>2, <2>3, <2>5
  <2> QED
    BY <2>2, <2>6, <2>7, <2>8
<1> QED
  BY <1>1, <1>2, <1>3 DEF Captured, Spared

(* What is quoted from words of a part is found in the part.               *)
LEMMA PlacedOccurs ==
    ASSUME NEW text, NEW raw, NEW a \in Nat, NEW b \in Nat, a <= b,
           Quotes(raw, text, a, b), NEW part, Len(part) \in Nat,
           NEW o \in Nat, PlacedIn(text, a, b, part, o)
    PROVE  Occurs(raw, part)
<1> DEFINE k == a - o - 1
<1>1. /\ o < a /\ b - o <= Len(part) /\ Len(raw) = b - a + 1
      /\ \A j \in a..b : text[j] = part[j - o]
  BY DEF PlacedIn, Quotes
<1>2. k \in 0..Len(part) - Len(raw) /\ k + 1 = a - o
  BY <1>1
<1>3. IsTail(raw[1], part[k + 1])
  <2>1. text[a] = part[a - o]
    BY <1>1
  <2> QED
    BY <1>2, <2>1 DEF Quotes
<1>4. ASSUME NEW j \in 2..Len(raw) - 1 PROVE raw[j] = part[k + j]
  <2>1. a + j - 1 \in a..b /\ (a + j - 1) - o = k + j
    BY <1>1
  <2>2. raw[j] = text[a + j - 1]
    BY DEF Quotes
  <2>3. text[a + j - 1] = part[(a + j - 1) - o]
    BY <1>1, <2>1
  <2> QED
    BY <2>1, <2>2, <2>3
<1>5. Len(raw) # 1 => IsHead(raw[Len(raw)], part[k + Len(raw)])
  <2>1. text[b] = part[b - o] /\ b - o = k + Len(raw)
    BY <1>1
  <2> QED
    BY <2>1 DEF Quotes
<1> HIDE DEF k
<1> QED
  BY <1>2, <1>3, <1>4, <1>5 DEF Occurs

-----------------------------------------------------------------------------
(* WHAT IS EXTRACTED FROM A PAGE.                                          *)
Fresh(e, page, p) ==
    /\ IsEntity(e) /\ e.kind \in Kinds /\ e.page = p
    /\ AsRead(e, page)

(* An entity made of a quotation is as it was read.                        *)
LEMMA ReadHere ==
    ASSUME NEW page, NEW p, NEW kind \in Kinds, NEW at, NEW raw, NEW value,
           NEW category, NEW a \in Nat, NEW b \in Nat,
           Quotes(raw, PageText(page), a, b), at \in a..b,
           kind \in {"amounts", "dates"} =>
              category = Categorize(page, a, b, Class(kind))
    PROVE  Fresh(Entity(kind, p, at, raw, value, category), page, p)
<1> DEFINE e == Entity(kind, p, at, raw, value, category)
<1>1. /\ e = [kind |-> kind, page |-> p, at |-> at, raw |-> raw, value |-> value,
              category |-> category[1], source |-> category[2], box |-> 0]
      /\ e.kind = kind /\ e.page = p /\ e.at = at /\ e.raw = raw
      /\ e.category = category[1]
  BY DEF Entity
<1>2. IsEntity(e)
  BY DEF IsEntity, Entity
<1> HIDE DEF e
<1>3. ReadAt(e, page, a, b)
  <2>1. Quotes(e.raw, PageText(page), a, b) /\ e.at \in a..b
    BY <1>1
  <2>2. ASSUME e.kind \in {"amounts", "dates"}
        PROVE  e.category = Categorize(page, a, b, Class(e.kind))[1]
    <3>1. category = Categorize(page, a, b, Class(kind))
      BY <1>1, <2>2
    <3> QED
      BY <1>1, <3>1
  <2> QED
    BY <2>1, <2>2 DEF ReadAt
<1>4. Fresh(e, page, p)
  BY <1>1, <1>2, <1>3 DEF Fresh, AsRead
<1> QED
  BY <1>4 DEF e

(* _extract_amounts quotes the page.                                       *)
LEMMA AmountsFresh ==
    ASSUME NEW page \in PageShape, NEW p, NEW e \in ExtractAmounts(page, p)
    PROVE  Fresh(e, page, p)
<1>1. PICK m \in Captured(PageText(page)) :
         e = Entity("amounts", p, m.at, Raw(PageText(page), m), m.value,
                    Categorize(page, m.from, m.to, AmountClass))
  BY DEF ExtractAmounts
<1>2. PageText(page) \in Seq(TextWords)
  BY TextType
<1>3. /\ Quotes(Raw(PageText(page), m), PageText(page), m.from, m.to)
      /\ m.at \in m.from..m.to /\ m.from \in Nat /\ m.to \in Nat
  BY <1>2, MatchIsQuoted
<1>4. "amounts" \in Kinds /\ Class("amounts") = AmountClass
  BY DEF Kinds, Class
<1> QED
  BY <1>1, <1>3, <1>4, ReadHere

(* _extract_dates quotes the page.                                         *)
LEMMA DatesFresh ==
    ASSUME NEW page \in PageShape, NEW p, NEW e \in ExtractDates(page, p)
    PROVE  Fresh(e, page, p)
<1> DEFINE text == PageText(page)
<1>1. PICK i \in Positions(text) :
         /\ text[i] \in DOMAIN Dates
         /\ e = Entity("dates", p, i, <<text[i]>>, 0,
                       Categorize(page, i, i, DateClass))
  BY DEF ExtractDates, IsDate
<1>2. text \in Seq(TextWords)
  BY TextType
<1> HIDE DEF text
<1>3. Quotes(<<text[i]>>, text, i, i) /\ i \in Nat /\ i \in i..i
  BY <1>1, <1>2, OneWord, NumbersAreWords, VocabularyAssumption DEF Positions
<1>4. "dates" \in Kinds /\ Class("dates") = DateClass
  BY DEF Kinds, Class
<1> QED
  BY <1>1, <1>3, <1>4, ReadHere DEF text

(* _extract_percentages quotes the page.                                   *)
LEMMA PercentagesFresh ==
    ASSUME NEW page \in PageShape, NEW p, NEW e \in ExtractPercentages(page, p)
    PROVE  Fresh(e, page, p)
<1> DEFINE text == PageText(page)
<1>1. PICK i \in Positions(text) :
         /\ At(text, i) \in Short /\ At(text, i + 1) = "%"
         /\ e = Entity("percentages", p, i, <<text[i], "%">>, Figure[text[i]],
                       <<"unbekannt", "none">>)
  BY DEF ExtractPercentages
<1>2. text \in Seq(TextWords)
  BY TextType
<1> HIDE DEF text
<1>3. i \in Nat /\ i + 1 \in Int /\ i \in i..i + 1 /\ i + 1 \in Nat
  BY DEF Positions
<1>4. /\ i + 1 \in Positions(text) /\ text[i + 1] = "%" /\ text[i + 1] # "|"
      /\ text[i] # "|"
  BY <1>1, <1>3, AtIsInText, NumbersAreWords, VocabularyAssumption
     DEF Numbers, At, Positions
<1>5. IsTail(text[i], text[i]) /\ IsHead("%", text[i + 1])
  BY <1>4 DEF IsTail, IsHead
<1>6. Quotes(<<text[i], "%">>, text, i, i + 1)
  BY <1>2, <1>4, <1>5, TwoWords
<1>7. "percentages" \in Kinds /\ "percentages" \notin {"amounts", "dates"}
  BY DEF Kinds
<1> QED
  BY <1>1, <1>3, <1>6, <1>7, ReadHere DEF text

(* _extract_policy_numbers quotes the page.                                *)
LEMMA PolicyNumbersFresh ==
    ASSUME NEW page \in PageShape, NEW p, NEW e \in ExtractPolicyNumbers(page, p)
    PROVE  Fresh(e, page, p)
<1> DEFINE text == PageText(page)
<1>1. PICK i \in Positions(text) :
         /\ text[i] \in Numbers \cup Dotted
         /\ e = Entity("policy_numbers", p, i, <<text[i]>>, 0,
                       <<"unbekannt", "none">>)
  BY DEF ExtractPolicyNumbers
<1>2. text \in Seq(TextWords)
  BY TextType
<1> HIDE DEF text
<1>3. Quotes(<<text[i]>>, text, i, i) /\ i \in Nat /\ i \in i..i
  BY <1>1, <1>2, OneWord, NumbersAreWords DEF Positions
<1>4. "policy_numbers" \in Kinds /\ "policy_numbers" \notin {"amounts", "dates"}
  BY DEF Kinds
<1> QED
  BY <1>1, <1>3, <1>4, ReadHere DEF text

(* _extract_references quotes the page.                                    *)
LEMMA ReferencesFresh ==
    ASSUME NEW page \in PageShape, NEW p, NEW e \in ExtractReferences(page, p)
    PROVE  Fresh(e, page, p)
<1> DEFINE text == PageText(page)
<1>1. PICK i \in Positions(text) :
         /\ text[i] = "AFB"
         /\ e = Entity("references", p, i,
                       SubSeq(text, i,
                              IF At(text, i + 1) = "2008" THEN i + 1 ELSE i), 0,
                       <<"unbekannt", "none">>)
  BY DEF ExtractReferences
<1>2. text \in Seq(TextWords)
  BY TextType
<1>3. PICK b :
         /\ b = i \/ (b = i + 1 /\ At(text, i + 1) = "2008")
         /\ e = Entity("references", p, i, SubSeq(text, i, b), 0,
                       <<"unbekannt", "none">>)
  BY <1>1
<1> HIDE DEF text
<1>5. i \in Nat /\ i + 1 \in Int /\ i \in 1..Len(text) /\ Len(text) \in Nat
  BY <1>2 DEF Positions
<1>6. (b = i + 1) => i + 1 \in 1..Len(text) /\ text[i + 1] # "|"
  BY <1>3, <1>5, AtIsInText DEF Positions
<1>7. BarFree(text, i, b)
  <2>1. i \in 1..Len(text) /\ b \in i..Len(text)
    BY <1>3, <1>5, <1>6
  <2>2. ASSUME NEW j \in i..b PROVE text[j] # "|"
    <3>1. CASE b = i
      <4>1. j = i
        BY <1>5, <3>1
      <4> QED
        BY <1>1, <4>1
    <3>2. CASE b = i + 1
      <4>1. j = i \/ j = i + 1
        BY <1>5, <3>2
      <4> QED
        BY <1>1, <1>6, <3>2, <4>1
    <3> QED
      BY <1>3, <3>1, <3>2
  <2> QED
    BY <2>1, <2>2 DEF BarFree
<1>8. Quotes(SubSeq(text, i, b), text, i, b) /\ b \in Nat /\ i \in i..b
  BY <1>2, <1>3, <1>5, <1>7, SubSeqQuotes
<1>9. "references" \in Kinds /\ "references" \notin {"amounts", "dates"}
  BY DEF Kinds
<1> QED
  BY <1>1, <1>3, <1>5, <1>8, <1>9, ReadHere DEF text

(* Every value of a page quotes it.                                        *)
LEMMA ExtractedFresh ==
    ASSUME NEW page \in PageShape, NEW p, NEW e \in Extracted(page, p)
    PROVE  Fresh(e, page, p)
  BY AmountsFresh, DatesFresh, PercentagesFresh, PolicyNumbersFresh,
     ReferencesFresh DEF Extracted

(* The values of a function on a finite set are finitely many.             *)
LEMMA RangeIsFinite ==
    ASSUME NEW S, IsFiniteSet(S), NEW T, NEW f \in [S -> T],
           \A t \in T : \E s \in S : f[s] = t
    PROVE  IsFiniteSet(T)
<1>1. f \in Surjection(S, T)
  BY Fun_IsSurj
<1> QED
  BY <1>1, FS_Surjection

(* The text of an amount decides its value.                                *)
ValueOf(raw) ==
    IF raw[1] = "EUR" THEN Figure[raw[2]]
    ELSE IF raw[2] = "Mio" THEN Figure[raw[1]] * Million
    ELSE Figure[raw[1]] * Unit[raw[2]]

(* The value of an amount is that of its text.                             *)
LEMMA RawDecides ==
    ASSUME NEW text \in Seq(TextWords), NEW m \in Captured(text)
    PROVE  m.value = ValueOf(Raw(text, m))
<1>0. Len(text) \in Nat
  OBVIOUS
<1>1. CASE m \in MioMatches(text)
  <2>1. /\ m.at \in Positions(text) /\ IsMio(text, m.at) /\ IsNumber(text, m.at)
        /\ m = MioMatch(text, m.at)
    BY <1>0, <1>1, MatchShapes, OneRole
  <2>2. /\ m.at \in 1..Len(text) /\ m.at + 1 \in 1..Len(text)
        /\ text[m.at] \in Numbers /\ text[m.at + 1] = "Mio"
    BY <1>0, <2>1, AtIsInText DEF Positions, IsNumber, IsMio, At
  <2>3. /\ m.from = m.at
        /\ m.to = IF At(text, m.at + 2) = "EUR" THEN m.at + 2 ELSE m.at + 1
        /\ m.value = Figure[text[m.at]] * Million
    BY <2>1 DEF MioMatch, Match
  <2>4. m.at + 2 \in Int /\ (At(text, m.at + 2) = "EUR" => m.at + 2 \in 1..Len(text))
    BY <2>2, AtIsInText DEF Positions
  <2>5. m.from \in 1..Len(text) /\ m.to \in m.from + 1..Len(text)
    BY <1>0, <2>2, <2>3, <2>4
  <2>6. Raw(text, m) = SubSeq(text, m.from, m.to)
    <3>1. ~(m.from < m.at)
      BY <2>2, <2>3
    <3> QED
      BY <3>1 DEF Raw
  <2>7. Raw(text, m)[1] = text[m.at] /\ Raw(text, m)[2] = text[m.at + 1]
    BY <1>0, <2>2, <2>3, <2>5, <2>6
  <2>8. text[m.at] # "EUR"
    BY <2>2, FiguresAssumption DEF Marks
  <2> QED
    BY <2>2, <2>3, <2>7, <2>8 DEF ValueOf
<1>2. CASE m \in SuffixMatches(text)
  <2>1. /\ m.at \in Positions(text) /\ IsNumber(text, m.at) /\ IsMark(text, m.at + 1)
        /\ m = SuffixMatch(text, m.at)
    BY <1>0, <1>2, MatchShapes
  <2>2. m.from = m.at /\ m.to = m.at + 1
        /\ m.value = Figure[text[m.at]] * Unit[text[m.at + 1]]
    BY <2>1 DEF SuffixMatch, Match
  <2>3. /\ m.at \in Int /\ m.at \in 1..Len(text) /\ text[m.at] \in Numbers
        /\ m.at + 1 \in 1..Len(text) /\ text[m.at + 1] \in Marks
    BY <1>0, <2>1, AtIsInText, NumbersAreWords DEF IsNumber, IsMark, Positions
  <2>6. Raw(text, m) = SubSeq(text, m.from, m.to)
    <3>1. ~(m.from < m.at)
      BY <2>2, <2>3
    <3> QED
      BY <3>1 DEF Raw
  <2>7. Raw(text, m)[1] = text[m.at] /\ Raw(text, m)[2] = text[m.at + 1]
    BY <1>0, <2>2, <2>3, <2>6
  <2>8. text[m.at] # "EUR" /\ text[m.at + 1] # "Mio"
    BY <2>3, FiguresAssumption DEF Marks
  <2> QED
    BY <2>2, <2>7, <2>8 DEF ValueOf
<1>3. CASE m \in PrefixMatches(text)
  <2>1. /\ m.at \in Positions(text)
        /\ m = PrefixMatch(text, m.at)
    BY <1>0, <1>3, MatchShapes
  <2>2. m.from = m.at - 1 /\ m.at \in Int /\ m.value = Figure[Taken(text[m.at])]
    BY <2>1 DEF PrefixMatch, Match, Positions
  <2>3. m.from < m.at
    BY <2>2
  <2>6. Raw(text, m) = <<"EUR", Taken(text[m.at])>>
    BY <2>3 DEF Raw
  <2> QED
    BY <2>2, <2>6 DEF ValueOf
<1> QED
  BY <1>1, <1>2, <1>3 DEF Captured, Spared

-----------------------------------------------------------------------------
(* PLACES OF THE STRUCTURE.                                                *)
(* Every page of a document has the shape of pages, as text and as parsed. *)
LEMMA PageIsShaped ==
    ASSUME NEW d \in Documents
    PROVE  /\ d.pages \in Seq(PageShape) /\ d.parsed \in Seq(PageShape)
           /\ \A p \in DOMAIN d.pages : d.pages[p] \in PageShape
           /\ \A p \in DOMAIN d.parsed : d.parsed[p] \in PageShape
<1>1. d \in [pages : Seq(PageShape), parsed : Seq(PageShape), numbered : SUBSET Nat,
             structure : {"ok", "none", "unreadable"}]
  BY DocumentsAssumption
<1>2. d.pages \in Seq(PageShape) /\ d.parsed \in Seq(PageShape)
  BY <1>1
<1> QED
  BY <1>2, ElementOfSeq

(* The cells of the structure are finitely many.                           *)
LEMMA MatchesFinite ==
    ASSUME doc \in Documents, NEW e
    PROVE  IsFiniteSet(Matches(e))
<1> DEFINE S(p) == DOMAIN doc.parsed[p].cells
           T(p) == {[page |-> p, column |-> c] : c \in S(p)}
           All == {T(p) : p \in DOMAIN doc.parsed}
<1>1. ASSUME NEW p \in DOMAIN doc.parsed PROVE IsFiniteSet(T(p))
  <2> DEFINE f == [c \in S(p) |-> [page |-> p, column |-> c]]
  <2>1. IsFiniteSet(S(p))
    BY PageIsShaped, PageParts, FS_Interval
  <2>2. f \in [S(p) -> T(p)] /\ \A t \in T(p) : \E s \in S(p) : f[s] = t
    OBVIOUS
  <2> HIDE DEF S, T, f
  <2> QED
    BY <2>1, <2>2, RangeIsFinite
<1>2. IsFiniteSet(All)
  <2> DEFINE g == [p \in DOMAIN doc.parsed |-> T(p)]
  <2>1. IsFiniteSet(DOMAIN doc.parsed)
    BY PageIsShaped, FS_Interval
  <2>2. /\ g \in [DOMAIN doc.parsed -> All]
        /\ \A t \in All : \E s \in DOMAIN doc.parsed : g[s] = t
    OBVIOUS
  <2> HIDE DEF All, g
  <2> QED
    BY <2>1, <2>2, RangeIsFinite
<1>3. IsFiniteSet(UNION All)
  <2>1. \A t \in All : IsFiniteSet(t)
    BY <1>1
  <2> HIDE DEF All
  <2> QED
    BY <1>2, <2>1, FS_UNION
<1>4. Matches(e) \subseteq UNION All
  <2> SUFFICES ASSUME NEW cell \in Matches(e) PROVE cell \in UNION All
    OBVIOUS
  <2>1. PICK p \in DOMAIN doc.parsed : \E c \in S(p) :
           cell = [page |-> p, column |-> c]
    BY DEF Matches, TableCells
  <2>2. cell \in T(p) /\ T(p) \in All
    BY <2>1
  <2> QED
    BY <2>2
<1> HIDE DEF All
<1> QED
  BY <1>3, <1>4, FS_Subset

Above(e) ==
    LET page == doc.pages[e.page]
    IN {k \in DOMAIN page.heads : Covers(page.heads[k], ColumnOf(e))}
Decided(e) ==
    e.kind \in {"amounts", "dates"} /\ InCell(e) =>
       LET page == doc.pages[e.page]
       IN \/ Merged(page) /\ (doc.structure # "ok" \/ Cardinality(Matches(e)) # 1)
          \/ doc.structure = "ok" /\ ~Same(e.page) /\ Matches(e) # {}
          \/ {e.category} = {Class(e.kind)[page.heads[k].label] : k \in Above(e)}

(* What no step takes from an entity.                                      *)
Known(e) == IsEntity(e) /\ e.kind \in Kinds /\ e.page \in 1..next - 1

(* Of every place one amount, none without a match, no value missing.      *)
OnePerPlace(ents) == \A e, f \in ents : e.at = f.at => e = f
Captures(ents, text) ==
    \A e \in ents : \E m \in Captured(text) :
       e.at = m.at /\ e.raw = Raw(text, m) /\ e.value = m.value
Complete(ents, text) ==
    \A m \in Captured(text) : \E e \in ents : e.value = m.value
AmountsRead(ents, text) ==
    OnePerPlace(ents) /\ Captures(ents, text) /\ Complete(ents, text)

ScanInv ==
    /\ doc \in Documents /\ next \in 1..Len(doc.pages) + 1
    /\ phase \in {"scan", "tables", "boxes", "count", "ready"}
    /\ phase \in {"tables", "boxes"} => doc.structure = "ok"
KnownInv == \A e \in found : Known(e)
CategoryInv ==
    \A e \in found :
       IF phase \in {"scan", "tables"} THEN AsRead(e, doc.pages[e.page])
                                       ELSE Decided(e)
AmountsInv ==
    \A p \in 1..next - 1 : AmountsRead(Amounts(p), PageText(doc.pages[p]))
ValuesInv == ScanInv /\ KnownInv /\ CategoryInv /\ AmountsInv

-----------------------------------------------------------------------------
(* THE HEADER ABOVE A CELL.                                                *)
LEMMA HeaderIsThere ==
    ASSUME NEW d \in Documents, NEW p \in DOMAIN d.pages, NEW page,
           page = d.pages[p], NEW k \in DOMAIN page.cells
    PROVE  \E j \in DOMAIN page.heads :
              /\ {x \in DOMAIN page.heads : Covers(page.heads[x], k)} = {j}
              /\ HeaderOf(page, k) = page.heads[j].label
              /\ page.heads[j].label # "none"
              /\ ~Merged(page) => j = k
<1>1. page \in PageShape
  BY PageIsShaped
<1>2. PICK j \in DOMAIN page.heads :
         \A x \in DOMAIN page.heads : Covers(page.heads[x], k) <=> x = j
  BY TablesAssumption
<1>3. \A x \in DOMAIN page.heads :
         /\ page.heads[x] \in [label : Labels, column : Nat, span : Nat] /\ x \in Nat
  <2>1. page.heads \in Seq([label : Labels, column : Nat, span : Nat])
    BY <1>1 DEF PageShape
  <2>2. DOMAIN page.heads = 1..Len(page.heads) /\ Len(page.heads) \in Nat
    BY <1>1, PageParts
  <2>3. ASSUME NEW x \in 1..Len(page.heads)
        PROVE  page.heads[x] \in [label : Labels, column : Nat, span : Nat]
    BY <2>1, ElementOfSeq
  <2>4. \A x \in 1..Len(page.heads) : x \in Nat
    BY <2>2
  <2> QED
    BY <2>2, <2>3, <2>4
<1>4. {x \in DOMAIN page.heads : Covers(page.heads[x], k)} = {j}
  BY <1>2
<1>5. HeaderOf(page, k) = page.heads[j].label
  <2> DEFINE over == {x \in DOMAIN page.heads : Covers(page.heads[x], k)}
             c == CHOOSE x \in over : \A y \in over : y <= x
  <2>1. over = {j} /\ j <= j
    BY <1>3, <1>4
  <2>2. c = j
    BY <2>1
  <2>3. HeaderOf(page, k) = page.heads[c].label
    BY <2>1 DEF HeaderOf
  <2> QED
    BY <2>2, <2>3
<1>6. page.heads[j].label # "none"
  BY <1>3, LabelsAssumption
<1>7. ASSUME ~Merged(page) PROVE j = k
  <2>1. page.heads[j].column = j /\ ~(page.heads[j].span > 1)
    BY <1>7, TablesAssumption DEF Merged
  <2>2. k \in page.heads[j].column..page.heads[j].column + page.heads[j].span - 1
    BY <1>2 DEF Covers
  <2>3. j \in Nat /\ page.heads[j].span \in Nat
    BY <1>3
  <2> QED
    BY <2>1, <2>2, <2>3
<1> QED
  BY <1>4, <1>5, <1>6, <1>7

-----------------------------------------------------------------------------
(* A value behind the start of the row lies in one cell.                   *)
LEMMA OwnCell ==
    ASSUME doc \in Documents, NEW e, e.page \in DOMAIN doc.pages,
           NEW page, page = doc.pages[e.page], NEW a \in Nat, NEW b \in Nat,
           Quotes(e.raw, PageText(page), a, b), e.at \in a..b, InCell(e)
    PROVE  \E k \in DOMAIN page.cells :
              /\ InCellNo(page, a, b, k) /\ ColumnOf(e) = k
              /\ Same(e.page) => [page |-> e.page, column |-> k] \in Matches(e)
<1>1. page \in PageShape
  BY PageIsShaped
<1>2. BarFree(PageText(page), a, b)
  BY DEF Quotes
<1>3. e.at > RowStart(page) /\ e.at \in Nat /\ a <= b
  BY DEF InCell
<1>4. RowStart(page) \in Nat /\ Len(page.prose) <= RowStart(page)
  <2>1. Len(page.prose) \in Nat /\ Len(HeadRow(page)) \in Nat
    <3>1. page.prose \in Seq(TextWords)
      BY <1>1, PageParts
    <3>2. HeadRow(page) \in Seq(TextWords)
      BY <1>1, PageParts, RowIsSplit DEF RowUpTo
    <3> QED
      BY <3>1, <3>2
  <2>2. RowStart(page) = Len(page.prose) + Len(HeadRow(page))
    BY DEF RowStart
  <2>3. PICK m \in Nat, n \in Nat :
           m = Len(page.prose) /\ n = Len(HeadRow(page))
    BY <2>1
  <2>4. RowStart(page) = m + n
    BY <2>2, <2>3
  <2>5. m <= m + n /\ m + n \in Nat
    OBVIOUS
  <2> QED
    BY <2>3, <2>4, <2>5
<1>5. ~InProse(page, a, b) /\ ~InHead(page, a, b)
  <2>1. Len(page.prose) \in Nat
    <3>1. page.prose \in Seq(TextWords)
      BY <1>1, PageParts
    <3> QED
      BY <3>1
  <2>2. b > RowStart(page) /\ b > Len(page.prose)
    BY <1>3, <1>4, <2>1
  <2>3. ~(b <= RowStart(page)) /\ ~(b <= Len(page.prose))
    BY <1>4, <2>1, <2>2
  <2> QED
    BY <2>3 DEF InProse, InHead
<1>6. PICK k \in DOMAIN page.cells : InCellNo(page, a, b, k)
  BY <1>1, <1>2, <1>5, WordsLieTogether
<1>7. ColumnOf(e) = k
  BY <1>6 DEF InCellNo, ColumnOf, BarsBefore
<1>8. PICK o \in Nat : PlacedIn(PageText(page), a, b, page.cells[k], o)
  BY <1>6 DEF InCellNo
<1>9. Len(page.cells[k]) \in Nat
  BY <1>1, PageParts, PartIsFree
<1>10. Occurs(e.raw, page.cells[k])
  BY <1>3, <1>8, <1>9, PlacedOccurs
<1>11. page.cells[k] # <<>>
  <2>1. o < a /\ b - o <= Len(page.cells[k])
    BY <1>8 DEF PlacedIn
  <2>2. Len(page.cells[k]) > 0
    BY <1>3, <1>9, <2>1
  <2> QED
    BY <2>2
<1>12. HeaderOf(page, k) # "none"
  BY HeaderIsThere
<1>13. ASSUME Same(e.page)
       PROVE  [page |-> e.page, column |-> k] \in Matches(e)
  <2>1. e.page \in DOMAIN doc.parsed /\ doc.parsed[e.page] = page
    BY <1>13 DEF Same
  <2>2. [page |-> e.page, column |-> k] \in TableCells
    BY <1>11, <1>12, <2>1 DEF TableCells
  <2> QED
    BY <1>10, <2>1, <2>2 DEF Matches, CellText
<1> QED
  BY <1>6, <1>7, <1>13

(* Below headers that are not merged the bars lead to the header above.    *)
IsClassOf(category, class, label) == category = class[label]

(* _categorize takes the class of the header with the number of the cell.  *)
LEMMA BarsLeadToTheHeader ==
    ASSUME NEW page, NEW a, NEW b, NEW k, NEW class, a \in a..b,
           InCellNo(page, a, b, k), k \in DOMAIN page.heads,
           page.heads[k].label # "none"
    PROVE  IsClassOf(Categorize(page, a, b, class)[1], class,
                     page.heads[k].label)
<1>1. Cardinality(BarsBefore(page, a)) = k
  BY DEF InCellNo
<1>2. MarkdownHeader(page, a) = page.heads[k].label
  BY <1>1 DEF MarkdownHeader, BarsBefore
<1>3. CASE class[page.heads[k].label] # "unbekannt"
  <2>1. Categorize(page, a, b, class) =
           <<class[page.heads[k].label], "table_header_md">>
    BY <1>2, <1>3 DEF Categorize
  <2> QED
    BY <2>1 DEF IsClassOf
<1>4. CASE class[page.heads[k].label] = "unbekannt"
  <2>1. Categorize(page, a, b, class) = <<"unbekannt", "none">>
    BY <1>2, <1>4 DEF Categorize
  <2> QED
    BY <1>4, <2>1 DEF IsClassOf
<1> QED
  BY <1>3, <1>4

-----------------------------------------------------------------------------
(* Only the category, its source and the box of an entity change.          *)
SameValue(e, f) ==
    e.kind = f.kind /\ e.page = f.page /\ e.at = f.at /\ e.raw = f.raw
       /\ e.value = f.value

(* Cells and headers of a value do not depend on its category or box.      *)
LEMMA SameStays ==
    ASSUME NEW e, NEW f, SameValue(e, f)
    PROVE  /\ Matches(e) = Matches(f) /\ (InCell(e) <=> InCell(f))
           /\ ColumnOf(e) = ColumnOf(f) /\ Above(e) = Above(f)
<1>1. e.page = f.page /\ e.at = f.at /\ e.raw = f.raw
  BY DEF SameValue
<1>2. Matches(e) = Matches(f)
  BY <1>1 DEF Matches
<1>3. (InCell(e) <=> InCell(f)) /\ ColumnOf(e) = ColumnOf(f)
  BY <1>1 DEF InCell, ColumnOf
<1>4. Above(e) = Above(f)
  BY <1>1, <1>3 DEF Above
<1> QED
  BY <1>2, <1>3, <1>4

(* The step of the tables changes category and source.                     *)
LEMMA WithHeaderKeeps ==
    ASSUME NEW e, IsEntity(e)
    PROVE  SameValue(WithHeader(e), e) /\ IsEntity(WithHeader(e))
  BY DEF WithHeader, IsEntity, SameValue

(* The step of the boxes changes the box.                                  *)
LEMMA WithBoxKeeps ==
    ASSUME NEW e, IsEntity(e)
    PROVE  /\ SameValue(WithBox(e), e) /\ IsEntity(WithBox(e))
           /\ WithBox(e).category = e.category
  BY DEF WithBox, IsEntity, SameValue

(* Of a document without structure the category is the one of the bars.    *)
LEMMA BarsDecide ==
    ASSUME doc \in Documents, NEW e, e.page \in DOMAIN doc.pages,
           AsRead(e, doc.pages[e.page]), e.kind \in {"amounts", "dates"}, InCell(e),
           ~Merged(doc.pages[e.page])
    PROVE  {e.category} =
              {Class(e.kind)[doc.pages[e.page].heads[k].label] : k \in Above(e)}
<1>1. PICK page : page = doc.pages[e.page]
  OBVIOUS
<1>2. PICK a \in Nat, b \in Nat : ReadAt(e, page, a, b)
  BY <1>1 DEF AsRead
<1>3. /\ Quotes(e.raw, PageText(page), a, b) /\ e.at \in a..b
      /\ e.category = Categorize(page, a, b, Class(e.kind))[1]
  BY <1>2 DEF ReadAt
<1>4. PICK k \in DOMAIN page.cells :
         InCellNo(page, a, b, k) /\ ColumnOf(e) = k
  BY <1>1, <1>3, OwnCell
<1>5. PICK j \in DOMAIN page.heads :
         /\ {x \in DOMAIN page.heads : Covers(page.heads[x], k)} = {j}
         /\ page.heads[j].label # "none" /\ j = k
  BY <1>1, HeaderIsThere
<1>6. a \in a..b
  BY <1>3
<1>7. e.category = Class(e.kind)[page.heads[k].label]
  <2>1. k \in DOMAIN page.heads /\ page.heads[k].label # "none"
    BY <1>5
  <2>2. IsClassOf(Categorize(page, a, b, Class(e.kind))[1], Class(e.kind),
                  page.heads[k].label)
    BY <1>4, <1>6, <2>1, BarsLeadToTheHeader
  <2> QED
    BY <1>3, <2>2 DEF IsClassOf
<1>8. Above(e) = {k}
  BY <1>1, <1>4, <1>5 DEF Above
<1> QED
  BY <1>1, <1>7, <1>8

(* Without structure every value is decided when it is read.               *)
LEMMA DecidedWithoutTables ==
    ASSUME doc \in Documents, NEW e, e.page \in DOMAIN doc.pages,
           AsRead(e, doc.pages[e.page]), doc.structure # "ok"
    PROVE  Decided(e)
  BY BarsDecide DEF Decided

(* With the structure, the cell of a value decides, if it is the only one  *)
(* that holds its text; else the bars, unless headers are merged.          *)
LEMMA DecidedByTables ==
    ASSUME doc \in Documents, NEW e, e.page \in DOMAIN doc.pages, IsEntity(e),
           AsRead(e, doc.pages[e.page]), doc.structure = "ok"
    PROVE  Decided(WithHeader(e))
<1> DEFINE f == WithHeader(e)
<1>1. /\ SameValue(f, e) /\ f.kind = e.kind /\ f.page = e.page
      /\ Matches(f) = Matches(e) /\ (InCell(f) <=> InCell(e)) /\ Above(f) = Above(e)
  BY WithHeaderKeeps, SameStays DEF SameValue
<1>2. SUFFICES ASSUME e.kind \in {"amounts", "dates"}, InCell(e)
      PROVE  Decided(f)
  <2> HIDE DEF f
  <2>1. ~(f.kind \in {"amounts", "dates"} /\ InCell(f)) => Decided(f)
    BY DEF Decided
  <2> QED
    BY <1>1, <2>1 DEF f
<1>3. PICK page : page = doc.pages[e.page]
  OBVIOUS
<1>4. PICK a \in Nat, b \in Nat : ReadAt(e, page, a, b)
  BY <1>3 DEF AsRead
<1>5. Quotes(e.raw, PageText(page), a, b) /\ e.at \in a..b
  BY <1>4 DEF ReadAt
<1>6. PICK k \in DOMAIN page.cells :
         /\ ColumnOf(e) = k
         /\ Same(e.page) => [page |-> e.page, column |-> k] \in Matches(e)
  BY <1>2, <1>3, <1>5, OwnCell
<1>7. PICK j \in DOMAIN page.heads :
         /\ {x \in DOMAIN page.heads : Covers(page.heads[x], k)} = {j}
         /\ HeaderOf(page, k) = page.heads[j].label
  BY <1>3, HeaderIsThere
<1>8. Above(e) = {j}
  BY <1>3, <1>6, <1>7 DEF Above
<1>9. IsFiniteSet(Matches(e))
  BY MatchesFinite
<1>10. CASE Cardinality(Matches(e)) = 1
  <2>1. PICK x : Matches(e) = {x}
    BY <1>9, <1>10, FS_Singleton
  <2>2. CASE ~Same(e.page)
    <3>1. Matches(f) # {} /\ f.page = e.page
      BY <1>1, <2>1
    <3> HIDE DEF f
    <3> QED
      BY <2>2, <3>1 DEF Decided
  <2>4. CASE Same(e.page)
    <3>1. x = [page |-> e.page, column |-> k]
      BY <1>6, <2>1, <2>4
    <3>2. (CHOOSE cell \in Matches(e) : TRUE) = x
      BY <2>1
    <3>3. f = [e EXCEPT !.source = "table_header", !.category =
                 Class(e.kind)[HeaderOf(doc.parsed[x.page], x.column)]]
      BY <1>2, <1>10, <3>2 DEF WithHeader
    <3>4. x.page = e.page /\ x.column = k /\ doc.parsed[e.page] = page
      BY <1>3, <2>4, <3>1 DEF Same
    <3>5. f.category = Class(e.kind)[page.heads[j].label]
      BY <1>7, <3>3, <3>4 DEF IsEntity
    <3> HIDE DEF f
    <3>6. {f.category} =
             {Class(f.kind)[doc.pages[f.page].heads[i].label] : i \in Above(f)}
      BY <1>1, <1>3, <1>8, <3>5
    <3> QED
      BY <3>6 DEF Decided
  <2> QED
    BY <2>2, <2>4
<1>11. CASE Cardinality(Matches(e)) # 1
  <2>1. f = e
    BY <1>11 DEF WithHeader
  <2>2. CASE Merged(page)
    <3>1. Decided(e)
      BY <1>3, <1>11, <2>2 DEF Decided
    <3> QED
      BY <2>1, <3>1
  <2>3. CASE ~Merged(page)
    <3>1. {e.category} =
             {Class(e.kind)[doc.pages[e.page].heads[i].label] : i \in Above(e)}
      BY <1>2, <1>3, <2>3, BarsDecide
    <3>2. Decided(e)
      BY <3>1 DEF Decided
    <3> QED
      BY <2>1, <3>2
  <2> QED
    BY <2>2, <2>3
<1> QED
  BY <1>10, <1>11

(* The step of the boxes leaves the decision alone.                        *)
LEMMA BoxDecidesNothing ==
    ASSUME NEW e, IsEntity(e), Decided(e)
    PROVE  Decided(WithBox(e))
<1> DEFINE f == WithBox(e)
<1>1. /\ f.kind = e.kind /\ f.page = e.page /\ f.category = e.category
      /\ Matches(f) = Matches(e) /\ (InCell(f) <=> InCell(e)) /\ Above(f) = Above(e)
  BY WithBoxKeeps, SameStays DEF SameValue
<1> HIDE DEF f
<1>2. Decided(f)
  BY <1>1 DEF Decided
<1> QED
  BY <1>2 DEF f

-----------------------------------------------------------------------------
(* The amounts of a page, read and after the repetitions are gone.         *)
LEMMA PageAmounts ==
    ASSUME NEW page \in PageShape, NEW p
    PROVE  AmountsRead(ExtractAmounts(page, p), PageText(page))
<1> DEFINE text == PageText(page)
           ents == ExtractAmounts(page, p)
<1>1. text \in Seq(TextWords) /\ Len(text) \in Nat
  BY TextType
<1>2. ASSUME NEW m \in Captured(text)
      PROVE  \E e \in ents : e.at = m.at /\ e.raw = Raw(text, m) /\ e.value = m.value
  <2> DEFINE e == Entity("amounts", p, m.at, Raw(text, m), m.value,
                         Categorize(page, m.from, m.to, AmountClass))
  <2>1. e \in ents
    BY DEF ExtractAmounts
  <2>2. e.at = m.at /\ e.raw = Raw(text, m) /\ e.value = m.value
    BY DEF Entity
  <2> QED
    BY <2>1, <2>2
<1>3. ASSUME NEW e \in ents
      PROVE  \E m \in Captured(text) :
                /\ e = Entity("amounts", p, m.at, Raw(text, m), m.value,
                              Categorize(page, m.from, m.to, AmountClass))
                /\ e.at = m.at /\ e.raw = Raw(text, m) /\ e.value = m.value
  <2>1. PICK m \in Captured(text) :
           e = Entity("amounts", p, m.at, Raw(text, m), m.value,
                      Categorize(page, m.from, m.to, AmountClass))
    BY DEF ExtractAmounts
  <2>2. e.at = m.at /\ e.raw = Raw(text, m) /\ e.value = m.value
    BY <2>1 DEF Entity
  <2> QED
    BY <2>1, <2>2
<1> HIDE DEF text, ents
<1>4. ASSUME NEW e \in ents, NEW f \in ents, e.at = f.at PROVE e = f
  <2>1. PICK m \in Captured(text) :
           /\ e = Entity("amounts", p, m.at, Raw(text, m), m.value,
                         Categorize(page, m.from, m.to, AmountClass))
           /\ e.at = m.at
    BY <1>3
  <2>2. PICK n \in Captured(text) :
           /\ f = Entity("amounts", p, n.at, Raw(text, n), n.value,
                         Categorize(page, n.from, n.to, AmountClass))
           /\ f.at = n.at
    BY <1>3
  <2>3. m.at \in m.from..m.to /\ n.at \in n.from..n.to /\ m.from \in Nat
        /\ m.to \in Nat /\ n.from \in Nat /\ n.to \in Nat
    BY <1>1, MatchIsQuoted
  <2>4. Overlaps(m, n)
    BY <1>4, <2>1, <2>2, <2>3 DEF Overlaps
  <2>5. m = n
    BY <1>1, <2>4, NothingIsReadTwice
  <2> QED
    BY <2>1, <2>2, <2>5
<1>5. AmountsRead(ents, text)
  BY <1>2, <1>3, <1>4 DEF AmountsRead, OnePerPlace, Captures, Complete
<1> QED
  BY <1>5 DEF text, ents

AmountsOf(ents, p) == {e \in ents : e.kind = "amounts" /\ e.page = p}

(* The first of equal texts is kept, and it has their value.               *)
LEMMA DedupeKeepsValues ==
    ASSUME NEW all, NEW p, NEW text \in Seq(TextWords),
           AmountsRead(AmountsOf(all, p), text)
    PROVE  AmountsRead(AmountsOf(FirstOnly(all), p), text)
<1> DEFINE ents == AmountsOf(all, p)
           kept == AmountsOf(FirstOnly(all), p)
<1>0. /\ ents = {e \in all : e.kind = "amounts" /\ e.page = p}
      /\ kept = {e \in FirstOnly(all) : e.kind = "amounts" /\ e.page = p}
      /\ AmountsRead(ents, text)
  BY DEF AmountsOf
<1> HIDE DEF ents, kept
<1>1. kept \subseteq ents
  BY <1>0 DEF FirstOnly
<1>2. \A e, f \in ents : e.at = f.at => e = f
  BY <1>0 DEF AmountsRead, OnePerPlace
<1>3. \A e \in ents : \E m \in Captured(text) :
         e.at = m.at /\ e.raw = Raw(text, m) /\ e.value = m.value
  BY <1>0 DEF AmountsRead, Captures
<1>4. \A e \in ents : e.at \in Nat /\ e.value = ValueOf(e.raw)
  <2> TAKE e \in ents
  <2>1. PICK m \in Captured(text) :
           e.at = m.at /\ e.raw = Raw(text, m) /\ e.value = m.value
    BY <1>3
  <2>2. m.at \in m.from..m.to /\ m.from \in Nat /\ m.to \in Nat
    BY MatchIsQuoted
  <2>3. m.value = ValueOf(Raw(text, m))
    BY RawDecides
  <2>4. m.at \in Nat
    BY <2>2
  <2> QED
    BY <2>1, <2>3, <2>4
<1>5. ASSUME NEW m \in Captured(text) PROVE \E e \in kept : e.value = m.value
  <2>1. PICK f \in ents : f.value = m.value
    BY <1>0 DEF AmountsRead, Complete
  <2> DEFINE Equal == {e \in ents : e.raw = f.raw}
             Places == {e.at : e \in Equal}
  <2>2. f \in Equal /\ f.at \in Places /\ Places \in SUBSET Nat
    BY <1>4
  <2>3. PICK i \in Places : \A j \in Places : i <= j
    BY <2>2, FirstPosition
  <2>4. PICK e \in Equal : e.at = i
    OBVIOUS
  <2>5. e \in all /\ e.kind = "amounts" /\ e.page = p /\ e.raw = f.raw
    BY <1>0
  <2>6. ASSUME NEW g \in all, <<g.kind, g.raw, g.page>> = <<e.kind, e.raw, e.page>>
        PROVE  e.at <= g.at
    <3>1. g \in Equal
      BY <1>0, <2>5, <2>6
    <3>2. g.at \in Places
      BY <3>1
    <3> QED
      BY <2>3, <2>4, <3>2
  <2>7. e \in kept
    BY <1>0, <2>5, <2>6 DEF FirstOnly
  <2>8. e.value = f.value
    BY <1>4, <2>5
  <2> QED
    BY <2>1, <2>7, <2>8
<1>6. AmountsRead(kept, text)
  BY <1>1, <1>2, <1>3, <1>5 DEF AmountsRead, OnePerPlace, Captures, Complete
<1> QED
  BY <1>6 DEF kept

(* Of the values of a page the amounts are those of the patterns.          *)
LEMMA ExtractedAmounts ==
    ASSUME NEW page \in PageShape, NEW p
    PROVE  /\ AmountsOf(Extracted(page, p), p) = ExtractAmounts(page, p)
           /\ \A q : q # p => AmountsOf(Extracted(page, p), q) = {}
<1>1. \A e \in Extracted(page, p) : e.page = p
  BY ExtractedFresh DEF Fresh
<1>2. \A e \in ExtractAmounts(page, p) : e.kind = "amounts"
  BY DEF ExtractAmounts, Entity
<1>3. \A e \in Extracted(page, p) : e.kind = "amounts" => e \in ExtractAmounts(page, p)
  BY DEF Extracted, ExtractDates, ExtractPercentages, ExtractPolicyNumbers,
         ExtractReferences, Entity
<1>4. ExtractAmounts(page, p) \subseteq Extracted(page, p)
  BY DEF Extracted
<1> QED
  BY <1>1, <1>2, <1>3, <1>4 DEF AmountsOf

(* Steps that change an entity and keep its value keep what was read.      *)
LEMMA SameAmounts ==
    ASSUME NEW ents, NEW new, NEW p, NEW text, NEW w,
           new = {w[e] : e \in ents}, \A e \in ents : SameValue(w[e], e),
           AmountsRead(AmountsOf(ents, p), text)
    PROVE  AmountsRead(AmountsOf(new, p), text)
<1>1. ASSUME NEW f \in AmountsOf(new, p)
      PROVE  \E e \in AmountsOf(ents, p) : f = w[e] /\ SameValue(f, e)
  <2>1. PICK e \in ents : f = w[e]
    BY DEF AmountsOf
  <2> QED
    BY <2>1 DEF AmountsOf, SameValue
<1>2. ASSUME NEW e \in AmountsOf(ents, p)
      PROVE  \E f \in AmountsOf(new, p) : SameValue(f, e)
  <2>1. e \in ents /\ w[e] \in new /\ SameValue(w[e], e)
    BY DEF AmountsOf
  <2> QED
    BY <2>1 DEF AmountsOf, SameValue
<1>3. OnePerPlace(AmountsOf(new, p))
  <2> SUFFICES ASSUME NEW e \in AmountsOf(new, p), NEW f \in AmountsOf(new, p),
                      e.at = f.at
               PROVE  e = f
    BY DEF OnePerPlace
  <2>1. PICK g \in AmountsOf(ents, p) : e = w[g] /\ SameValue(e, g)
    BY <1>1
  <2>2. PICK h \in AmountsOf(ents, p) : f = w[h] /\ SameValue(f, h)
    BY <1>1
  <2>3. g.at = h.at
    BY <2>1, <2>2 DEF SameValue
  <2>4. g = h
    BY <2>3 DEF AmountsRead, OnePerPlace
  <2> QED
    BY <2>1, <2>2, <2>4
<1>4. Captures(AmountsOf(new, p), text)
  <2> SUFFICES ASSUME NEW f \in AmountsOf(new, p)
               PROVE  \E m \in Captured(text) :
                         f.at = m.at /\ f.raw = Raw(text, m) /\ f.value = m.value
    BY DEF Captures
  <2>1. PICK e \in AmountsOf(ents, p) : SameValue(f, e)
    BY <1>1
  <2>2. PICK m \in Captured(text) :
           e.at = m.at /\ e.raw = Raw(text, m) /\ e.value = m.value
    BY DEF AmountsRead, Captures
  <2> QED
    BY <2>1, <2>2 DEF SameValue
<1>5. Complete(AmountsOf(new, p), text)
  <2> SUFFICES ASSUME NEW m \in Captured(text)
               PROVE  \E f \in AmountsOf(new, p) : f.value = m.value
    BY DEF Complete
  <2>1. PICK e \in AmountsOf(ents, p) : e.value = m.value
    BY DEF AmountsRead, Complete
  <2>2. PICK f \in AmountsOf(new, p) : SameValue(f, e)
    BY <1>2
  <2> QED
    BY <2>1, <2>2 DEF SameValue
<1> QED
  BY <1>3, <1>4, <1>5 DEF AmountsRead

-----------------------------------------------------------------------------
(* THE INVARIANT.                                                          *)
LEMMA InitValues == Init => ValuesInv
<1> SUFFICES ASSUME Init PROVE ValuesInv
  OBVIOUS
<1>1. doc \in Documents /\ next = 1 /\ phase = "scan" /\ found = {}
  BY DEF Init
<1>2. Len(doc.pages) \in Nat
  BY <1>1, PageIsShaped
<1>3. 1..next - 1 = {}
  BY <1>1
<1> QED
  BY <1>1, <1>2, <1>3 DEF ValuesInv, ScanInv, KnownInv, CategoryInv, AmountsInv

(* The pages read so far are pages of the document.                        *)
LEMMA PagesRead ==
    ASSUME ScanInv
    PROVE  /\ doc.pages \in Seq(PageShape) /\ Len(doc.pages) \in Nat
           /\ \A p \in 1..next - 1 : p \in DOMAIN doc.pages /\ p \in Nat
           /\ next \in Nat
<1>1. doc.pages \in Seq(PageShape)
  BY PageIsShaped DEF ScanInv
<1>2. DOMAIN doc.pages = 1..Len(doc.pages) /\ Len(doc.pages) \in Nat
  BY <1>1
<1> QED
  BY <1>1, <1>2 DEF ScanInv

(* Reading a page adds its values and leaves those of others.              *)
LEMMA ScanKeeps == ValuesInv /\ ScanPage => ValuesInv'
<1> SUFFICES ASSUME ValuesInv, ScanPage PROVE ValuesInv'
  OBVIOUS
<1>1. /\ phase = "scan" /\ next <= Len(doc.pages)
      /\ found' = found \cup Extracted(doc.pages[next], next)
      /\ next' = next + 1 /\ doc' = doc /\ phase' = phase
  BY DEF ScanPage
<1>2. ScanInv /\ KnownInv /\ CategoryInv /\ AmountsInv
  BY DEF ValuesInv
<1>3. /\ doc.pages \in Seq(PageShape) /\ Len(doc.pages) \in Nat /\ next \in Nat
      /\ next \in 1..Len(doc.pages) /\ next \in DOMAIN doc.pages /\ doc \in Documents
  BY <1>1, <1>2, PagesRead DEF ScanInv
<1>4. doc.pages[next] \in PageShape
  BY <1>3, PageIsShaped
<1>5. ScanInv'
  BY <1>1, <1>2, <1>3 DEF ScanInv
<1>6. 1..next' - 1 = (1..next - 1) \cup {next} /\ next \notin 1..next - 1
  BY <1>1, <1>3
<1>7. \A e \in Extracted(doc.pages[next], next) : Fresh(e, doc.pages[next], next)
  BY <1>4, ExtractedFresh
<1>8. ASSUME NEW e \in found' PROVE Known(e)' /\ AsRead(e, doc.pages[e.page])'
  <2>1. CASE e \in found
    <3>1. Known(e) /\ AsRead(e, doc.pages[e.page])
      BY <1>1, <1>2, <2>1 DEF KnownInv, CategoryInv
    <3> QED
      BY <1>1, <1>6, <3>1 DEF Known
  <2>2. CASE e \in Extracted(doc.pages[next], next)
    <3>1. Fresh(e, doc.pages[next], next)
      BY <1>7, <2>2
    <3>2. e.page = next /\ AsRead(e, doc.pages[e.page])
      BY <3>1 DEF Fresh
    <3> QED
      BY <1>1, <1>6, <3>1, <3>2 DEF Known, Fresh
  <2> QED
    BY <1>1, <2>1, <2>2
<1>9. KnownInv' /\ CategoryInv'
  BY <1>1, <1>8 DEF KnownInv, CategoryInv
<1>10. ASSUME NEW p \in 1..next' - 1
       PROVE  AmountsRead(AmountsOf(found', p), PageText(doc.pages[p]))
  <2>1. AmountsOf(found', p) =
           AmountsOf(found, p) \cup AmountsOf(Extracted(doc.pages[next], next), p)
    BY <1>1 DEF AmountsOf
  <2>2. CASE p = next
    <3>1. AmountsOf(found, p) = {}
      BY <1>2, <1>6, <2>2 DEF AmountsOf, KnownInv, Known
    <3>2. AmountsOf(found', p) = ExtractAmounts(doc.pages[next], next)
      BY <1>4, <2>1, <2>2, <3>1, ExtractedAmounts
    <3> QED
      BY <1>4, <2>2, <3>2, PageAmounts
  <2>3. CASE p \in 1..next - 1
    <3>1. AmountsOf(found', p) = AmountsOf(found, p)
      BY <1>4, <1>6, <2>1, <2>3, ExtractedAmounts
    <3>2. AmountsRead(AmountsOf(found, p), PageText(doc.pages[p]))
      BY <1>2, <2>3 DEF AmountsInv, Amounts, AmountsOf
    <3> QED
      BY <3>1, <3>2
  <2> QED
    BY <1>6, <2>2, <2>3
<1>11. AmountsInv'
  BY <1>1, <1>10 DEF AmountsInv, Amounts, AmountsOf
<1> QED
  BY <1>5, <1>9, <1>11 DEF ValuesInv

(* Repetitions go, no value goes with them.                                *)
LEMMA DedupeKeeps == ValuesInv /\ Dedupe => ValuesInv'
<1> SUFFICES ASSUME ValuesInv, Dedupe PROVE ValuesInv'
  OBVIOUS
<1>1. /\ phase = "scan" /\ found' = FirstOnly(found)
      /\ phase' = IF doc.structure = "ok" THEN "tables" ELSE "count"
      /\ next' = next /\ doc' = doc
  BY DEF Dedupe
<1>2. ScanInv /\ KnownInv /\ CategoryInv /\ AmountsInv
  BY DEF ValuesInv
<1>3. found' \subseteq found
  BY <1>1 DEF FirstOnly
<1>4. ScanInv'
  BY <1>1, <1>2 DEF ScanInv
<1>5. KnownInv'
  BY <1>1, <1>2, <1>3 DEF KnownInv, Known
<1>6. ASSUME NEW e \in found
      PROVE  /\ AsRead(e, doc.pages[e.page])
             /\ doc.structure # "ok" => Decided(e)
  <2>1. AsRead(e, doc.pages[e.page])
    BY <1>1, <1>2 DEF CategoryInv
  <2>2. e.page \in DOMAIN doc.pages /\ doc \in Documents
    BY <1>2, PagesRead DEF KnownInv, Known, ScanInv
  <2> QED
    BY <2>1, <2>2, DecidedWithoutTables
<1>7. ASSUME NEW e PROVE Decided(e)' <=> Decided(e)
  BY <1>1 DEF Decided, Above, ColumnOf, InCell, Same, Matches, TableCells, CellText
<1>8. CategoryInv'
  <2>1. CASE doc.structure = "ok"
    BY <1>1, <1>3, <1>6, <2>1 DEF CategoryInv
  <2>2. CASE doc.structure # "ok"
    BY <1>1, <1>3, <1>6, <1>7, <2>2 DEF CategoryInv
  <2> QED
    BY <2>1, <2>2
<1>9. ASSUME NEW p \in 1..next - 1
      PROVE  AmountsRead(AmountsOf(found', p), PageText(doc.pages[p]))
  <2>1. AmountsRead(AmountsOf(found, p), PageText(doc.pages[p]))
    BY <1>2 DEF AmountsInv, Amounts, AmountsOf
  <2>2. PageText(doc.pages[p]) \in Seq(TextWords)
    BY <1>2, PagesRead, PageIsShaped, TextType DEF ScanInv
  <2> QED
    BY <1>1, <2>1, <2>2, DedupeKeepsValues
<1>10. AmountsInv'
  BY <1>1, <1>9 DEF AmountsInv, Amounts, AmountsOf
<1> QED
  BY <1>4, <1>5, <1>8, <1>10 DEF ValuesInv

(* What a step that keeps the values, the pages and the reading owes.      *)
LEMMA ChangedEntities ==
    ASSUME ValuesInv, doc' = doc, next' = next, NEW w,
           found' = {w[e] : e \in found},
           \A e \in found : SameValue(w[e], e) /\ IsEntity(w[e])
    PROVE  KnownInv' /\ AmountsInv'
<1>1. ScanInv /\ KnownInv /\ AmountsInv
  BY DEF ValuesInv
<1>2. ASSUME NEW f \in found' PROVE Known(f)'
  <2>1. PICK e \in found : f = w[e]
    OBVIOUS
  <2>2. SameValue(f, e) /\ IsEntity(f)
    BY <2>1
  <2>3. f.kind = e.kind /\ f.page = e.page
    BY <2>2 DEF SameValue
  <2>4. Known(e)
    BY <1>1 DEF KnownInv
  <2> QED
    BY <2>2, <2>3, <2>4 DEF Known
<1>3. KnownInv'
  BY <1>2 DEF KnownInv
<1>4. ASSUME NEW p \in 1..next - 1
      PROVE  AmountsRead(AmountsOf(found', p), PageText(doc.pages[p]))
  <2>1. AmountsRead(AmountsOf(found, p), PageText(doc.pages[p]))
    BY <1>1 DEF AmountsInv, Amounts, AmountsOf
  <2>2. \A e \in found : SameValue(w[e], e)
    OBVIOUS
  <2> QED
    BY <2>1, <2>2, SameAmounts
<1>5. AmountsInv'
  BY <1>4 DEF AmountsInv, Amounts, AmountsOf
<1> QED
  BY <1>3, <1>5

(* The structure decides what the bars could not.                          *)
LEMMA TablesKeep == ValuesInv /\ EnrichTables => ValuesInv'
<1> SUFFICES ASSUME ValuesInv, EnrichTables PROVE ValuesInv'
  OBVIOUS
<1>1. /\ phase = "tables" /\ found' = {WithHeader(e) : e \in found}
      /\ phase' = "boxes" /\ doc' = doc /\ next' = next
  BY DEF EnrichTables
<1>2. ScanInv /\ KnownInv /\ CategoryInv /\ AmountsInv
  BY DEF ValuesInv
<1>3. ScanInv'
  BY <1>1, <1>2 DEF ScanInv
<1> DEFINE w == [e \in found |-> WithHeader(e)]
<1>4. found' = {w[e] : e \in found} /\ \A e \in found : w[e] = WithHeader(e)
  BY <1>1
<1> HIDE DEF w
<1>5. ASSUME NEW e \in found
      PROVE  SameValue(w[e], e) /\ IsEntity(w[e])
  <2>1. IsEntity(e)
    BY <1>2 DEF KnownInv, Known
  <2> QED
    BY <1>4, <2>1, WithHeaderKeeps
<1>6. KnownInv' /\ AmountsInv'
  BY <1>1, <1>4, <1>5, ChangedEntities
<1>7. ASSUME NEW f PROVE Decided(f)' <=> Decided(f)
  BY <1>1 DEF Decided, Above, ColumnOf, InCell, Same, Matches, TableCells, CellText
<1>8. CategoryInv'
  <2>1. ASSUME NEW f \in found' PROVE Decided(f)
    <3>1. PICK e \in found : f = WithHeader(e)
      BY <1>1
    <3>2. /\ IsEntity(e) /\ AsRead(e, doc.pages[e.page])
          /\ e.page \in DOMAIN doc.pages /\ doc \in Documents /\ doc.structure = "ok"
      BY <1>1, <1>2, PagesRead DEF KnownInv, Known, CategoryInv, ScanInv
    <3> QED
      BY <3>1, <3>2, DecidedByTables
  <2> QED
    BY <1>1, <1>7, <2>1 DEF CategoryInv
<1> QED
  BY <1>3, <1>6, <1>8 DEF ValuesInv

(* Boxes change nothing else.                                              *)
LEMMA BoxesKeep == ValuesInv /\ EnrichBoxes => ValuesInv'
<1> SUFFICES ASSUME ValuesInv, EnrichBoxes PROVE ValuesInv'
  OBVIOUS
<1>1. /\ phase = "boxes" /\ found' = {WithBox(e) : e \in found}
      /\ phase' = "count" /\ doc' = doc /\ next' = next
  BY DEF EnrichBoxes
<1>2. ScanInv /\ KnownInv /\ CategoryInv /\ AmountsInv
  BY DEF ValuesInv
<1>3. ScanInv'
  BY <1>1, <1>2 DEF ScanInv
<1> DEFINE w == [e \in found |-> WithBox(e)]
<1>4. found' = {w[e] : e \in found} /\ \A e \in found : w[e] = WithBox(e)
  BY <1>1
<1> HIDE DEF w
<1>5. ASSUME NEW e \in found
      PROVE  SameValue(w[e], e) /\ IsEntity(w[e])
  <2>1. IsEntity(e)
    BY <1>2 DEF KnownInv, Known
  <2> QED
    BY <1>4, <2>1, WithBoxKeeps
<1>6. KnownInv' /\ AmountsInv'
  BY <1>1, <1>4, <1>5, ChangedEntities
<1>7. ASSUME NEW f PROVE Decided(f)' <=> Decided(f)
  BY <1>1 DEF Decided, Above, ColumnOf, InCell, Same, Matches, TableCells, CellText
<1>8. CategoryInv'
  <2>1. ASSUME NEW f \in found' PROVE Decided(f)
    <3>1. PICK e \in found : f = WithBox(e)
      BY <1>1
    <3>2. IsEntity(e) /\ Decided(e)
      BY <1>1, <1>2 DEF KnownInv, Known, CategoryInv
    <3> QED
      BY <3>1, <3>2, BoxDecidesNothing
  <2> QED
    BY <1>1, <1>7, <2>1 DEF CategoryInv
<1> QED
  BY <1>3, <1>6, <1>8 DEF ValuesInv

(* Counting changes no entity.                                             *)
LEMMA CountKeeps == ValuesInv /\ (Count \/ UNCHANGED vars) => ValuesInv'
<1> SUFFICES ASSUME ValuesInv, Count \/ UNCHANGED vars PROVE ValuesInv'
  OBVIOUS
<1>1. /\ doc' = doc /\ next' = next /\ found' = found
      /\ phase' = phase \/ (phase = "count" /\ phase' = "ready")
  BY DEF Count, vars
<1>2. ScanInv /\ KnownInv /\ CategoryInv /\ AmountsInv
  BY DEF ValuesInv
<1>3. ScanInv'
  BY <1>1, <1>2 DEF ScanInv
<1>4. KnownInv'
  BY <1>1, <1>2 DEF KnownInv, Known
<1>5. AmountsInv'
  BY <1>1, <1>2 DEF AmountsInv, Amounts
<1>6. ASSUME NEW f PROVE Decided(f)' <=> Decided(f)
  BY <1>1 DEF Decided, Above, ColumnOf, InCell, Same, Matches, TableCells, CellText
<1>7. CategoryInv'
  BY <1>1, <1>2, <1>6 DEF CategoryInv
<1> QED
  BY <1>3, <1>4, <1>5, <1>7 DEF ValuesInv

(* ValuesInv holds in every state of extract_entities: until the tables     *)
(* every value quotes its page, every amount of a page is captured once and *)
(* none is lost, and a value in a cell has its category as soon as the     *)
(* tables are done.                                                        *)
THEOREM ValuesInvariance == Spec => []ValuesInv
<1>1. ValuesInv /\ [Next]_vars => ValuesInv'
  BY ScanKeeps, DedupeKeeps, TablesKeep, BoxesKeep, CountKeeps DEF Next
<1> QED
  BY <1>1, InitValues, PTL DEF Spec

-----------------------------------------------------------------------------
(* TYPES.                                                                  *)

(* A set of positions has a last one.                                      *)
LEMMA LastPosition ==
    ASSUME NEW n \in Nat, NEW S \in SUBSET (1..n), S # {}
    PROVE  \E i \in S : \A j \in S : j <= i
<1> DEFINE T == {n - i : i \in S}
<1>1. T \in SUBSET Nat /\ T # {}
  <2>1. ASSUME NEW i \in S PROVE n - i \in Nat
    <3>1. i \in 1..n
      OBVIOUS
    <3> QED
      BY <3>1
  <2> QED
    BY <2>1
<1>2. PICK k \in T : \A j \in T : k <= j
  <2> HIDE DEF T
  <2> QED
    BY <1>1, FirstPosition
<1>3. PICK i \in S : k = n - i
  OBVIOUS
<1>4. ASSUME NEW j \in S PROVE j <= i
  <2>1. k <= n - j
    BY <1>2
  <2> QED
    BY <1>3, <2>1
<1> QED
  BY <1>4

(* Both catalogues know every label, and both their classes are typed.     *)
LEMMA ClassTyped ==
    ASSUME NEW class \in {AmountClass, DateClass}
    PROVE  (\A l \in Labels : class[l] \in Classes) /\ "unbekannt" \in Classes
  BY DEF Classes

(* The header of a structure is a label or missing.                        *)
LEMMA HeaderTyped ==
    ASSUME NEW page \in PageShape, NEW column
    PROVE  HeaderOf(page, column) \in Labels \cup {"none"}
<1> DEFINE over == {k \in DOMAIN page.heads : Covers(page.heads[k], column)}
           last == CHOOSE k \in over : \A j \in over : j <= k
<1>1. page.heads \in Seq([label : Labels, column : Nat, span : Nat])
  BY DEF PageShape
<1>2. CASE over # {}
  <2>1. over \in SUBSET (1..Len(page.heads)) /\ Len(page.heads) \in Nat
    <3>1. DOMAIN page.heads = 1..Len(page.heads) /\ Len(page.heads) \in Nat
      BY PageParts
    <3> QED
      BY <3>1
  <2>2. \E k \in over : \A j \in over : j <= k
    <3> HIDE DEF over
    <3> QED
      BY <1>2, <2>1, LastPosition
  <2>3. last \in over
    <3> HIDE DEF over
    <3> QED
      BY <2>2
  <2>4. last \in 1..Len(page.heads)
    BY <2>1, <2>3
  <2>5. page.heads[last] \in [label : Labels, column : Nat, span : Nat]
    <3> HIDE DEF last
    <3> QED
      BY <1>1, <2>4, ElementOfSeq
  <2>6. page.heads[last].label \in Labels
    <3> HIDE DEF last
    <3> QED
      BY <2>5
  <2>7. HeaderOf(page, column) = page.heads[last].label
    BY <1>2 DEF HeaderOf
  <2> QED
    BY <2>6, <2>7
<1>3. CASE over = {}
  BY <1>3 DEF HeaderOf
<1> QED
  BY <1>2, <1>3

(* The header of the bars, too.                                            *)
LEMMA BarsHeaderTyped ==
    ASSUME NEW page \in PageShape, NEW i
    PROVE  MarkdownHeader(page, i) \in Labels \cup {"none"}
<1> DEFINE column == Cardinality({j \in RowStart(page) + 1..i :
                                     At(PageText(page), j) = "|"})
<1>1. page.heads \in Seq([label : Labels, column : Nat, span : Nat])
  BY DEF PageShape
<1>2. MarkdownHeader(page, i) = IF column \in DOMAIN page.heads
                                  THEN page.heads[column].label ELSE "none"
  BY DEF MarkdownHeader
<1> HIDE DEF column
<1>3. CASE column \in DOMAIN page.heads
  <2>1. column \in 1..Len(page.heads)
    BY <1>3, PageParts
  <2>2. page.heads[column] \in [label : Labels, column : Nat, span : Nat]
    BY <1>1, <2>1, ElementOfSeq
  <2> QED
    BY <1>2, <1>3, <2>2
<1> QED
  BY <1>2, <1>3

(* What _categorize and _match_by_proximity return.                        *)
IsCategory(c) == c[1] \in Classes /\ c[2] \in Sources

LEMMA ProximityTyped ==
    ASSUME NEW text, Len(text) \in Nat, NEW a \in Int, NEW b \in Int,
           NEW class \in {AmountClass, DateClass}
    PROVE  IsCategory(Proximity(text, a, b, class))
<1> DEFINE known(near) == {j \in near : class[text[j]] # "unbekannt"}
           before == known(NearBefore(text, a))
           after == known(NearAfter(text, b))
           last == CHOOSE j \in before : \A k \in before : k <= j
           first == CHOOSE j \in after : \A k \in after : k >= j
<1>1. Proximity(text, a, b, class) =
         CASE before # {} -> <<class[text[last]], "proximity">>
           [] before = {} /\ after # {} -> <<class[text[first]], "proximity">>
           [] OTHER -> <<"unbekannt", "none">>
  BY DEF Proximity
<1>2. ASSUME NEW near, NEW range \in SUBSET Int, near = LabelsIn(text, range)
      PROVE  /\ known(near) \in SUBSET (1..Len(text))
             /\ \A j \in known(near) : class[text[j]] \in Classes
  <2>1. ASSUME NEW j \in known(near)
        PROVE  j \in 1..Len(text) /\ class[text[j]] \in Classes
    <3>1. j \in Int /\ At(text, j) \in Labels
      BY <1>2 DEF LabelsIn
    <3>2. At(text, j) # "none"
      BY <3>1, LabelsAssumption
    <3>3. j \in 1..Len(text) /\ text[j] \in Labels
      BY <3>1, <3>2, AtIsInText DEF Positions
    <3> QED
      BY <3>3, ClassTyped
  <2> QED
    BY <2>1
<1>3. /\ before \in SUBSET (1..Len(text))
      /\ \A j \in before : class[text[j]] \in Classes
  <2>1. a - Radius..a - 1 \in SUBSET Int
    BY RadiusAssumption
  <2> QED
    BY <1>2, <2>1 DEF NearBefore
<1>4. /\ after \in SUBSET (1..Len(text))
      /\ \A j \in after : class[text[j]] \in Classes
  <2>1. b + 1..b + Radius \in SUBSET Int
    BY RadiusAssumption
  <2> QED
    BY <1>2, <2>1 DEF NearAfter
<1> HIDE DEF before, after
<1>5. CASE before # {}
  <2>1. \E j \in before : \A k \in before : k <= j
    BY <1>3, <1>5, LastPosition
  <2>2. last \in before
    BY <2>1
  <2>3. Proximity(text, a, b, class) = <<class[text[last]], "proximity">>
    BY <1>1, <1>5
  <2> HIDE DEF last
  <2> QED
    BY <1>3, <2>2, <2>3 DEF IsCategory, Sources
<1>6. CASE before = {} /\ after # {}
  <2>1. after \in SUBSET Nat
    BY <1>4
  <2>2. PICK j \in after : \A k \in after : j <= k
    BY <1>6, <2>1, FirstPosition
  <2>3. \A k \in after : k >= j
    BY <2>1, <2>2
  <2>4. first \in after
    BY <2>2, <2>3
  <2>5. Proximity(text, a, b, class) = <<class[text[first]], "proximity">>
    BY <1>1, <1>6
  <2> HIDE DEF first
  <2> QED
    BY <1>4, <2>4, <2>5 DEF IsCategory, Sources
<1>7. CASE before = {} /\ after = {}
  <2>1. Proximity(text, a, b, class) = <<"unbekannt", "none">>
    BY <1>1, <1>7
  <2> QED
    BY <2>1, ClassTyped DEF IsCategory, Sources
<1> QED
  BY <1>5, <1>6, <1>7

LEMMA CategorizeTyped ==
    ASSUME NEW page \in PageShape, NEW a \in Int, NEW b \in Int,
           NEW class \in {AmountClass, DateClass}
    PROVE  IsCategory(Categorize(page, a, b, class))
<1> DEFINE header == MarkdownHeader(page, a)
<1>1. header \in Labels \cup {"none"}
  BY BarsHeaderTyped
<1>2. Categorize(page, a, b, class) =
         IF header = "none" THEN Proximity(PageText(page), a, b, class)
         ELSE IF class[header] # "unbekannt"
           THEN <<class[header], "table_header_md">> ELSE <<"unbekannt", "none">>
  BY DEF Categorize
<1> HIDE DEF header
<1>3. CASE header = "none"
  <2>1. Len(PageText(page)) \in Nat
    BY TextType
  <2> QED
    BY <1>2, <1>3, <2>1, ProximityTyped
<1>4. CASE header # "none"
  <2>1. class[header] \in Classes /\ "unbekannt" \in Classes
    BY <1>1, <1>4, ClassTyped
  <2> QED
    BY <1>2, <1>4, <2>1 DEF IsCategory, Sources
<1> QED
  BY <1>3, <1>4

(* Amounts are natural numbers here: Figure has no decimals.               *)
LEMMA CapturedTyped ==
    ASSUME NEW text \in Seq(TextWords), NEW m \in Captured(text)
    PROVE  m.at \in Positions(text) /\ m.value \in Nat
<1>0. Len(text) \in Nat
  OBVIOUS
<1>1. \A x \in Numbers : Figure[x] \in Nat
  BY FiguresAssumption
<1>2. \A x \in Marks : Unit[x] \in Nat
  BY DEF Marks, Unit
<1>3. \A x, y \in Nat : x * y \in Nat
  OBVIOUS
<1>4. CASE m \in MioMatches(text)
  <2>1. m.at \in Positions(text) /\ IsNumber(text, m.at) /\ m = MioMatch(text, m.at)
    BY <1>0, <1>4, MatchShapes, OneRole
  <2>2. text[m.at] \in Numbers /\ Million \in Nat
    BY <2>1 DEF IsNumber, At, Positions, Million
  <2>3. m.value = Figure[text[m.at]] * Million
    BY <2>1 DEF MioMatch, Match
  <2> QED
    BY <1>1, <1>3, <2>1, <2>2, <2>3
<1>5. CASE m \in SuffixMatches(text)
  <2>1. /\ m.at \in Positions(text) /\ IsNumber(text, m.at)
        /\ IsMark(text, m.at + 1) /\ m = SuffixMatch(text, m.at)
    BY <1>0, <1>5, MatchShapes
  <2>2. m.at \in Int /\ text[m.at] \in Numbers
    BY <1>0, <2>1 DEF IsNumber, At, Positions
  <2>3. At(text, m.at + 1) \in Marks /\ At(text, m.at + 1) # "none"
    BY <2>1, NumbersAreWords DEF IsMark
  <2>4. text[m.at + 1] \in Marks
    BY <2>2, <2>3, AtIsInText
  <2>5. m.value = Figure[text[m.at]] * Unit[text[m.at + 1]]
    BY <2>1 DEF SuffixMatch, Match
  <2> QED
    BY <1>1, <1>2, <1>3, <2>1, <2>2, <2>4, <2>5
<1>6. CASE m \in PrefixMatches(text)
  <2>1. /\ m.at \in Positions(text) /\ Taken(text[m.at]) \in Numbers
        /\ m = PrefixMatch(text, m.at)
    BY <1>0, <1>6, MatchShapes
  <2>2. m.value = Figure[Taken(text[m.at])]
    BY <2>1 DEF PrefixMatch, Match
  <2> QED
    BY <1>1, <2>1, <2>2
<1> QED
  BY <1>4, <1>5, <1>6 DEF Captured, Spared

(* What a value of a page keeps to the end.                                *)
Typed(e, page) ==
    /\ e.at \in Positions(PageText(page))
    /\ e.value \in Nat /\ e.category \in Classes /\ e.source \in Sources

LEMMA EntityTyped ==
    ASSUME NEW page, NEW p, NEW kind, NEW at \in Positions(PageText(page)), NEW raw,
           NEW value \in Nat, NEW category, IsCategory(category)
    PROVE  Typed(Entity(kind, p, at, raw, value, category), page)
  BY DEF Typed, Entity, IsCategory

LEMMA ExtractedTyped ==
    ASSUME NEW page \in PageShape, NEW p, NEW e \in Extracted(page, p)
    PROVE  Typed(e, page)
<1> DEFINE text == PageText(page)
<1>1. text \in Seq(TextWords) /\ Positions(text) \subseteq Int
  BY TextType DEF Positions
<1>2. IsCategory(<<"unbekannt", "none">>) /\ 0 \in Nat
  BY ClassTyped DEF IsCategory, Sources
<1>3. CASE e \in ExtractAmounts(page, p)
  <2>1. PICK m \in Captured(text) :
           e = Entity("amounts", p, m.at, Raw(text, m), m.value,
                      Categorize(page, m.from, m.to, AmountClass))
    BY <1>3 DEF ExtractAmounts
  <2>2. m.at \in Positions(text) /\ m.value \in Nat
    BY <1>1, CapturedTyped
  <2>3. m.from \in Int /\ m.to \in Int
    BY <1>1, MatchIsQuoted
  <2>4. IsCategory(Categorize(page, m.from, m.to, AmountClass))
    BY <2>3, CategorizeTyped
  <2> QED
    BY <2>1, <2>2, <2>4, EntityTyped
<1>4. CASE e \in ExtractDates(page, p)
  <2>1. PICK i \in Positions(text) :
           e = Entity("dates", p, i, <<text[i]>>, 0, Categorize(page, i, i, DateClass))
    BY <1>4 DEF ExtractDates
  <2>2. IsCategory(Categorize(page, i, i, DateClass))
    BY <1>1, CategorizeTyped
  <2> QED
    BY <1>2, <2>1, <2>2, EntityTyped
<1>5. CASE e \in ExtractPercentages(page, p)
  <2>1. PICK i \in Positions(text) :
           /\ At(text, i) \in Short
           /\ e = Entity("percentages", p, i, <<text[i], "%">>, Figure[text[i]],
                         <<"unbekannt", "none">>)
    BY <1>5 DEF ExtractPercentages
  <2>2. text[i] \in Numbers
    BY <2>1, VocabularyAssumption DEF At, Positions, Numbers
  <2>3. Figure[text[i]] \in Nat
    BY <2>2, FiguresAssumption
  <2> QED
    BY <1>2, <2>1, <2>3, EntityTyped
<1>6. CASE e \in ExtractPolicyNumbers(page, p)
  <2>1. PICK i \in Positions(text) :
           e = Entity("policy_numbers", p, i, <<text[i]>>, 0, <<"unbekannt", "none">>)
    BY <1>6 DEF ExtractPolicyNumbers
  <2> QED
    BY <1>2, <2>1, EntityTyped
<1>7. CASE e \in ExtractReferences(page, p)
  <2>1. PICK i \in Positions(text) :
           e = Entity("references", p, i,
                      SubSeq(text, i, IF At(text, i + 1) = "2008" THEN i + 1 ELSE i), 0,
                      <<"unbekannt", "none">>)
    BY <1>7 DEF ExtractReferences
  <2> QED
    BY <1>2, <2>1, EntityTyped
<1> QED
  BY <1>3, <1>4, <1>5, <1>6, <1>7 DEF Extracted

(* The header of a cell of the structure has a class, too.                 *)
LEMMA WithHeaderTyped ==
    ASSUME NEW e, NEW page, doc \in Documents, IsEntity(e), Typed(e, page)
    PROVE  Typed(WithHeader(e), page)
<1>1. CASE e.kind \in {"amounts", "dates"} /\ Cardinality(Matches(e)) = 1
  <2> DEFINE cell == CHOOSE c \in Matches(e) : TRUE
             header == HeaderOf(doc.parsed[cell.page], cell.column)
  <2>1. WithHeader(e) = [e EXCEPT !.source = "table_header",
                                  !.category = Class(e.kind)[header]]
    BY <1>1 DEF WithHeader
  <2>2. Matches(e) # {}
    BY <1>1, FS_EmptySet
  <2>3. cell \in TableCells
    BY <2>2 DEF Matches
  <2> HIDE DEF cell
  <2>4. PICK p \in DOMAIN doc.parsed : \E c \in DOMAIN doc.parsed[p].cells :
           cell = [page |-> p, column |-> c] /\ HeaderOf(doc.parsed[p], c) # "none"
    BY <2>3 DEF TableCells
  <2>5. header \in Labels
    <3>1. doc.parsed[p] \in PageShape
      BY PageIsShaped
    <3> QED
      BY <2>4, <3>1, HeaderTyped
  <2>6. Class(e.kind) \in {AmountClass, DateClass}
    BY DEF Class
  <2>7. Class(e.kind)[header] \in Classes
    BY <2>5, <2>6, ClassTyped
  <2> HIDE DEF header
  <2> QED
    BY <2>1, <2>7 DEF Typed, IsEntity, Sources
<1>2. CASE ~(e.kind \in {"amounts", "dates"} /\ Cardinality(Matches(e)) = 1)
  BY <1>2 DEF WithHeader
<1> QED
  BY <1>1, <1>2

TypedInv ==
    /\ \A e \in found : Typed(e, doc.pages[e.page])
    /\ DOMAIN counts \subseteq Classes

(* TypeOK, for every document: whatever the structure says of the pages, a  *)
(* value stands in its page and has a category of a catalogue.             *)
THEOREM TypeCorrect == Spec => []TypeOK
<1>1. Init => TypedInv
  BY DEF Init, TypedInv
<1>2. ASSUME ValuesInv, TypedInv, [Next]_vars
      PROVE  TypedInv'
  <2>1. /\ doc \in Documents
        /\ \A e \in found : IsEntity(e) /\ Typed(e, doc.pages[e.page])
    BY <1>2 DEF ValuesInv, ScanInv, KnownInv, Known, TypedInv
  <2>2. CASE ScanPage
    <3>1. /\ found' = found \cup Extracted(doc.pages[next], next)
          /\ doc' = doc /\ counts' = counts /\ next <= Len(doc.pages)
      BY <2>2 DEF ScanPage
    <3>2. doc.pages[next] \in PageShape
      <4>1. next \in 1..Len(doc.pages) /\ doc.pages \in Seq(PageShape)
        BY <1>2, <3>1, PagesRead DEF ValuesInv, ScanInv
      <4> QED
        BY <4>1, ElementOfSeq
    <3>3. ASSUME NEW e \in Extracted(doc.pages[next], next)
          PROVE  Typed(e, doc.pages[e.page])
      <4>1. e.page = next
        BY <3>2, ExtractedFresh DEF Fresh
      <4> QED
        BY <3>2, <4>1, ExtractedTyped
    <3> QED
      BY <1>2, <2>1, <3>1, <3>3 DEF TypedInv
  <2>3. CASE Dedupe
    <3>1. found' \subseteq found /\ doc' = doc /\ counts' = counts
      BY <2>3 DEF Dedupe, FirstOnly
    <3> QED
      BY <1>2, <2>1, <3>1 DEF TypedInv
  <2>4. CASE EnrichTables
    <3>1. found' = {WithHeader(e) : e \in found} /\ doc' = doc /\ counts' = counts
      BY <2>4 DEF EnrichTables
    <3>2. ASSUME NEW e \in found
          PROVE  Typed(WithHeader(e), doc.pages[WithHeader(e).page])
      <4>1. WithHeader(e).page = e.page
        BY <2>1, WithHeaderKeeps DEF SameValue
      <4> QED
        BY <2>1, <4>1, WithHeaderTyped
    <3> QED
      BY <1>2, <3>1, <3>2 DEF TypedInv
  <2>5. CASE EnrichBoxes
    <3>1. found' = {WithBox(e) : e \in found} /\ doc' = doc /\ counts' = counts
      BY <2>5 DEF EnrichBoxes
    <3>2. ASSUME NEW e \in found
          PROVE  Typed(WithBox(e), doc.pages[WithBox(e).page])
      <4>1. /\ SameValue(WithBox(e), e) /\ WithBox(e).category = e.category
            /\ WithBox(e).source = e.source
        BY <2>1, WithBoxKeeps DEF WithBox, IsEntity
      <4> QED
        BY <2>1, <4>1 DEF Typed, SameValue
    <3> QED
      BY <1>2, <3>1, <3>2 DEF TypedInv
  <2>6. CASE Count
    <3>1. found' = found /\ doc' = doc /\ counts' = Tally(found)
      BY <2>6 DEF Count
    <3>2. \A e \in found : e.category \in Classes
      BY <2>1 DEF Typed
    <3>3. DOMAIN Tally(found) \subseteq Classes
      BY <3>2 DEF Tally
    <3> QED
      BY <2>1, <3>1, <3>3 DEF TypedInv
  <2>7. CASE UNCHANGED vars
    BY <1>2, <2>1, <2>7 DEF vars, TypedInv
  <2> QED
    BY <1>2, <2>2, <2>3, <2>4, <2>5, <2>6, <2>7 DEF Next
<1>3. ValuesInv /\ TypedInv => TypeOK
  <2> SUFFICES ASSUME ValuesInv, TypedInv PROVE TypeOK
    OBVIOUS
  <2>1. ScanInv /\ KnownInv
    BY DEF ValuesInv
  <2>2. \A e \in found : Known(e) /\ Typed(e, doc.pages[e.page])
    BY <2>1 DEF KnownInv, TypedInv
  <2> QED
    BY <2>1, <2>2 DEF TypeOK, ScanInv, Known, Typed, TypedInv
<1> QED
  BY <1>1, <1>2, <1>3, ValuesInvariance, PTL DEF Spec

-----------------------------------------------------------------------------
(* AmountsAreExact, for every document: no figure of a page is read twice, *)
(* every amount that was meant is kept with its value through deduplication *)
(* and both enrichments, and nothing is kept that was not meant, except at  *)
(* the places that the patterns misread.                                   *)
THEOREM AmountsAreReadExactly == Spec => []AmountsAreExact
<1>1. ValuesInv => AmountsAreExact
  <2> SUFFICES ASSUME ValuesInv, NEW p \in 1..next - 1, NEW text,
                      text = PageText(doc.pages[p])
               PROVE  /\ \A e, f \in Amounts(p) : e.at = f.at => e = f
                      /\ \A i \in Positions(text) :
                            Meant(text, i) /\ ~Misread(text, i) =>
                               Meaning(text, i) \in {e.value : e \in Amounts(p)}
                      /\ \A e \in Amounts(p) :
                            \/ Misread(text, e.at)
                            \/ Meant(text, e.at) /\ e.value = Meaning(text, e.at)
    BY DEF AmountsAreExact
  <2>1. AmountsRead(Amounts(p), text)
    BY DEF ValuesInv, AmountsInv
  <2>2. \A e, f \in Amounts(p) : e.at = f.at => e = f
    BY <2>1 DEF AmountsRead, OnePerPlace
  <2>3. Len(text) \in Nat
    <3>1. doc.pages[p] \in PageShape
      BY PagesRead, PageIsShaped DEF ValuesInv, ScanInv
    <3> QED
      BY <3>1, TextType
  <2>4. ASSUME NEW i \in Positions(text), Meant(text, i), ~Misread(text, i)
        PROVE  Meaning(text, i) \in {e.value : e \in Amounts(p)}
    <3>1. PICK m \in Captured(text) : m.value = Meaning(text, i)
      BY <2>3, <2>4, MeantIsCaptured
    <3>2. PICK e \in Amounts(p) : e.value = m.value
      BY <2>1 DEF AmountsRead, Complete
    <3> QED
      BY <3>1, <3>2
  <2>5. ASSUME NEW e \in Amounts(p), ~Misread(text, e.at)
        PROVE  Meant(text, e.at) /\ e.value = Meaning(text, e.at)
    <3>1. PICK m \in Captured(text) : e.at = m.at /\ e.value = m.value
      BY <2>1 DEF AmountsRead, Captures
    <3> QED
      BY <2>3, <2>5, <3>1, CapturedIsMeant
  <2> QED
    BY <2>2, <2>4, <2>5
<1> QED
  BY <1>1, ValuesInvariance, PTL

(* HeaderDecides, for every document whose headers tile their columns: the *)
(* bars before a value lead to the header above its cell, and so does the  *)
(* structure that has the page as it is, where it is unique.               *)
THEOREM TheHeaderDecides == Spec => []HeaderDecides
<1>1. ValuesInv => HeaderDecides
  <2> SUFFICES ASSUME ValuesInv, phase = "ready", NEW e \in found,
                      e.kind \in {"amounts", "dates"}, InCell(e)
               PROVE  LET page == doc.pages[e.page]
                          above == {k \in DOMAIN page.heads :
                                       Covers(page.heads[k], ColumnOf(e))}
                      IN \/ /\ Merged(page)
                            /\ doc.structure # "ok" \/ Cardinality(Matches(e)) # 1
                         \/ doc.structure = "ok" /\ ~Same(e.page) /\ Matches(e) # {}
                         \/ {e.category} =
                               {Class(e.kind)[page.heads[k].label] : k \in above}
    BY DEF HeaderDecides
  <2>1. Decided(e)
    BY DEF ValuesInv, CategoryInv
  <2> QED
    BY <2>1 DEF Decided, Above
<1> QED
  BY <1>1, ValuesInvariance, PTL

=============================================================================
