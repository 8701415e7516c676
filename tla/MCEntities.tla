---------------------------- MODULE MCEntities ----------------------------
(***************************************************************************)
(* The documents of the runs: every short prose in every mixture of        *)
(* notations, and pages with a table before another page, with a structure *)
(* that has them as they are, without page numbers, or one for the other.  *)
(***************************************************************************)
EXTENDS Entities

MCPlain == {"0", "2", "3", "9", "500", "2008"}
MCFigure == [n \in MCPlain \cup {"1.500"} |->
    CASE n = "0" -> 0 [] n = "2" -> 2 [] n = "3" -> 3 [] n = "9" -> 9
      [] n = "500" -> 500 [] n = "2008" -> 2008 [] OTHER -> 1500]
MCDates == [d \in {"01.05.2026", "31.02.2026", "99.99.2026"} |->
    CASE d = "01.05.2026" -> [day |-> 1, month |-> 5]
      [] d = "31.02.2026" -> [day |-> 31, month |-> 2]
      [] OTHER -> [day |-> 99, month |-> 99]]
MCDotted == DOMAIN MCDates \cup {"25.50"}
MCStump == [w \in MCDotted |-> SubSeq(w, 1, 1)]

MCLabels == {"SB", "VS", "Beginn", "Wert"}
MCAmountClass == [l \in MCLabels |->
    CASE l = "SB" -> "selbstbehalt" [] l = "VS" -> "summe" [] OTHER -> "unbekannt"]
MCDateClass == [l \in MCLabels |->
    IF l = "Beginn" THEN "beginn" ELSE "unbekannt"]

Money == {"500", "1.500", "25.50", "EUR", "TEUR", "Mio"}
Words == Money \cup {"SB", "VS", "%"}
MCVocabulary == Words \cup MCDotted
    \cup {"Ziffer", "Beginn", "Vertragsnummer", "AFB", "2008", "x"}

Shorter == {p \in (MCVocabulary \cup MCPlain) \X MCVocabulary :
              Len(p[1]) < Len(p[2])}
MCTails == {p \in Shorter :
              SubSeq(p[2], Len(p[2]) - Len(p[1]) + 1, Len(p[2])) = p[1]}
MCHeads == {p \in Shorter : SubSeq(p[2], 1, Len(p[1])) = p[1]}

Prose(text) == [prose |-> text, heads |-> <<>>, cells |-> <<>>]
Unparsed(pages, structure) ==
    [pages |-> pages, parsed |-> <<>>, numbered |-> {}, structure |-> structure]
Parsed(pages, parsed, numbered) ==
    [pages |-> pages, parsed |-> parsed, numbered |-> numbered, structure |-> "ok"]

LongTexts == [1..5 -> Money]
ShortTexts == UNION {[1..k -> Words] : k \in 0..4}
DateTexts == [1..3 -> DOMAIN MCDates \cup {"Ziffer", "Beginn", "EUR"}]
OtherTexts == [1..3 -> {"Vertragsnummer", "AFB", "2008", "1.500", "01.05.2026",
                        "EUR", "x"}]
Texts == LongTexts \cup ShortTexts \cup DateTexts \cup OtherTexts
ProseDocs == {Unparsed(<<Prose(t)>>, "unreadable") : t \in Texts}

Head1(label, column, span) == [label |-> label, column |-> column, span |-> span]
HeadRows ==
    {<<Head1(l, 1, 2)>> : l \in MCLabels}
      \cup {<<Head1(l, 1, 1), Head1(m, 2, 1)>> : l, m \in MCLabels}
Cells == {<<>>, <<"500", "EUR">>, <<"1.500", "EUR">>, <<"01.05.2026">>}
Before == {<<>>, <<"SB", "500", "EUR">>, <<"VS", "EUR", "500">>}
TablePages == [prose : Before, heads : HeadRows, cells : [1..2 -> Cells]]
OtherPages == {Prose(t) : t \in Before}
    \cup [prose : {<<>>}, heads : {<<Head1("VS", 1, 1), Head1("SB", 2, 1)>>},
          cells : [1..2 -> {<<"500", "EUR">>, <<"1.500", "EUR">>}]]
View(p, q, view) ==
    CASE view = "none" -> Unparsed(<<p, q>>, "none")
      [] view = "parsed" -> Parsed(<<p, q>>, <<p, q>>, {1, 2})
      [] view = "unnumbered" -> Parsed(<<p, q>>, <<p, q>>, {})
      [] view = "swapped" -> Parsed(<<p, q>>, <<q, p>>, {1, 2})
TableDocs == {View(p, q, view) : p \in TablePages, q \in OtherPages,
                view \in {"none", "parsed", "unnumbered", "swapped"}}

AllDocuments == TableDocs \cup ProseDocs
=============================================================================
