----------------------------- MODULE MCPagePool -----------------------------
(***************************************************************************)
(* The pages of the runs: failed, a table, one line, two lines, with every *)
(* way a line can begin and end as far as the merge looks at it.           *)
(***************************************************************************)
EXTENDS PagePool

Plain(ends, starts) == Line(<<>>, ends, starts)
OneLine == {Text(<<Plain(e, s)>>, FALSE) : e, s \in BOOLEAN}
TwoLines == {Text(<<Plain(FALSE, s), Plain(e, FALSE)>>, FALSE)
                : e, s \in BOOLEAN}
Table == Text(<<Plain(FALSE, FALSE)>>, TRUE)

AllShapes == {NoText, Table} \cup OneLine \cup TwoLines
FewShapes == {NoText, Text(<<Plain(FALSE, FALSE)>>, FALSE)}
=============================================================================
