------------------------------ MODULE MCIntake ------------------------------
EXTENDS Intake

File(allowed, size) == [allowed |-> allowed, size |-> size]
Good == File(TRUE, 1)

(* Up to one file too many; with MaxBytes = 1 two good files are too much   *)
(* together, and the file of size 2 is too much alone.                      *)
MCShapes == {<<>>, <<Good>>, <<Good, Good>>, <<Good, Good, Good>>,
             <<Good, Good, Good, Good>>, <<Good, File(FALSE, 1)>>,
             <<File(TRUE, 2)>>}
=============================================================================
