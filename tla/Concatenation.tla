--------------------------- MODULE Concatenation ---------------------------
EXTENDS Naturals, Sequences

(* The first n sequences of w, one behind the other.                       *)
Concatenated(w, n) ==
    LET upTo[i \in 0..n] == IF i = 0 THEN <<>> ELSE upTo[i - 1] \o w[i]
    IN upTo[n]

=============================================================================
