------------------------ MODULE ConcatenationProofs ------------------------
(***************************************************************************)
(* What Concatenated(w, n) is for every n, from its recursive definition:  *)
(* lemmas for the documents of PagePool and the texts of Entities.         *)
(***************************************************************************)
EXTENDS Concatenation, Integers, SequenceTheorems, WellFoundedInduction, TLAPS

-----------------------------------------------------------------------------
(* INDUCTION.  A property of the numbers up to n is a set of them: one that *)
(* holds zero and with each number the next one holds them all.            *)

(* A set of positions that is not empty has a first one.                   *)
LEMMA FirstPosition ==
    ASSUME NEW S \in SUBSET Nat, S # {}
    PROVE  \E i \in S : \A j \in S : i <= j
<1>1. PICK i \in S : \A j \in S : <<j, i>> \notin OpToRel(<, Nat)
  BY NatLessThanWellFounded, WFMin
<1>2. \A j \in S : ~(j < i)
  BY <1>1 DEF OpToRel
<1> QED
  BY <1>2

(* Induction up to n, stated of a set of numbers.                          *)
LEMMA Induction ==
    ASSUME NEW n \in Nat, NEW S, 0 \in S,
           \A k \in 0..n : k # n /\ k \in S => k + 1 \in S
    PROVE  0..n \subseteq S
<1> DEFINE T == {k \in 0..n : k \notin S}
<1> SUFFICES ASSUME T # {} PROVE FALSE
  OBVIOUS
<1>1. T \in SUBSET Nat
  OBVIOUS
<1>2. PICK i \in T : \A j \in T : i <= j
  <2> HIDE DEF T
  <2> QED
    BY <1>1, FirstPosition
<1>3. i # 0 /\ i - 1 \in 0..n /\ i - 1 \notin T
  BY <1>2
<1> QED
  BY <1>2, <1>3

-----------------------------------------------------------------------------
(* CONCATENATION.                                                          *)

(* What Concatenated(w, n) builds step by step.                            *)
Growing(w, n, f) ==
    f = [i \in 0..n |-> IF i = 0 THEN <<>> ELSE f[i - 1] \o w[i]]

Longer(w, n, f) ==
    [i \in 0..(n + 1) |-> IF i = 0 THEN <<>> ELSE f[i - 1] \o w[i]]

(* A concatenation is continued by one sequence.                           *)
LEMMA GrowingStep ==
    ASSUME NEW w, NEW n \in Nat, NEW f, Growing(w, n, f)
    PROVE  /\ Growing(w, n + 1, Longer(w, n, f))
           /\ Longer(w, n, f)[n] = f[n]
<1> DEFINE g == [i \in 0..(n + 1) |-> IF i = 0 THEN <<>> ELSE f[i - 1] \o w[i]]
<1>1. \A i \in 0..n : g[i] = f[i]
  BY DEF Growing
<1>2. \A i \in 0..(n + 1) :
         (IF i = 0 THEN <<>> ELSE f[i - 1] \o w[i])
           = (IF i = 0 THEN <<>> ELSE g[i - 1] \o w[i])
  <2> HIDE DEF g
  <2> QED
    BY <1>1
<1>3. Growing(w, n + 1, g)
  <2>1. g = [i \in 0..(n + 1) |-> IF i = 0 THEN <<>> ELSE g[i - 1] \o w[i]]
    BY <1>2
  <2> HIDE DEF g
  <2> QED
    BY <2>1 DEF Growing
<1>4. g = Longer(w, n, f)
  BY DEF Longer
<1> HIDE DEF g
<1>5. n \in 0..n
  OBVIOUS
<1>6. g[n] = f[n]
  BY <1>1, <1>5
<1> QED
  BY <1>3, <1>4, <1>6

(* What it holds after each of them.                                       *)
LEMMA GrowingAt ==
    ASSUME NEW w, NEW n \in Nat, NEW f, Growing(w, n, f)
    PROVE  f[0] = <<>> /\ \A i \in 0..(n - 1) : f[i + 1] = f[i] \o w[i + 1]
<1>1. f[0] = <<>>
  BY DEF Growing
<1>2. ASSUME NEW i \in 0..(n - 1)
      PROVE  f[i + 1] = f[i] \o w[i + 1]
  <2>1. i + 1 \in 0..n /\ i + 1 # 0 /\ (i + 1) - 1 = i
    OBVIOUS
  <2>2. f[i + 1] = IF i + 1 = 0 THEN <<>> ELSE f[(i + 1) - 1] \o w[i + 1]
    BY <2>1 DEF Growing
  <2> QED
    BY <2>1, <2>2
<1> QED
  BY <1>1, <1>2

(* For every number of sequences there is one,                             *)
LEMMA GrowingExists ==
    ASSUME NEW w, NEW n \in Nat
    PROVE  \E f : Growing(w, n, f)
<1> DEFINE S == {m \in 0..n : \E f : Growing(w, m, f)}
<1>1. 0 \in S
  <2> DEFINE g == [i \in 0..0 |-> <<>>]
  <2>1. \A i \in 0..0 : <<>> = IF i = 0 THEN <<>> ELSE g[i - 1] \o w[i]
    OBVIOUS
  <2>2. g = [i \in 0..0 |-> IF i = 0 THEN <<>> ELSE g[i - 1] \o w[i]]
    BY <2>1
  <2>3. 0 \in 0..n
    OBVIOUS
  <2> HIDE DEF g
  <2> QED
    BY <2>2, <2>3 DEF Growing
<1>2. ASSUME NEW m \in 0..n, m # n, m \in S
      PROVE  m + 1 \in S
  BY <1>2, GrowingStep
<1>3. n \in S
  <2> HIDE DEF S
  <2> QED
    BY <1>1, <1>2, Induction
<1> QED
  BY <1>3

(* and only one.                                                           *)
LEMMA GrowingIsUnique ==
    ASSUME NEW w, NEW n \in Nat, NEW f, NEW g,
           Growing(w, n, f), Growing(w, n, g)
    PROVE  f = g
<1> DEFINE S == {m \in 0..n : f[m] = g[m]}
<1>0. /\ f[0] = <<>> /\ \A i \in 0..(n - 1) : f[i + 1] = f[i] \o w[i + 1]
      /\ g[0] = <<>> /\ \A i \in 0..(n - 1) : g[i + 1] = g[i] \o w[i + 1]
  BY GrowingAt
<1>1. 0 \in S
  BY <1>0
<1>2. ASSUME NEW m \in 0..n, m # n, m \in S
      PROVE  m + 1 \in S
  <2>1. m \in 0..(n - 1) /\ m + 1 \in 0..n /\ f[m] = g[m]
    BY <1>2
  <2> QED
    BY <2>1, <1>0
<1>3. \A m \in 0..n : f[m] = g[m]
  <2>1. 0..n \subseteq S
    <3> HIDE DEF S
    <3> QED
      BY <1>1, <1>2, Induction
  <2> QED
    BY <2>1
<1> QED
  BY <1>3 DEF Growing

(* Concatenated computes it.                                               *)
LEMMA ConcatenatedIsGrown ==
    ASSUME NEW w, NEW n \in Nat, NEW f, Growing(w, n, f)
    PROVE  Concatenated(w, n) = f[n]
<1> DEFINE upTo == CHOOSE g : g = [i \in 0..n |->
                                     IF i = 0 THEN <<>> ELSE g[i - 1] \o w[i]]
<1>1. Growing(w, n, upTo)
  BY DEF Growing
<1>2. Concatenated(w, n) = upTo[n]
  BY DEF Concatenated
<1> HIDE DEF upTo
<1> QED
  BY <1>1, <1>2, GrowingIsUnique

(* The two clauses of the recursion.                                       *)
LEMMA ConcatenatedEmpty == ASSUME NEW w PROVE Concatenated(w, 0) = <<>>
<1>1. PICK f : Growing(w, 0, f)
  BY GrowingExists
<1> QED
  BY <1>1, ConcatenatedIsGrown, GrowingAt

(* Concatenated, one sequence further.                                     *)
LEMMA ConcatenatedNext ==
    ASSUME NEW w, NEW n \in Nat
    PROVE  Concatenated(w, n + 1) = Concatenated(w, n) \o w[n + 1]
<1>1. PICK f : Growing(w, n, f)
  BY GrowingExists
<1> DEFINE g == Longer(w, n, f)
<1>2. Growing(w, n + 1, g) /\ g[n] = f[n]
  BY <1>1, GrowingStep
<1>3. n + 1 \in Nat /\ n \in 0..((n + 1) - 1)
  OBVIOUS
<1>4. \A i \in 0..((n + 1) - 1) : g[i + 1] = g[i] \o w[i + 1]
  <2> HIDE DEF g
  <2> QED
    BY <1>2, <1>3, GrowingAt
<1>5. Concatenated(w, n) = f[n]
  BY <1>1, ConcatenatedIsGrown
<1>6. Concatenated(w, n + 1) = g[n + 1]
  <2> HIDE DEF g
  <2> QED
    BY <1>2, <1>3, ConcatenatedIsGrown
<1> HIDE DEF g
<1> QED
  BY <1>2, <1>3, <1>4, <1>5, <1>6

(* The last sequence stands at the end.                                    *)
LEMMA ConcatenatedLast ==
    ASSUME NEW w, NEW n \in Nat \ {0}
    PROVE  Concatenated(w, n) = Concatenated(w, n - 1) \o w[n]
<1>1. n - 1 \in Nat /\ (n - 1) + 1 = n
  OBVIOUS
<1> QED
  BY <1>1, ConcatenatedNext

(* Of one sequence it is that sequence.                                    *)
LEMMA ConcatenatedOne ==
    ASSUME NEW w
    PROVE  Concatenated(w, 1) = <<>> \o w[1]
<1>1. Concatenated(w, 0 + 1) = Concatenated(w, 0) \o w[0 + 1]
  BY ConcatenatedNext
<1>2. 0 + 1 = 1
  OBVIOUS
<1>3. Concatenated(w, 1) = Concatenated(w, 0) \o w[1]
  BY <1>1, <1>2, Zenon
<1> QED
  BY <1>3, ConcatenatedEmpty

(* Of sequences over S it is a sequence over S.                            *)
LEMMA ConcatenatedType ==
    ASSUME NEW S, NEW w, NEW n \in Nat, \A i \in 1..n : w[i] \in Seq(S)
    PROVE  Concatenated(w, n) \in Seq(S)
<1> DEFINE T == {m \in 0..n : Concatenated(w, m) \in Seq(S)}
<1>1. 0 \in T
  <2>1. Concatenated(w, 0) \in Seq(S)
    BY ConcatenatedEmpty, EmptySeq
  <2> QED
    BY <2>1
<1>2. ASSUME NEW m \in 0..n, m # n, m \in T
      PROVE  m + 1 \in T
  <2>1. m + 1 \in 1..n /\ m \in Nat /\ Concatenated(w, m) \in Seq(S)
    BY <1>2
  <2>2. Concatenated(w, m + 1) = Concatenated(w, m) \o w[m + 1]
    BY <2>1, ConcatenatedNext
  <2>3. Concatenated(w, m) \o w[m + 1] \in Seq(S)
    BY <2>1, ConcatProperties
  <2>4. Concatenated(w, m + 1) \in Seq(S)
    BY <2>2, <2>3
  <2> QED
    BY <2>1, <2>4
<1>3. 0..n \subseteq T
  <2> HIDE DEF T
  <2> QED
    BY <1>1, <1>2, Induction
<1> QED
  BY <1>3

(* From a place on where two sequences of sequences agree, so do their      *)
(* concatenations.                                                         *)
LEMMA ConcatenatedFrom ==
    ASSUME NEW w, NEW v, NEW n \in Nat, NEW k \in 0..n,
           Concatenated(w, k) = Concatenated(v, k),
           \A i \in k + 1..n : w[i] = v[i]
    PROVE  Concatenated(w, n) = Concatenated(v, n)
<1> DEFINE T == {m \in 0..n : m >= k => Concatenated(w, m) = Concatenated(v, m)}
<1>1. 0 \in T
  BY ConcatenatedEmpty
<1>2. ASSUME NEW m \in 0..n, m # n, m \in T
      PROVE  m + 1 \in T
  <2>1. m + 1 \in 0..n /\ m \in Nat
    BY <1>2
  <2>2. CASE m + 1 <= k
    BY <2>1, <2>2
  <2>3. CASE m >= k
    <3>1. Concatenated(w, m) = Concatenated(v, m)
      BY <1>2, <2>3
    <3>2. w[m + 1] = v[m + 1]
      BY <2>1, <2>3
    <3> QED
      BY <2>1, <3>1, <3>2, ConcatenatedNext
  <2> QED
    BY <2>1, <2>2, <2>3
<1>3. 0..n \subseteq T
  <2> HIDE DEF T
  <2> QED
    BY <1>1, <1>2, Induction
<1> QED
  BY <1>3

(* Equal sequences have equal concatenations.                              *)
LEMMA ConcatenatedSame ==
    ASSUME NEW w, NEW v, NEW n \in Nat, \A i \in 1..n : w[i] = v[i]
    PROVE  Concatenated(w, n) = Concatenated(v, n)
  BY ConcatenatedEmpty, ConcatenatedFrom

AreSequences(w, n, S) == \A i \in 1..n : w[i] \in Seq(S)

MovedAt(w, v, k, n) ==
    /\ \A i \in 1..n : i \notin {k - 1, k} => w[i] = v[i]
    /\ w[k - 1] \o w[k] = v[k - 1] \o v[k]

(* What is taken from the end of one sequence and put in front of the next  *)
(* one does not show.                                                      *)
LEMMA ConcatenatedPair ==
    ASSUME NEW S, NEW w, NEW v, NEW n, NEW k, n \in Nat, k \in 2..n,
           AreSequences(w, n, S), AreSequences(v, n, S), MovedAt(w, v, k, n)
    PROVE  Concatenated(w, n) = Concatenated(v, n)
<1> USE DEF AreSequences, MovedAt
<1>1. /\ k - 2 \in Nat /\ k - 1 \in Nat \ {0} /\ k \in Nat \ {0}
      /\ (k - 1) - 1 = k - 2 /\ k - 1 \in 1..n /\ k \in 1..n
  OBVIOUS
<1>2. PICK c \in Seq(S) : c = Concatenated(w, k - 2)
  BY <1>1, ConcatenatedType
<1>3. PICK w1 \in Seq(S), w2 \in Seq(S) : w1 = w[k - 1] /\ w2 = w[k]
  BY <1>1
<1>4. PICK v1 \in Seq(S), v2 \in Seq(S) : v1 = v[k - 1] /\ v2 = v[k]
  BY <1>1
<1>5. Concatenated(w, k) = (c \o w1) \o w2
  BY <1>1, <1>2, <1>3, ConcatenatedLast
<1>6. Concatenated(v, k) = (c \o v1) \o v2
  <2>1. Concatenated(v, k - 2) = c
    BY <1>1, <1>2, ConcatenatedSame
  <2> QED
    BY <1>1, <1>4, <2>1, ConcatenatedLast
<1>7. (c \o w1) \o w2 = c \o (w1 \o w2)
  OBVIOUS
<1>8. (c \o v1) \o v2 = c \o (v1 \o v2)
  OBVIOUS
<1>9. w1 \o w2 = v1 \o v2
  BY <1>3, <1>4
<1>10. Concatenated(w, k) = Concatenated(v, k)
  BY <1>5, <1>6, <1>7, <1>8, <1>9
<1> QED
  BY <1>10, ConcatenatedFrom

(* v is w with a in front.                                                 *)
InFront(a, w, v, n) ==
    v[1] = a \o w[1] /\ \A i \in 2..n : v[i] = w[i]

(* A sequence in front can be taken out.                                   *)
LEMMA ConcatenatedFront ==
    ASSUME NEW S, NEW w, NEW v, NEW a, NEW n, a \in Seq(S), n \in Nat \ {0},
           AreSequences(w, n, S), InFront(a, w, v, n)
    PROVE  Concatenated(v, n) = a \o Concatenated(w, n)
<1> USE DEF InFront, AreSequences
<1> DEFINE T == {m \in 0..n : m >= 1 => Concatenated(v, m) = a \o Concatenated(w, m)}
<1>1. 0 \in T
  OBVIOUS
<1>2. ASSUME NEW m \in 0..n, m # n, m \in T
      PROVE  m + 1 \in T
  <2>1. m + 1 \in 1..n /\ m + 1 \in 0..n /\ m \in Nat
    BY <1>2
  <2>2. Concatenated(v, m + 1) = Concatenated(v, m) \o v[m + 1]
    BY <2>1, ConcatenatedNext
  <2>3. CASE m = 0
    <3>1. PICK w1 \in Seq(S) : w1 = w[1]
      OBVIOUS
    <3>2. Concatenated(v, 1) = <<>> \o (a \o w1)
      BY <3>1, ConcatenatedOne
    <3>3. Concatenated(w, 1) = <<>> \o w1
      BY <3>1, ConcatenatedOne
    <3>4. <<>> \o (a \o w1) = a \o w1 /\ <<>> \o w1 = w1
      OBVIOUS
    <3> QED
      BY <2>1, <2>3, <3>2, <3>3, <3>4
  <2>4. CASE m >= 1
    <3>1. PICK c \in Seq(S) : c = Concatenated(w, m)
      BY <2>1, ConcatenatedType
    <3>2. PICK d \in Seq(S) : d = w[m + 1]
      BY <2>1
    <3>3. v[m + 1] = d
      BY <2>1, <2>4, <3>2
    <3>4. Concatenated(v, m) = a \o c
      BY <1>2, <2>4, <3>1
    <3>5. (a \o c) \o d = a \o (c \o d)
      BY ConcatAssociative
    <3>6. Concatenated(w, m + 1) = c \o d
      BY <2>1, <3>1, <3>2, ConcatenatedNext
    <3> QED
      BY <2>1, <2>2, <3>3, <3>4, <3>5, <3>6
  <2> QED
    BY <2>1, <2>3, <2>4
<1>3. 0..n \subseteq T
  <2> HIDE DEF T
  <2> QED
    BY <1>1, <1>2, Induction
<1> QED
  BY <1>3

=============================================================================
