---------------------------- MODULE IntakeProofs ----------------------------
(***************************************************************************)
(* Theorems about RateLimiter and Intake, for any keys, batches, uploads    *)
(* and limits: the limiter keeps its promises, alone and behind the door,   *)
(* and no row of a batch is forgotten.                                      *)
(***************************************************************************)
EXTENDS Intake, TLAPS, WellFoundedInduction

(* THE RATE LIMITER.                                                       *)

(* A non-empty set of positions has a first one, so that Evicted is defined *)
(* whenever an entry is still in the window.                                *)
LEMMA FirstPosition ==
    ASSUME NEW S \in SUBSET Nat, S # {}
    PROVE  \E i \in S : \A j \in S : i <= j
<1>1. PICK i \in S : \A j \in S : <<j, i>> \notin OpToRel(<, Nat)
  BY NatLessThanWellFounded, WFMin
<1>2. \A j \in S : ~(j < i)
  BY <1>1 DEF OpToRel
<1> QED
  BY <1>2

(* Eviction cuts a bucket at the front, and what it cuts off is older than  *)
(* the window.                                                              *)
LEMMA EvictedIsSuffix ==
    ASSUME NEW b \in Seq(Nat), now \in Nat
    PROVE  /\ Evicted(b) \in Seq(Nat)
           /\ Len(Evicted(b)) <= Len(b)
           /\ \A i \in 1..Len(Evicted(b)) :
                 Evicted(b)[i] = b[Len(b) - Len(Evicted(b)) + i]
           /\ \A i \in 1..(Len(b) - Len(Evicted(b))) : b[i] + Window < now
           /\ Evicted(b) # <<>> => Evicted(b)[1] + Window >= now
<1> USE WindowAssumption
<1>1. \A i \in 1..Len(b) : i \notin Live(b) => b[i] + Window < now
  BY DEF Live
<1>2. CASE Live(b) = {}
  <2>1. Evicted(b) = <<>>
    BY <1>2 DEF Evicted
  <2> QED
    BY <1>1, <1>2, <2>1
<1>3. CASE Live(b) # {}
  <2> DEFINE first == CHOOSE i \in Live(b) : \A j \in Live(b) : i <= j
  <2>1. Live(b) \subseteq Nat
    BY DEF Live
  <2>2. \E i \in Live(b) : \A j \in Live(b) : i <= j
    BY <1>3, <2>1, FirstPosition
  <2>3. first \in Live(b) /\ \A j \in Live(b) : first <= j
    BY <2>2
  <2>4. Evicted(b) = SubSeq(b, first, Len(b))
    BY <1>3 DEF Evicted
  <2>5. first \in 1..Len(b) /\ b[first] + Window >= now
    BY <2>3 DEF Live
  <2> HIDE DEF first
  <2>6. \A i \in 1..(first - 1) : b[i] + Window < now
    BY <1>1, <2>3, <2>5
  <2>7. /\ Evicted(b) \in Seq(Nat)
        /\ Len(Evicted(b)) = Len(b) - first + 1
        /\ \A i \in 1..Len(Evicted(b)) : Evicted(b)[i] = b[first - 1 + i]
    BY <2>4, <2>5
  <2>8. Len(b) - Len(Evicted(b)) = first - 1
    BY <2>5, <2>7
  <2>9. /\ Len(Evicted(b)) <= Len(b)
        /\ Len(Evicted(b)) >= 1
    BY <2>5, <2>7
  <2>10. Evicted(b)[1] = b[first]
    <3>1. Evicted(b)[1] = b[first - 1 + 1]
      BY <2>7, <2>9
    <3> QED
      BY <2>5, <3>1
  <2> QED
    BY <2>5, <2>6, <2>7, <2>8, <2>9, <2>10
<1> QED
  BY <1>2, <1>3

-----------------------------------------------------------------------------
(* The inductive invariant: a bucket is the end of what was let through,    *)
(* and everything before that end has left the window for good.             *)

BucketIsSuffix(k) ==
    /\ Len(buckets[k]) <= Len(granted[k])
    /\ \A i \in 1..Len(buckets[k]) :
          buckets[k][i] = granted[k][Len(granted[k]) - Len(buckets[k]) + i]

RestHasLeft(k) ==
    \A i \in 1..(Len(granted[k]) - Len(buckets[k])) :
       granted[k][i] + Window < now

Bound(k) ==
    \A i \in 1..(Len(granted[k]) - Limit) :
       granted[k][i + Limit] - granted[k][i] > Window

(* A remainder that was promised is room in the bucket.                     *)
RoomIsLeft(k) ==
    reply[k].ok /\ reply[k].remaining > 0 => Len(buckets[k]) < Limit

IInv ==
    /\ TypeOK
    /\ \A k \in Keys :
          BucketIsSuffix(k) /\ RestHasLeft(k) /\ Bound(k) /\ RoomIsLeft(k)

LEMMA InitIInv == Init => IInv
<1> SUFFICES ASSUME Init PROVE IInv
  OBVIOUS
<1> USE LimitAssumption
<1>1. TypeOK
  BY DEF Init, TypeOK, NoReply
<1>2. \A k \in Keys :
         BucketIsSuffix(k) /\ RestHasLeft(k) /\ Bound(k) /\ RoomIsLeft(k)
  <2> TAKE k \in Keys
  <2>1. /\ buckets[k] = <<>>
        /\ granted[k] = <<>>
        /\ reply[k].remaining = 0
    BY DEF Init, NoReply
  <2> QED
    BY <2>1 DEF BucketIsSuffix, RestHasLeft, Bound, RoomIsLeft
<1> QED
  BY <1>1, <1>2 DEF IInv

(* The reset time of a bucket that is not empty.                            *)
LEMMA ResetType ==
    ASSUME NEW b \in Seq(Nat), Len(b) > 0
    PROVE  ResetAt(b) \in Nat
<1>1. b[1] + Window \in Nat /\ Second \in Nat \ {0}
  BY WindowAssumption, SecondAssumption
<1>2. \A m \in Nat, n \in Nat \ {0} : m \div n \in Nat
  BY SMT
<1> QED
  BY <1>1, <1>2 DEF ResetAt

-----------------------------------------------------------------------------
(* One lemma for each action.  e is the bucket after the eviction.          *)

LEMMA TickStep == ASSUME IInv, Tick PROVE IInv'
<1>1. now \in Nat /\ now' = now + 1
  BY DEF IInv, TypeOK, Tick
<1>2. TypeOK'
  BY <1>1 DEF IInv, TypeOK, Tick
<1>3. \A k \in Keys :
         BucketIsSuffix(k)' /\ RestHasLeft(k)' /\ Bound(k)' /\ RoomIsLeft(k)'
  <2> TAKE k \in Keys
  <2>1. BucketIsSuffix(k)' /\ Bound(k)' /\ RoomIsLeft(k)'
    BY DEF IInv, Tick, BucketIsSuffix, Bound, RoomIsLeft
  <2>2. granted[k] \in Seq(Nat) /\ buckets[k] \in Seq(Nat)
    BY DEF IInv, TypeOK
  <2>3. RestHasLeft(k)'
    <3>0. Len(granted[k]) \in Nat /\ Len(buckets[k]) \in Nat
      BY <2>2
    <3>1. \A i \in 1..(Len(granted[k]) - Len(buckets[k])) :
             i \in 1..Len(granted[k]) /\ granted[k][i] \in Nat
      BY <2>2, <3>0
    <3>2. \A i \in 1..(Len(granted[k]) - Len(buckets[k])) :
             granted[k][i] + Window < now
      BY DEF IInv, RestHasLeft
    <3>3. \A i \in 1..(Len(granted[k]) - Len(buckets[k])) :
             granted[k][i] + Window < now + 1
      BY <1>1, <3>1, <3>2, WindowAssumption
    <3> QED
      BY <1>1, <3>3 DEF RestHasLeft, Tick
  <2> QED
    BY <2>1, <2>3
<1> QED
  BY <1>2, <1>3 DEF IInv

(* What both outcomes of a request start from.                              *)
LEMMA AfterEviction ==
    ASSUME IInv, NEW k \in Keys, NEW e, e = Evicted(buckets[k])
    PROVE  /\ e \in Seq(Nat)
           /\ Len(e) <= Len(buckets[k])
           /\ Len(e) <= Len(granted[k])
           /\ \A i \in 1..Len(e) : e[i] = granted[k][Len(granted[k]) - Len(e) + i]
           /\ \A i \in 1..(Len(granted[k]) - Len(e)) : granted[k][i] + Window < now
           /\ e # <<>> => e[1] + Window >= now
<1> DEFINE b == buckets[k]
           g == granted[k]
<1>1. now \in Nat /\ b \in Seq(Nat) /\ g \in Seq(Nat)
  BY DEF IInv, TypeOK
<1>2. /\ Len(b) <= Len(g)
      /\ \A i \in 1..Len(b) : b[i] = g[Len(g) - Len(b) + i]
      /\ \A i \in 1..(Len(g) - Len(b)) : g[i] + Window < now
  BY DEF IInv, BucketIsSuffix, RestHasLeft
<1>3. /\ e \in Seq(Nat)
      /\ Len(e) <= Len(b)
      /\ \A i \in 1..Len(e) : e[i] = b[Len(b) - Len(e) + i]
      /\ \A i \in 1..(Len(b) - Len(e)) : b[i] + Window < now
      /\ e # <<>> => e[1] + Window >= now
  BY <1>1, EvictedIsSuffix
<1> HIDE DEF b, g
<1>4. /\ Len(e) \in Nat /\ Len(b) \in Nat /\ Len(g) \in Nat
      /\ Len(e) <= Len(g)
  BY <1>1, <1>2, <1>3
<1>5. \A i \in 1..Len(e) : e[i] = g[Len(g) - Len(e) + i]
  <2> TAKE i \in 1..Len(e)
  <2>1. PICK j \in 1..Len(b) : j = Len(b) - Len(e) + i
    BY <1>3, <1>4
  <2>2. e[i] = b[j] /\ b[j] = g[Len(g) - Len(b) + j]
    BY <1>2, <1>3, <2>1
  <2>3. Len(g) - Len(b) + j = Len(g) - Len(e) + i
    BY <1>4, <2>1
  <2> QED
    BY <2>2, <2>3
<1>6. \A i \in 1..(Len(g) - Len(e)) : g[i] + Window < now
  <2> TAKE i \in 1..(Len(g) - Len(e))
  <2>1. CASE i <= Len(g) - Len(b)
    BY <1>2, <1>4, <2>1
  <2>2. CASE i > Len(g) - Len(b)
    <3>0. i - (Len(g) - Len(b)) \in 1..(Len(b) - Len(e))
      BY <1>4, <2>2
    <3>1. PICK j \in 1..(Len(b) - Len(e)) : j = i - (Len(g) - Len(b))
      BY <3>0
    <3>2. b[j] = g[Len(g) - Len(b) + j] /\ Len(g) - Len(b) + j = i
      BY <1>2, <1>4, <3>1
    <3> QED
      BY <1>3, <3>1, <3>2
  <2> QED
    BY <1>4, <2>1, <2>2
<1> QED
  BY <1>3, <1>4, <1>5, <1>6 DEF b, g

LEMMA RefuseStep == ASSUME IInv, NEW k \in Keys, Refuse(k) PROVE IInv'
<1> USE LimitAssumption
<1>1. PICK e : e = Evicted(buckets[k])
  OBVIOUS
<1>2. /\ e \in Seq(Nat)
      /\ Len(e) <= Len(buckets[k])
      /\ Len(e) <= Len(granted[k])
      /\ \A i \in 1..Len(e) : e[i] = granted[k][Len(granted[k]) - Len(e) + i]
      /\ \A i \in 1..(Len(granted[k]) - Len(e)) : granted[k][i] + Window < now
  BY <1>1, AfterEviction
<1>3. /\ Len(e) >= Limit
      /\ buckets' = [buckets EXCEPT ![k] = e]
      /\ reply' = [reply EXCEPT ![k] = [ok |-> FALSE, at |-> now,
                                        remaining |-> 0, reset |-> ResetAt(e)]]
      /\ UNCHANGED <<now, granted>>
  BY <1>1 DEF Refuse
<1>4. TypeOK /\ buckets[k] \in Seq(Nat) /\ Len(buckets[k]) <= Limit
  BY DEF IInv, TypeOK
<1>5. ResetAt(e) \in Nat
  BY <1>2, <1>3, ResetType
<1>6. TypeOK'
  <2>1. buckets' \in [Keys -> Seq(Nat)] /\ \A h \in Keys : Len(buckets'[h]) <= Limit
    <3>1. Len(e) <= Limit
      BY <1>2, <1>4
    <3>2. buckets' \in [Keys -> Seq(Nat)]
      BY <1>2, <1>3, <1>4 DEF TypeOK
    <3>3. \A h \in Keys : buckets'[h] = IF h = k THEN e ELSE buckets[h]
      BY <1>3, <1>4 DEF TypeOK
    <3> QED
      BY <1>4, <3>1, <3>2, <3>3 DEF TypeOK
  <2>2. [ok |-> FALSE, at |-> now, remaining |-> 0, reset |-> ResetAt(e)]
          \in [ok : BOOLEAN, at : Nat, remaining : 0..Limit, reset : Nat]
    BY <1>4, <1>5 DEF TypeOK
  <2> QED
    BY <1>3, <1>4, <2>1, <2>2 DEF TypeOK
<1>7. ASSUME NEW h \in Keys
      PROVE  BucketIsSuffix(h)' /\ RestHasLeft(h)' /\ Bound(h)' /\ RoomIsLeft(h)'
  <2>1. BucketIsSuffix(h) /\ RestHasLeft(h) /\ Bound(h) /\ RoomIsLeft(h)
    BY DEF IInv
  <2>2. CASE h = k
    <3>1. buckets'[h] = e /\ ~reply'[h].ok
      BY <1>3, <1>4, <2>2 DEF TypeOK
    <3> QED
      BY <1>2, <1>3, <2>1, <2>2, <3>1
         DEF BucketIsSuffix, RestHasLeft, Bound, RoomIsLeft
  <2>3. CASE h # k
    <3>1. buckets'[h] = buckets[h] /\ reply'[h] = reply[h]
      BY <1>3, <1>4, <2>3 DEF TypeOK
    <3> QED
      BY <1>3, <2>1, <3>1 DEF BucketIsSuffix, RestHasLeft, Bound, RoomIsLeft
  <2> QED
    BY <2>2, <2>3
<1> QED
  BY <1>6, <1>7 DEF IInv

LEMMA GrantStep == ASSUME IInv, NEW k \in Keys, Grant(k) PROVE IInv'
<1> USE LimitAssumption
<1>1. PICK e : e = Evicted(buckets[k])
  OBVIOUS
<1>2. /\ e \in Seq(Nat)
      /\ Len(e) <= Len(buckets[k])
      /\ Len(e) <= Len(granted[k])
      /\ \A i \in 1..Len(e) : e[i] = granted[k][Len(granted[k]) - Len(e) + i]
      /\ \A i \in 1..(Len(granted[k]) - Len(e)) : granted[k][i] + Window < now
  BY <1>1, AfterEviction
<1>3. PICK b : b = Append(e, now)
  OBVIOUS
<1>4. PICK g : g = granted[k]
  OBVIOUS
<1>5. /\ Len(e) < Limit
      /\ buckets' = [buckets EXCEPT ![k] = b]
      /\ reply' = [reply EXCEPT ![k] = [ok |-> TRUE, at |-> now,
                                        remaining |-> Limit - Len(b),
                                        reset |-> ResetAt(b)]]
      /\ granted' = [granted EXCEPT ![k] = Append(g, now)]
      /\ now' = now
  BY <1>1, <1>3, <1>4 DEF Grant
<1>6. TypeOK /\ now \in Nat /\ g \in Seq(Nat)
  BY <1>4 DEF IInv, TypeOK
<1>7. /\ b \in Seq(Nat)
      /\ Len(b) = Len(e) + 1
      /\ \A i \in 1..Len(e) : b[i] = e[i]
      /\ b[Len(e) + 1] = now
      /\ Len(b) \in 1..Limit
  BY <1>2, <1>3, <1>5, <1>6
<1>8. /\ Append(g, now) \in Seq(Nat)
      /\ Len(Append(g, now)) = Len(g) + 1
      /\ \A i \in 1..Len(g) : Append(g, now)[i] = g[i]
      /\ Append(g, now)[Len(g) + 1] = now
  BY <1>6
<1>9. TypeOK'
  <2>1. buckets' \in [Keys -> Seq(Nat)] /\ \A h \in Keys : Len(buckets'[h]) <= Limit
    <3>1. buckets' \in [Keys -> Seq(Nat)]
      BY <1>5, <1>6, <1>7 DEF TypeOK
    <3>2. \A h \in Keys : buckets'[h] = IF h = k THEN b ELSE buckets[h]
      BY <1>5, <1>6 DEF TypeOK
    <3>3. Len(b) <= Limit /\ \A h \in Keys : Len(buckets[h]) <= Limit
      BY <1>6, <1>7 DEF TypeOK
    <3> QED
      BY <3>1, <3>2, <3>3
  <2>2. ResetAt(b) \in Nat
    BY <1>7, ResetType
  <2>3. [ok |-> TRUE, at |-> now, remaining |-> Limit - Len(b), reset |-> ResetAt(b)]
          \in [ok : BOOLEAN, at : Nat, remaining : 0..Limit, reset : Nat]
    BY <1>6, <1>7, <2>2
  <2>4. granted' \in [Keys -> Seq(Nat)]
    BY <1>5, <1>6, <1>8 DEF TypeOK
  <2> QED
    BY <1>5, <1>6, <2>1, <2>3, <2>4 DEF TypeOK
<1>10. ASSUME NEW h \in Keys
       PROVE  BucketIsSuffix(h)' /\ RestHasLeft(h)' /\ Bound(h)' /\ RoomIsLeft(h)'
  <2>1. BucketIsSuffix(h) /\ RestHasLeft(h) /\ Bound(h) /\ RoomIsLeft(h)
    BY DEF IInv
  <2>2. CASE h = k
    <3> DEFINE gg == Append(g, now)
    <3>1. /\ buckets'[h] = b
          /\ granted'[h] = gg
          /\ reply'[h].remaining = Limit - Len(b)
      BY <1>5, <1>6, <2>2 DEF TypeOK
    <3>2. Len(e) \in Nat /\ Len(g) \in Nat /\ Len(e) <= Len(g)
      BY <1>2, <1>4, <1>6
    <3>3. /\ \A i \in 1..Len(e) : e[i] = g[Len(g) - Len(e) + i]
          /\ \A i \in 1..(Len(g) - Len(e)) : g[i] + Window < now
          /\ \A i \in 1..(Len(g) - Limit) : g[i + Limit] - g[i] > Window
      BY <1>2, <1>4, <2>1, <2>2 DEF Bound
    <3>4. /\ Len(gg) = Len(g) + 1
          /\ \A i \in 1..Len(g) : gg[i] = g[i]
          /\ gg[Len(g) + 1] = now
      BY <1>8
    <3> HIDE DEF gg
    <3>5. \A i \in 1..Len(b) : b[i] = gg[Len(gg) - Len(b) + i]
      <4> TAKE i \in 1..Len(b)
      <4>1. Len(gg) - Len(b) + i = Len(g) - Len(e) + i
        BY <1>7, <3>2, <3>4
      <4>2. CASE i \in 1..Len(e)
        <5>1. Len(g) - Len(e) + i \in 1..Len(g)
          BY <3>2, <4>2
        <5> QED
          BY <1>7, <3>3, <3>4, <4>1, <4>2, <5>1
      <4>3. CASE i = Len(e) + 1
        <5>1. Len(g) - Len(e) + i = Len(g) + 1
          BY <3>2, <4>3
        <5> QED
          BY <1>7, <3>4, <4>1, <4>3, <5>1
      <4> QED
        BY <1>7, <3>2, <4>2, <4>3
    <3>6. \A i \in 1..(Len(gg) - Len(b)) : gg[i] + Window < now
      <4> TAKE i \in 1..(Len(gg) - Len(b))
      <4>1. i \in 1..(Len(g) - Len(e)) /\ i \in 1..Len(g)
        BY <1>7, <3>2, <3>4
      <4> QED
        BY <3>3, <3>4, <4>1
    <3>7. \A i \in 1..(Len(gg) - Limit) : gg[i + Limit] - gg[i] > Window
      <4> TAKE i \in 1..(Len(gg) - Limit)
      <4>1. CASE i + Limit <= Len(g)
        <5>1. i \in 1..(Len(g) - Limit) /\ i + Limit \in 1..Len(g) /\ i \in 1..Len(g)
          BY <3>2, <3>4, <4>1
        <5> QED
          BY <3>3, <3>4, <5>1
      <4>2. CASE i + Limit = Len(g) + 1
        <5>1. i \in 1..(Len(g) - Len(e)) /\ i \in 1..Len(g)
          BY <1>5, <3>2, <3>4, <4>2
        <5>2. gg[i + Limit] = now /\ gg[i] = g[i] /\ g[i] + Window < now
          BY <3>3, <3>4, <4>2, <5>1
        <5>3. g[i] \in Nat
          BY <1>6, <5>1
        <5> QED
          BY <1>6, <5>2, <5>3, WindowAssumption
      <4> QED
        BY <3>2, <3>4, <4>1, <4>2
    <3>8. Len(b) <= Len(gg)
      BY <1>7, <3>2, <3>4
    <3>9. reply'[h].remaining > 0 => Len(b) < Limit
      BY <1>7, <3>1
    <3> QED
      BY <1>5, <3>1, <3>5, <3>6, <3>7, <3>8, <3>9
         DEF BucketIsSuffix, RestHasLeft, Bound, RoomIsLeft
  <2>3. CASE h # k
    <3>1. /\ buckets'[h] = buckets[h]
          /\ reply'[h] = reply[h]
          /\ granted'[h] = granted[h]
      BY <1>5, <1>6, <2>3 DEF TypeOK
    <3> QED
      BY <1>5, <2>1, <3>1 DEF BucketIsSuffix, RestHasLeft, Bound, RoomIsLeft
  <2> QED
    BY <2>2, <2>3
<1> QED
  BY <1>9, <1>10 DEF IInv

-----------------------------------------------------------------------------
LEMMA NextIInv == ASSUME IInv, [Next]_vars PROVE IInv'
<1>1. CASE Tick
  BY <1>1, TickStep
<1>2. CASE \E k \in Keys : Refuse(k) \/ Grant(k)
  BY <1>2, RefuseStep, GrantStep
<1>3. CASE UNCHANGED vars
  BY <1>3 DEF vars, IInv, TypeOK, BucketIsSuffix, RestHasLeft, Bound, RoomIsLeft
<1> QED
  BY <1>1, <1>2, <1>3 DEF Next

(* IInv holds in every state of the limiter, for any keys, limit and       *)
(* window.                                                                 *)
THEOREM Invariance == Spec => []IInv
BY InitIInv, NextIInv, PTL DEF Spec

(* Every variable has its type and no bucket of InMemoryRateLimiter is      *)
(* longer than the limit, however many requests are refused.                *)
THEOREM TypeCorrect == Spec => []TypeOK
<1>1. IInv => TypeOK
  BY DEF IInv
<1> QED
  BY <1>1, Invariance, PTL

(* check() never lets more than Limit requests of a key through in any      *)
(* window, wherever it begins.                                              *)
THEOREM WindowIsNeverExceeded == Spec => []WindowBound
<1>1. IInv => WindowBound
  BY DEF IInv, Bound, WindowBound
<1> QED
  BY <1>1, Invariance, PTL

(* The two promises of an answer, as relations between a state and the next. *)
KeepsRemainder ==
    \A k \in Keys : reply[k].ok /\ reply[k].remaining > 0 => reply'[k].ok

RefusesJustly ==
    \A k \in Keys : reply'[k] # reply[k] /\ ~reply'[k].ok =>
       /\ Len(granted[k]) >= Limit
       /\ granted[k][Len(granted[k]) - Limit + 1] + Window >= now

(* What X-RateLimit-Remaining promised is kept: the next request of the     *)
(* key is let through.                                                      *)
LEMMA RemainderStep == ASSUME IInv, [Next]_vars PROVE [KeepsRemainder]_vars
<1> SUFFICES ASSUME NEW k \in Keys, reply[k].ok, reply[k].remaining > 0
             PROVE  reply'[k].ok
  BY DEF KeepsRemainder
<1>1. TypeOK /\ Len(buckets[k]) < Limit
  BY DEF IInv, RoomIsLeft
<1>2. CASE Tick \/ UNCHANGED vars
  BY <1>2 DEF Tick, vars
<1>3. ASSUME NEW h \in Keys, Refuse(h) PROVE reply'[k].ok
  <2>1. PICK e : e = Evicted(buckets[h])
    OBVIOUS
  <2>2. Len(e) <= Len(buckets[h]) /\ e \in Seq(Nat) /\ Len(e) >= Limit
    BY <1>3, <2>1, AfterEviction DEF Refuse
  <2>3. h # k
    BY <1>1, <2>2, LimitAssumption DEF TypeOK
  <2> QED
    BY <1>1, <1>3, <2>3 DEF Refuse, TypeOK
<1>4. ASSUME NEW h \in Keys, Grant(h) PROVE reply'[k].ok
  BY <1>1, <1>4 DEF Grant, TypeOK
<1> QED
  BY <1>2, <1>3, <1>4 DEF Next

(* A request is refused only when Limit requests of the key were let        *)
(* through in the window that ends now: refused ones cost nothing.          *)
LEMMA RefusalStep == ASSUME IInv, [Next]_vars PROVE [RefusesJustly]_vars
<1> DEFINE Full(k) == /\ Len(granted[k]) >= Limit
                      /\ granted[k][Len(granted[k]) - Limit + 1] + Window >= now
<1> SUFFICES ASSUME NEW k \in Keys, reply'[k] # reply[k], ~reply'[k].ok
             PROVE  Full(k)
  BY DEF RefusesJustly
<1>1. TypeOK
  BY DEF IInv
<1>2. CASE Tick \/ UNCHANGED vars
  BY <1>2 DEF Tick, vars
<1>3. CASE Refuse(k)
  <2>1. PICK e : e = Evicted(buckets[k])
    OBVIOUS
  <2>2. /\ e \in Seq(Nat)
        /\ Len(e) <= Len(buckets[k])
        /\ Len(e) <= Len(granted[k])
        /\ \A i \in 1..Len(e) : e[i] = granted[k][Len(granted[k]) - Len(e) + i]
        /\ e # <<>> => e[1] + Window >= now
    BY <2>1, AfterEviction
  <2>3. Len(e) >= Limit
    BY <1>3, <2>1 DEF Refuse
  <2>4. buckets[k] \in Seq(Nat) /\ Len(buckets[k]) <= Limit
    BY <1>1 DEF TypeOK
  <2>5. Len(e) = Limit /\ e # <<>>
    BY <2>2, <2>3, <2>4, LimitAssumption
  <2>6. 1 \in 1..Len(e) /\ Len(granted[k]) \in Nat
    BY <1>1, <2>5, LimitAssumption DEF TypeOK
  <2>7. e[1] = granted[k][Len(granted[k]) - Limit + 1]
    BY <2>2, <2>5, <2>6
  <2> QED
    BY <2>2, <2>5, <2>7
<1>4. ASSUME NEW h \in Keys, Refuse(h) \/ Grant(h), ~Refuse(k) PROVE FALSE
  <2>1. CASE Refuse(h)
    BY <1>1, <1>4, <2>1 DEF Refuse, TypeOK
  <2>2. CASE Grant(h)
    BY <1>1, <2>2 DEF Grant, TypeOK
  <2> QED
    BY <1>4, <2>1, <2>2
<1> QED
  BY <1>2, <1>3, <1>4 DEF Next

(* Both answers of check() can be relied on: a refusal is justified and a   *)
(* promised remainder is kept.                                              *)
THEOREM AnswersAreTrue == Spec => AnswersAreHonest
<1>1. Spec => [][KeepsRemainder]_vars
  BY RemainderStep, Invariance, PTL DEF Spec
<1>2. Spec => [][RefusesJustly]_vars
  BY RefusalStep, Invariance, PTL DEF Spec
<1> QED
  BY <1>1, <1>2 DEF AnswersAreHonest, RemainingIsKept, RefusedOnlyWhenFull,
                    KeepsRemainder, RefusesJustly
-----------------------------------------------------------------------------
(* The limiter behind the door.  Only OverLimit, Admit, the clock and a     *)
(* restart touch it, the first three by a step of its own.                  *)

LEMMA LimiterStep ==
    ASSUME [IntakeNext]_intakeVars
    PROVE  [Next]_vars \/ Restart
<1>1. ASSUME NEW r \in Requests, Arrives(r) PROVE [Next]_vars
  BY <1>1 DEF Arrives, DeclaredTooLarge, Unauthorized, OverLimit, Admit,
              limiter, Next
<1>2. ASSUME NEW r \in Requests, Serves(r) PROVE UNCHANGED vars
  BY <1>2 DEF Serves, Reject, Create, CreateBreaks, EnqueueArrives,
              EnqueueRaises, limiter
<1>3. ASSUME NEW k \in Keys, Operator(k) PROVE UNCHANGED vars
  BY <1>3 DEF Operator, CreateKey, RevokeKey, limiter
<1>4. ASSUME NEW j \in JobIds, DeleteJob(j) PROVE UNCHANGED vars
  BY <1>4 DEF DeleteJob, limiter
<1>5. CASE Passes
  BY <1>5 DEF Passes, Next
<1>6. CASE UNCHANGED intakeVars
  BY <1>6 DEF intakeVars, vars
<1> QED
  BY <1>1, <1>2, <1>3, <1>4, <1>5, <1>6 DEF IntakeNext

(* A restart leaves the limiter as at its first start, but for the clock.   *)
LEMMA RestartStep == ASSUME IInv, Restart PROVE IInv'
<1>1. /\ now' = now /\ now \in Nat
      /\ buckets' = [k \in Keys |-> <<>>]
      /\ granted' = [k \in Keys |-> <<>>]
      /\ reply' = [k \in Keys |-> NoReply]
  BY DEF Restart, IInv, TypeOK
<1>2. TypeOK'
  BY <1>1, LimitAssumption DEF TypeOK, NoReply
<1>3. \A k \in Keys :
         BucketIsSuffix(k)' /\ RestHasLeft(k)' /\ Bound(k)' /\ RoomIsLeft(k)'
  <2> TAKE k \in Keys
  <2>1. buckets'[k] = <<>> /\ granted'[k] = <<>> /\ reply'[k].remaining = 0
    BY <1>1 DEF NoReply
  <2> QED
    BY <2>1, LimitAssumption DEF BucketIsSuffix, RestHasLeft, Bound, RoomIsLeft
<1> QED
  BY <1>2, <1>3 DEF IInv

LEMMA LimiterInvariance == IntakeSpec => []IInv
<1>1. IntakeInit => IInv
  BY InitIInv DEF IntakeInit
<1>2. ASSUME IInv, [IntakeNext]_intakeVars PROVE IInv'
  BY <1>2, LimiterStep, RestartStep, NextIInv
<1> QED
  BY <1>1, <1>2, PTL DEF IntakeSpec

(* The window of check() is never exceeded by the requests that one process *)
(* lets through, behind any mixture of refusals and revoked keys.           *)
THEOREM WindowHoldsBehindTheDoor == IntakeSpec => []WindowBound
<1>1. IInv => WindowBound
  BY DEF IInv, Bound, WindowBound
<1> QED
  BY <1>1, LimiterInvariance, PTL

(* A refusal is justified and a promised remainder kept, also across        *)
(* restarts, which only empty the buckets.                                  *)
THEOREM AnswersStayTrue == IntakeSpec => AnswersAreHonest
<1>1. ASSUME IInv, [IntakeNext]_intakeVars
      PROVE  [KeepsRemainder]_vars /\ [RefusesJustly]_vars
  <2>1. CASE [Next]_vars
    BY <1>1, <2>1, RemainderStep, RefusalStep
  <2>2. CASE Restart
    BY <2>2 DEF Restart, NoReply, KeepsRemainder, RefusesJustly
  <2> QED
    BY <1>1, <2>1, <2>2, LimiterStep
<1>2. IntakeSpec => [][KeepsRemainder]_vars /\ [][RefusesJustly]_vars
  BY <1>1, LimiterInvariance, PTL DEF IntakeSpec
<1> QED
  BY <1>2 DEF AnswersAreHonest, RemainingIsKept, RefusedOnlyWhenFull,
              KeepsRemainder, RefusesJustly

-----------------------------------------------------------------------------
(* The batches.  The first of some files is one of them.                    *)
LEMMA FirstIsMember ==
    ASSUME NEW S \in SUBSET Nat, S # {}
    PROVE  First(S) \in S
BY FirstPosition DEF First

(* A handler that is not between two enqueues owes none, and one that has   *)
(* not ended has not answered.                                              *)
HandlerFits(r) ==
    /\ batch[r].at = "enqueueing" <=> batch[r].todo # {}
    /\ batch[r].at # "ended" => batch[r].answer = "none"

(* Until it creates the rows, and after a refusal, a batch has left nothing. *)
NothingYet(r) ==
    batch[r].at \in {"idle", "reading"} \/ batch[r].answer \in Refusals =>
       \A i \in 1..MaxFiles : row[<<r, i>>] = "absent" /\ <<r, i>> \notin queued

(* What the handler is about to answer with 202 fits rows and queue.        *)
ListedFits(r) ==
    batch[r].at = "enqueueing" \/ batch[r].answer = "202" =>
       /\ batch[r].listed =
             {i \in 1..MaxFiles : <<r, i>> \in queued} \cup batch[r].todo
       /\ \A i \in 1..MaxFiles : row[<<r, i>>] = "pending" => i \in batch[r].listed
       /\ \A i \in batch[r].listed : row[<<r, i>>] # "failed"
       /\ \A i \in batch[r].listed : batch[r].files[i].size <= MaxBytes

HasFate(r) ==
    \A i \in 1..MaxFiles : row[<<r, i>>] = "pending" =>
       <<r, i>> \in queued \cup stranded \/ i \in batch[r].todo

BatchInv(r) == HandlerFits(r) /\ NothingYet(r) /\ ListedFits(r) /\ HasFate(r)

BatchesInv ==
    /\ IntakeTypeOK
    /\ \A r \in Requests : BatchInv(r)

LEMMA InitBatches == IntakeInit => BatchesInv
<1> SUFFICES ASSUME IntakeInit PROVE BatchesInv
  OBVIOUS
<1>1. TypeOK
  BY InitIInv DEF IntakeInit, IInv
<1>2. IntakeTypeOK
  BY <1>1 DEF IntakeTypeOK, IntakeInit, Idle, Answers
<1>3. ASSUME NEW r \in Requests PROVE BatchInv(r)
  <2>1. batch[r] = Idle
    BY DEF IntakeInit
  <2>2. \A i \in 1..MaxFiles : row[<<r, i>>] = "absent" /\ queued = {}
    BY DEF IntakeInit, JobIds
  <2> QED
    BY <2>1, <2>2 DEF BatchInv, HandlerFits, NothingYet, ListedFits, HasFate,
                      Idle, Refusals
<1> QED
  BY <1>2, <1>3 DEF BatchesInv

(* A step of one batch leaves the others as they are.                       *)
LEMMA OthersKeep ==
    ASSUME NEW r \in Requests, IntakeTypeOK, BatchInv(r), batch'[r] = batch[r],
           \A i \in 1..MaxFiles : row'[<<r, i>>] = row[<<r, i>>],
           \A i \in 1..MaxFiles : <<r, i>> \in queued' <=> <<r, i>> \in queued,
           stranded \subseteq stranded'
    PROVE  BatchInv(r)'
<1>1. HandlerFits(r)'
  BY DEF BatchInv, HandlerFits
<1>2. NothingYet(r)'
  BY DEF BatchInv, NothingYet
<1>3. ListedFits(r)'
  <2>1. batch[r].listed \subseteq 1..MaxFiles
    BY DEF IntakeTypeOK
  <2>2. {i \in 1..MaxFiles : <<r, i>> \in queued'}
           = {i \in 1..MaxFiles : <<r, i>> \in queued}
    OBVIOUS
  <2> QED
    BY <2>1, <2>2 DEF BatchInv, ListedFits
<1>4. HasFate(r)'
  BY DEF BatchInv, HasFate
<1> QED
  BY <1>1, <1>2, <1>3, <1>4 DEF BatchInv

(* The answers that end a batch before its rows are created.                *)
LEMMA AnsweredStep ==
    ASSUME BatchesInv, NEW r \in Requests, NEW code \in Refusals,
           batch[r].at \in {"idle", "reading"} \/ batch[r].answer \in Refusals,
           Answered(r, code), UNCHANGED <<row, queued, stranded>>
    PROVE  \A s \in Requests : BatchInv(s)'
<1> TAKE s \in Requests
<1>1. BatchInv(s)
  BY DEF BatchesInv
<1>2. batch \in [Requests -> [at : {"idle", "reading", "enqueueing", "ended"},
                              files : Seq([allowed : BOOLEAN, size : Nat]),
                              todo : SUBSET (1..MaxFiles),
                              listed : SUBSET (1..MaxFiles),
                              answer : Answers]]
  BY DEF BatchesInv, IntakeTypeOK
<1>3. CASE s = r
  <2>1. /\ batch'[s].at = "ended" /\ batch'[s].todo = {}
        /\ batch'[s].answer = code /\ code # "202"
    BY <1>2, <1>3 DEF Answered, Idle, Refusals
  <2>2. \A i \in 1..MaxFiles : row[<<s, i>>] = "absent" /\ <<s, i>> \notin queued
    BY <1>1, <1>3 DEF BatchInv, NothingYet
  <2> QED
    BY <2>1, <2>2 DEF BatchInv, HandlerFits, NothingYet, ListedFits, HasFate
<1>4. CASE s # r
  BY <1>1, <1>2, <1>4, OthersKeep DEF Answered, BatchesInv
<1> QED
  BY <1>3, <1>4

(* A request that is let in has nothing behind it.                          *)
LEMMA AdmitStep ==
    ASSUME BatchesInv, NEW r \in Requests, NEW k \in Keys, NEW files \in Shapes,
           Admit(r, k, files)
    PROVE  \A s \in Requests : BatchInv(s)'
<1> TAKE s \in Requests
<1>1. BatchInv(s)
  BY DEF BatchesInv
<1>2. DOMAIN batch = Requests /\ UNCHANGED <<row, queued, stranded>>
  BY DEF BatchesInv, IntakeTypeOK, Admit
<1>3. CASE s = r
  <2>1. /\ batch'[s].at = "reading" /\ batch'[s].todo = {}
        /\ batch'[s].answer = "none"
    BY <1>2, <1>3 DEF Admit, Idle
  <2>2. \A i \in 1..MaxFiles : row[<<s, i>>] = "absent" /\ <<s, i>> \notin queued
    BY <1>1, <1>3 DEF BatchInv, NothingYet, Admit, Free
  <2> QED
    BY <1>2, <2>1, <2>2 DEF BatchInv, HandlerFits, NothingYet, ListedFits, HasFate
<1>4. CASE s # r
  BY <1>1, <1>2, <1>4, OthersKeep DEF Admit, BatchesInv
<1> QED
  BY <1>3, <1>4

(* The type of the batches, for the provers.                                *)
BatchType ==
    [at : {"idle", "reading", "enqueueing", "ended"},
     files : Seq([allowed : BOOLEAN, size : Nat]),
     todo : SUBSET (1..MaxFiles), listed : SUBSET (1..MaxFiles),
     answer : Answers]

(* An element of a sequence is one of the set it is over.                  *)
LEMMA ElementType ==
    ASSUME NEW S, NEW s \in Seq(S), NEW i \in 1..Len(s)
    PROVE  s[i] \in S
OBVIOUS

(* Files that are not refused are at most MaxFiles, none of them too large. *)
LEMMA AcceptedFiles ==
    ASSUME NEW files \in Seq([allowed : BOOLEAN, size : Nat]),
           Refusal(files) = "none"
    PROVE  /\ Len(files) \in 1..MaxFiles
           /\ \A i \in 1..Len(files) : files[i].size <= MaxBytes
<1> DEFINE bad == {i \in DOMAIN files :
                     ~files[i].allowed \/ files[i].size > MaxBytes}
<1>1. ~(files = <<>> \/ Len(files) > MaxFiles) /\ bad = {}
  BY DEF Refusal
<1>2. Len(files) \in Nat /\ DOMAIN files = 1..Len(files)
  OBVIOUS
<1>3. Len(files) # 0
  BY <1>1
<1>4. \A i \in 1..Len(files) : files[i].size \in Nat
  <2>1. \A i \in 1..Len(files) : files[i] \in [allowed : BOOLEAN, size : Nat]
    BY ElementType
  <2> QED
    BY <2>1
<1> QED
  BY <1>1, <1>2, <1>3, <1>4, MaxFilesAssumption, MaxBytesAssumption

(* The step that creates the rows of a batch.                               *)
LEMMA CreateStep ==
    ASSUME BatchesInv, NEW r \in Requests, NEW unsaved \in SUBSET (1..MaxFiles),
           Create(r, unsaved)
    PROVE  \A s \in Requests : BatchInv(s)'
<1> DEFINE files == batch[r].files
           all == 1..Len(files)
           created == all \ unsaved
<1>1. IntakeTypeOK /\ \A s \in Requests : BatchInv(s)
  BY DEF BatchesInv
<1>2. batch[r] \in BatchType /\ DOMAIN batch = Requests
  BY <1>1 DEF IntakeTypeOK, BatchType
<1>3. /\ Len(files) \in 1..MaxFiles
      /\ \A i \in all : files[i].size <= MaxBytes
  BY <1>2, AcceptedFiles DEF Create, BatchType
<1>4. /\ batch[r].at = "reading" /\ batch[r].todo = {}
      /\ batch[r].answer = "none"
      /\ \A i \in 1..MaxFiles : row[<<r, i>>] = "absent" /\ <<r, i>> \notin queued
  BY <1>1 DEF Create, BatchInv, HandlerFits, NothingYet
<1>5. /\ queued' = queued
      /\ stranded' = IF pool THEN stranded
                     ELSE stranded \cup JobsOf(r, created)
      /\ unsaved \subseteq all
  BY DEF Create
<1>6. /\ batch'[r].at = IF pool /\ created # {} THEN "enqueueing" ELSE "ended"
      /\ batch'[r].todo = IF pool THEN created ELSE {}
      /\ batch'[r].listed = IF pool THEN created ELSE {}
      /\ batch'[r].answer = IF ~pool THEN "503"
                            ELSE IF created = {} THEN "202" ELSE "none"
      /\ batch'[r].files = files
  BY <1>2, <1>4 DEF Create, Created, BatchType
<1>7. \A s \in Requests \ {r} : batch'[s] = batch[s]
  BY <1>2 DEF Create
<1>8. \A i \in 1..MaxFiles :
         row'[<<r, i>>] = IF i \in unsaved THEN "failed"
                          ELSE IF i \in all THEN "pending" ELSE "absent"
  <2> TAKE i \in 1..MaxFiles
  <2>1. <<r, i>> \in JobIds
    BY DEF JobIds
  <2>2. \A S : <<r, i>> \in JobsOf(r, S) <=> i \in S
    BY DEF JobsOf
  <2> QED
    BY <1>4, <2>1, <2>2 DEF Create
<1>9. \A s \in Requests \ {r} : \A i \in 1..MaxFiles :
         row'[<<s, i>>] = row[<<s, i>>]
  <2> TAKE s \in Requests \ {r}
  <2> TAKE i \in 1..MaxFiles
  <2>1. <<s, i>> \in JobIds
    BY DEF JobIds
  <2>2. \A S : <<s, i>> \notin JobsOf(r, S)
    BY DEF JobsOf
  <2> QED
    BY <2>1, <2>2 DEF Create
<1>10. BatchInv(r)'
  <2>1. HandlerFits(r)'
    BY <1>6 DEF HandlerFits
  <2>2. NothingYet(r)'
    BY <1>6 DEF NothingYet, Refusals
  <2>3. ListedFits(r)'
    <3>1. {i \in 1..MaxFiles : <<r, i>> \in queued'} = {}
      BY <1>4, <1>5
    <3>2. CASE ~pool
      BY <1>6, <3>2 DEF ListedFits
    <3>3. CASE pool
      <4>1. /\ batch'[r].listed = created /\ batch'[r].todo = created
            /\ batch'[r].files = files
        BY <1>6, <3>3
      <4>2. created \subseteq all /\ all \subseteq 1..MaxFiles
        BY <1>3, MaxFilesAssumption
      <4>3. batch'[r].listed = {i \in 1..MaxFiles : <<r, i>> \in queued'}
                                 \cup batch'[r].todo
        BY <3>1, <4>1
      <4>4. \A i \in 1..MaxFiles : row'[<<r, i>>] = "pending" => i \in created
        BY <1>8
      <4>5. \A i \in created : row'[<<r, i>>] # "failed"
        BY <1>8, <4>2
      <4>6. \A i \in created : files[i].size <= MaxBytes
        BY <1>3, <4>2
      <4> HIDE DEF created, files
      <4> QED
        BY <4>1, <4>3, <4>4, <4>5, <4>6 DEF ListedFits
    <3> QED
      BY <3>2, <3>3
  <2>4. HasFate(r)'
    <3>1. \A i \in created : <<r, i>> \in JobsOf(r, created)
      BY DEF JobsOf
    <3> QED
      BY <1>5, <1>6, <1>8, <3>1 DEF HasFate
  <2> QED
    BY <2>1, <2>2, <2>3, <2>4 DEF BatchInv
<1>11. \A s \in Requests \ {r} : BatchInv(s)'
  BY <1>1, <1>5, <1>7, <1>9, OthersKeep
<1> QED
  BY <1>10, <1>11

(* The same when a commit among them raises.                                *)
LEMMA CreateBreaksStep ==
    ASSUME BatchesInv, NEW r \in Requests, NEW n \in 0..MaxFiles,
           NEW unsaved \in SUBSET (1..MaxFiles), CreateBreaks(r, n, unsaved)
    PROVE  \A s \in Requests : BatchInv(s)'
<1>1. IntakeTypeOK /\ \A s \in Requests : BatchInv(s)
  BY DEF BatchesInv
<1>2. DOMAIN batch = Requests /\ batch[r] \in BatchType
  BY <1>1 DEF IntakeTypeOK, BatchType
<1>3. /\ batch[r].todo = {}
      /\ \A i \in 1..MaxFiles : row[<<r, i>>] = "absent"
  BY <1>1 DEF CreateBreaks, BatchInv, HandlerFits, NothingYet
<1>4. /\ batch'[r].at = "ended" /\ batch'[r].todo = {}
      /\ batch'[r].answer = "500"
      /\ \A s \in Requests \ {r} : batch'[s] = batch[s]
  BY <1>2, <1>3 DEF CreateBreaks, BatchType
<1>5. /\ queued' = queued
      /\ stranded' = stranded \cup JobsOf(r, 1..n \ unsaved)
  BY DEF CreateBreaks
<1>6. \A s \in Requests, i \in 1..MaxFiles :
         row'[<<s, i>>] = IF <<s, i>> \in JobsOf(r, unsaved) THEN "failed"
                          ELSE IF <<s, i>> \in JobsOf(r, 1..n \ unsaved)
                                 THEN "pending" ELSE row[<<s, i>>]
  BY DEF CreateBreaks, JobIds
<1>7. BatchInv(r)'
  <2>1. HandlerFits(r)' /\ NothingYet(r)' /\ ListedFits(r)'
    BY <1>4 DEF HandlerFits, NothingYet, ListedFits, Refusals
  <2>2. HasFate(r)'
    BY <1>3, <1>5, <1>6 DEF HasFate
  <2> QED
    BY <2>1, <2>2 DEF BatchInv
<1>8. ASSUME NEW s \in Requests \ {r} PROVE BatchInv(s)'
  <2>1. \A i \in 1..MaxFiles : row'[<<s, i>>] = row[<<s, i>>]
    BY <1>6 DEF JobsOf
  <2> QED
    BY <1>1, <1>4, <1>5, <2>1, OthersKeep
<1> QED
  BY <1>7, <1>8

(* What an enqueue that came back leaves of its own batch.                  *)
LEMMA ArrivesStep ==
    ASSUME BatchesInv, NEW r \in Requests, EnqueueArrives(r)
    PROVE  \A s \in Requests : BatchInv(s)'
<1> DEFINE i == First(batch[r].todo)
           rest == batch[r].todo \ {i}
<1>1. IntakeTypeOK /\ \A s \in Requests : BatchInv(s)
  BY DEF BatchesInv
<1>2. DOMAIN batch = Requests /\ batch[r] \in BatchType
  BY <1>1 DEF IntakeTypeOK, BatchType
<1>3. /\ batch[r].at = "enqueueing" /\ batch[r].answer = "none"
      /\ batch[r].todo # {} /\ batch[r].todo \subseteq 1..MaxFiles
  BY <1>1, <1>2 DEF EnqueueArrives, BatchInv, HandlerFits, BatchType
<1>4. i \in batch[r].todo
  BY <1>3, FirstIsMember, MaxFilesAssumption
<1>5. /\ queued' = queued \cup {<<r, i>>} /\ row' = row
      /\ GoOn(r, rest)
  BY DEF EnqueueArrives
<1> HIDE DEF i
<1>6. /\ \A s \in Requests \ {r} : batch'[s] = batch[s]
      /\ batch'[r].listed = batch[r].listed
      /\ batch'[r].files = batch[r].files
      /\ \/ /\ batch'[r].at = "ended" /\ rest = {}
            /\ batch'[r].todo = {} /\ batch'[r].answer = "202"
            /\ stranded' = stranded
         \/ /\ batch'[r].at = "enqueueing" /\ rest # {}
            /\ batch'[r].todo = rest /\ batch'[r].answer = "none"
            /\ stranded' = stranded
         \/ /\ batch'[r].at = "ended" /\ rest # {}
            /\ batch'[r].todo = {} /\ batch'[r].answer = "500"
            /\ stranded' = stranded \cup JobsOf(r, rest)
  BY <1>2, <1>3, <1>5 DEF GoOn, BatchType
<1>7. BatchInv(r)'
  <2>1. HandlerFits(r)'
    BY <1>6 DEF HandlerFits
  <2>2. NothingYet(r)'
    BY <1>6 DEF NothingYet, Refusals
  <2>3. ListedFits(r)'
    <3>1. /\ batch[r].listed =
                {k \in 1..MaxFiles : <<r, k>> \in queued} \cup batch[r].todo
          /\ \A k \in 1..MaxFiles :
                row[<<r, k>>] = "pending" => k \in batch[r].listed
          /\ \A k \in batch[r].listed : row[<<r, k>>] # "failed"
          /\ \A k \in batch[r].listed : batch[r].files[k].size <= MaxBytes
      BY <1>1, <1>3 DEF BatchInv, ListedFits
    <3>2. {k \in 1..MaxFiles : <<r, k>> \in queued'}
             = {k \in 1..MaxFiles : <<r, k>> \in queued} \cup {i}
      BY <1>3, <1>4, <1>5
    <3>3. batch[r].listed =
             {k \in 1..MaxFiles : <<r, k>> \in queued'} \cup rest
      BY <1>4, <3>1, <3>2
    <3> QED
      BY <1>5, <1>6, <3>1, <3>3 DEF ListedFits
  <2>4. HasFate(r)'
    <3>1. \A k \in 1..MaxFiles : row[<<r, k>>] = "pending" =>
             <<r, k>> \in queued \cup stranded \/ k \in batch[r].todo
      BY <1>1 DEF BatchInv, HasFate
    <3>2. \A k \in rest : <<r, k>> \in JobsOf(r, rest)
      BY DEF JobsOf
    <3> QED
      BY <1>5, <1>6, <3>1, <3>2 DEF HasFate
  <2> QED
    BY <2>1, <2>2, <2>3, <2>4 DEF BatchInv
<1>8. ASSUME NEW s \in Requests \ {r} PROVE BatchInv(s)'
  <2>1. \A k \in 1..MaxFiles : <<s, k>> \in queued' <=> <<s, k>> \in queued
    BY <1>5
  <2>2. stranded \subseteq stranded'
    BY <1>6
  <2> QED
    BY <1>1, <1>5, <1>6, <2>1, <2>2, OthersKeep
<1> QED
  BY <1>7, <1>8

(* An enqueue that raises ends its batch and strands what is left of it.    *)
LEMMA RaisesStep ==
    ASSUME BatchesInv, NEW r \in Requests, EnqueueRaises(r)
    PROVE  \A s \in Requests : BatchInv(s)'
<1> DEFINE i == First(batch[r].todo)
<1>1. IntakeTypeOK /\ \A s \in Requests : BatchInv(s)
  BY DEF BatchesInv
<1>2. DOMAIN batch = Requests /\ batch[r] \in BatchType
  BY <1>1 DEF IntakeTypeOK, BatchType
<1>3. /\ queued \subseteq queued' /\ queued' \subseteq queued \cup {<<r, i>>}
      /\ stranded' = stranded \cup JobsOf(r, batch[r].todo)
      /\ row' = row
  BY DEF EnqueueRaises
<1> HIDE DEF i
<1>4. /\ \A s \in Requests \ {r} : batch'[s] = batch[s]
      /\ batch'[r].at = "ended" /\ batch'[r].todo = {}
      /\ batch'[r].answer = "500"
  BY <1>2 DEF EnqueueRaises, BatchType
<1>5. BatchInv(r)'
  <2>1. HandlerFits(r)' /\ NothingYet(r)' /\ ListedFits(r)'
    BY <1>4 DEF HandlerFits, NothingYet, ListedFits, Refusals
  <2>2. \A k \in batch[r].todo : <<r, k>> \in JobsOf(r, batch[r].todo)
    BY DEF JobsOf
  <2>3. HasFate(r)'
    BY <1>1, <1>3, <2>2 DEF BatchInv, HasFate
  <2> QED
    BY <2>1, <2>3 DEF BatchInv
<1>6. ASSUME NEW s \in Requests \ {r} PROVE BatchInv(s)'
  <2>1. \A k \in 1..MaxFiles : <<s, k>> \in queued' <=> <<s, k>> \in queued
    BY <1>3
  <2> QED
    BY <1>1, <1>3, <1>4, <2>1, OthersKeep
<1> QED
  BY <1>5, <1>6

(* A deletion may only take a row out of what is said of a batch.           *)
LEMMA DeleteStep ==
    ASSUME BatchesInv, NEW j \in JobIds, DeleteJob(j)
    PROVE  \A s \in Requests : BatchInv(s)'
<1> TAKE s \in Requests
<1>1. IntakeTypeOK /\ BatchInv(s)
  BY DEF BatchesInv
<1>2. UNCHANGED <<batch, queued, stranded>>
  BY DEF DeleteJob
<1>3. \A i \in 1..MaxFiles :
         /\ row'[<<s, i>>] \in {row[<<s, i>>], "deleted"}
         /\ row[<<s, i>>] = "absent" => row'[<<s, i>>] = "absent"
  <2> TAKE i \in 1..MaxFiles
  <2>1. <<s, i>> \in JobIds
    BY DEF JobIds
  <2> QED
    BY <1>1, <2>1 DEF DeleteJob, IntakeTypeOK
<1>4. batch[s].listed \subseteq 1..MaxFiles
  BY <1>1 DEF IntakeTypeOK
<1>5. HandlerFits(s)'
  BY <1>1, <1>2 DEF BatchInv, HandlerFits
<1>6. NothingYet(s)'
  BY <1>1, <1>2, <1>3 DEF BatchInv, NothingYet
<1>7. ListedFits(s)'
  <2> SUFFICES ASSUME batch[s].at = "enqueueing" \/ batch[s].answer = "202"
               PROVE  ListedFits(s)'
    BY <1>2 DEF ListedFits
  <2>1. /\ batch[s].listed =
              {i \in 1..MaxFiles : <<s, i>> \in queued} \cup batch[s].todo
        /\ \A i \in 1..MaxFiles : row[<<s, i>>] = "pending" => i \in batch[s].listed
        /\ \A i \in batch[s].listed : row[<<s, i>>] # "failed"
        /\ \A i \in batch[s].listed : batch[s].files[i].size <= MaxBytes
    BY <1>1 DEF BatchInv, ListedFits
  <2>2. \A i \in 1..MaxFiles : row'[<<s, i>>] = "pending" => i \in batch[s].listed
    BY <1>3, <2>1
  <2>3. \A i \in batch[s].listed : row'[<<s, i>>] # "failed"
    BY <1>3, <1>4, <2>1
  <2> QED
    BY <1>2, <2>1, <2>2, <2>3 DEF ListedFits
<1>8. HasFate(s)'
  BY <1>1, <1>2, <1>3 DEF BatchInv, HasFate
<1> QED
  BY <1>5, <1>6, <1>7, <1>8 DEF BatchInv

(* A restart ends the handlers; what they still owed is stranded, and only  *)
(* entries of theirs may have arrived.                                      *)
LEMMA DiesStep ==
    ASSUME BatchesInv, Restart
    PROVE  \A s \in Requests : BatchInv(s)'
<1> DEFINE open == {r \in Requests : batch[r].at \in {"reading", "enqueueing"}}
<1> TAKE s \in Requests
<1>1. IntakeTypeOK /\ BatchInv(s)
  BY DEF BatchesInv
<1>2. DOMAIN batch = Requests /\ batch[s] \in BatchType
  BY <1>1 DEF IntakeTypeOK, BatchType
<1>3. /\ row' = row
      /\ queued \subseteq queued'
      /\ \A i : <<s, i>> \in queued' => <<s, i>> \in queued \/ s \in open
  BY DEF Restart
<1>4. /\ stranded \subseteq stranded'
      /\ \A i \in batch[s].todo : s \in open => <<s, i>> \in stranded'
  <2>1. stranded' = stranded \cup UNION {JobsOf(r, batch[r].todo) : r \in open}
    BY DEF Restart
  <2>2. \A i \in batch[s].todo : <<s, i>> \in JobsOf(s, batch[s].todo)
    BY DEF JobsOf
  <2>3. s \in open =>
           JobsOf(s, batch[s].todo)
             \subseteq UNION {JobsOf(r, batch[r].todo) : r \in open}
    OBVIOUS
  <2> QED
    BY <2>1, <2>2, <2>3
<1>5. CASE s \notin open
  <2>1. batch'[s] = batch[s]
    BY <1>5 DEF Restart
  <2>2. \A i \in 1..MaxFiles : <<s, i>> \in queued' <=> <<s, i>> \in queued
    BY <1>3, <1>5
  <2> QED
    BY <1>1, <1>3, <1>4, <2>1, <2>2, OthersKeep
<1>6. CASE s \in open
  <2>1. /\ batch'[s].at = "ended" /\ batch'[s].todo = {}
        /\ batch'[s].answer = "none"
    BY <1>1, <1>2, <1>6 DEF Restart, BatchType, BatchInv, HandlerFits
  <2>2. HandlerFits(s)' /\ NothingYet(s)' /\ ListedFits(s)'
    BY <2>1 DEF HandlerFits, NothingYet, ListedFits, Refusals
  <2>3. HasFate(s)'
    BY <1>1, <1>3, <1>4, <1>6 DEF BatchInv, HasFate
  <2> QED
    BY <2>2, <2>3 DEF BatchInv
<1> QED
  BY <1>5, <1>6

-----------------------------------------------------------------------------
LEMMA NextBatches ==
    ASSUME BatchesInv, [IntakeNext]_intakeVars
    PROVE  \A s \in Requests : BatchInv(s)'
<1> DEFINE Same == UNCHANGED <<batch, row, queued, stranded>>
<1>1. ASSUME Same PROVE \A s \in Requests : BatchInv(s)'
  BY <1>1, OthersKeep DEF BatchesInv
<1>2. ASSUME NEW r \in Requests, Arrives(r)
      PROVE  \A s \in Requests : BatchInv(s)'
  <2>1. ASSUME NEW code \in Refusals, Free(r), Answered(r, code),
               UNCHANGED <<row, queued, stranded>>
        PROVE  \A s \in Requests : BatchInv(s)'
    BY <2>1, AnsweredStep DEF Free
  <2>2. ASSUME NEW files \in Shapes, DeclaredTooLarge(r, files)
        PROVE  \A s \in Requests : BatchInv(s)'
    BY <2>1, <2>2 DEF DeclaredTooLarge, Refusals
  <2>3. ASSUME NEW k \in Keys, Unauthorized(r, k) \/ OverLimit(r, k)
        PROVE  \A s \in Requests : BatchInv(s)'
    BY <2>1, <2>3 DEF Unauthorized, OverLimit, Refusals
  <2> QED
    BY <1>2, <2>2, <2>3, AdmitStep DEF Arrives
<1>3. ASSUME NEW r \in Requests, Serves(r)
      PROVE  \A s \in Requests : BatchInv(s)'
  <2>1. ASSUME Reject(r) PROVE \A s \in Requests : BatchInv(s)'
    <3>1. Refusal(batch[r].files) \in Refusals
      BY <2>1 DEF Reject, Refusal, Refusals
    <3> QED
      BY <2>1, <3>1, AnsweredStep DEF Reject
  <2> QED
    BY <1>3, <2>1, CreateStep, CreateBreaksStep, ArrivesStep, RaisesStep DEF Serves
<1>4. ASSUME NEW k \in Keys, Operator(k) PROVE Same
  BY <1>4 DEF Operator, CreateKey, RevokeKey
<1>5. CASE Passes
  BY <1>1, <1>5 DEF Passes
<1>6. CASE UNCHANGED intakeVars
  BY <1>1, <1>6 DEF intakeVars
<1> QED
  BY <1>1, <1>2, <1>3, <1>4, <1>5, <1>6, DeleteStep, DiesStep DEF IntakeNext

(* The types of what a step of the handler writes.                          *)
LEMMA NextTypes ==
    ASSUME BatchesInv, TypeOK', [IntakeNext]_intakeVars
    PROVE  IntakeTypeOK'
<1> DEFINE Rows == [JobIds -> {"absent", "pending", "failed", "deleted"}]
           Good == /\ batch' \in [Requests -> BatchType] /\ row' \in Rows
                   /\ queued' \subseteq JobIds /\ stranded' \subseteq JobIds
<1>1. /\ batch \in [Requests -> BatchType] /\ row \in Rows
      /\ queued \subseteq JobIds /\ stranded \subseteq JobIds
      /\ keys \in [Keys -> {"absent", "active", "revoked"}]
      /\ pool \in BOOLEAN
      /\ \A r \in Requests : BatchInv(r)
  BY DEF BatchesInv, IntakeTypeOK, BatchType
<1>2. keys' \in [Keys -> {"absent", "active", "revoked"}] /\ pool' \in BOOLEAN
  <2>1. ASSUME NEW r \in Requests, Arrives(r) \/ Serves(r)
        PROVE  UNCHANGED <<keys, pool>>
    BY <2>1 DEF Arrives, DeclaredTooLarge, Unauthorized, OverLimit, Admit, Serves,
                Reject, Create, CreateBreaks, EnqueueArrives, EnqueueRaises
  <2>2. ASSUME NEW k \in Keys, Operator(k)
        PROVE  /\ keys' \in [Keys -> {"absent", "active", "revoked"}]
               /\ UNCHANGED pool
    BY <1>1, <2>2 DEF Operator, CreateKey, RevokeKey
  <2>3. ASSUME NEW j \in JobIds, DeleteJob(j) PROVE UNCHANGED <<keys, pool>>
    BY <2>3 DEF DeleteJob
  <2>4. CASE Restart
    BY <1>1, <2>4 DEF Restart
  <2>5. CASE Passes
    BY <1>1, <2>5 DEF Passes
  <2>6. CASE UNCHANGED intakeVars
    BY <1>1, <2>6 DEF intakeVars
  <2> QED
    BY <1>1, <2>1, <2>2, <2>3, <2>4, <2>5, <2>6 DEF IntakeNext
<1>3. ASSUME NEW r \in Requests, NEW S \in SUBSET (1..MaxFiles)
      PROVE  JobsOf(r, S) \subseteq JobIds
  <2>1. \A i \in S : <<r, i>> \in JobIds
    BY <1>3 DEF JobIds
  <2> QED
    BY <2>1 DEF JobsOf
<1>4. Idle \in BatchType /\ {"202", "500", "503", "none"} \subseteq Answers
      /\ Refusals \subseteq Answers
  BY DEF Idle, BatchType, Answers
<1>5. ASSUME UNCHANGED <<batch, row, queued, stranded>> PROVE Good
  BY <1>1, <1>5
<1>6. ASSUME NEW r \in Requests, NEW code \in Refusals, Answered(r, code),
             UNCHANGED <<row, queued, stranded>>
      PROVE  Good
  <2>1. [Idle EXCEPT !.at = "ended", !.answer = code] \in BatchType
    BY <1>4 DEF BatchType
  <2> QED
    BY <1>1, <1>6, <2>1 DEF Answered
<1>7. ASSUME NEW r \in Requests, Arrives(r) PROVE Good
  <2>1. ASSUME NEW files \in Shapes, DeclaredTooLarge(r, files) PROVE Good
    BY <1>6, <2>1 DEF DeclaredTooLarge, Refusals
  <2>2. ASSUME NEW k \in Keys, Unauthorized(r, k) \/ OverLimit(r, k) PROVE Good
    BY <1>6, <2>2 DEF Unauthorized, OverLimit, Refusals
  <2>3. ASSUME NEW k \in Keys, NEW files \in Shapes, Admit(r, k, files) PROVE Good
    <3>1. files \in Seq([allowed : BOOLEAN, size : Nat])
      BY ShapesAssumption
    <3>2. [Idle EXCEPT !.at = "reading", !.files = files] \in BatchType
      BY <1>4, <3>1 DEF BatchType
    <3> QED
      BY <1>1, <2>3, <3>2 DEF Admit
  <2> QED
    BY <1>7, <2>1, <2>2, <2>3 DEF Arrives
<1>8. ASSUME NEW r \in Requests, Serves(r) PROVE Good
  <2>0. batch[r] \in BatchType
    BY <1>1
  <2>1. CASE Reject(r)
    BY <1>6, <2>1 DEF Reject, Refusal, Refusals
  <2>2. ASSUME NEW unsaved \in SUBSET (1..MaxFiles), Create(r, unsaved) PROVE Good
    <3> DEFINE created == (1..Len(batch[r].files)) \ unsaved
    <3>1. Len(batch[r].files) \in 1..MaxFiles
      BY <2>0, <2>2, AcceptedFiles DEF Create, BatchType
    <3>2. created \in SUBSET (1..MaxFiles)
      BY <3>1, MaxFilesAssumption
    <3>3. batch' \in [Requests -> BatchType]
      <4> HIDE DEF created
      <4>1. PICK at \in {"enqueueing", "ended"}, todo \in {created, {}},
                 answer \in {"503", "202", "none"} :
              batch' = [batch EXCEPT ![r].at = at, ![r].todo = todo,
                                     ![r].listed = todo, ![r].answer = answer]
        BY <2>2 DEF Create, Created, created
      <4>2. todo \in SUBSET (1..MaxFiles) /\ answer \in Answers
        BY <1>4, <3>2, <4>1
      <4> QED
        BY <1>1, <2>0, <4>1, <4>2 DEF BatchType
    <3>4. row' \in Rows
      BY <1>1, <2>2 DEF Create
    <3>5. queued' \subseteq JobIds /\ stranded' \subseteq JobIds
      BY <1>1, <1>3, <2>2, <3>2 DEF Create
    <3> QED
      BY <3>3, <3>4, <3>5
  <2>3. ASSUME NEW n \in 0..MaxFiles, NEW unsaved \in SUBSET (1..MaxFiles),
               CreateBreaks(r, n, unsaved)
        PROVE  Good
    <3>1. 1..n \ unsaved \in SUBSET (1..MaxFiles)
      BY <2>3, MaxFilesAssumption
    <3>2. batch' \in [Requests -> BatchType]
      BY <1>1, <1>4, <2>0, <2>3 DEF CreateBreaks, BatchType
    <3>3. row' \in Rows
      BY <1>1, <2>3 DEF CreateBreaks
    <3> QED
      BY <1>1, <1>3, <2>3, <3>1, <3>2, <3>3 DEF CreateBreaks
  <2>4. ASSUME EnqueueArrives(r) \/ EnqueueRaises(r)
        PROVE  First(batch[r].todo) \in 1..MaxFiles
    <3>1. batch[r].todo \in SUBSET (1..MaxFiles) /\ batch[r].todo # {}
      BY <1>1, <2>0, <2>4
         DEF EnqueueArrives, EnqueueRaises, BatchInv, HandlerFits, BatchType
    <3> QED
      BY <3>1, FirstIsMember, MaxFilesAssumption
  <2>5. CASE EnqueueArrives(r)
    <3> DEFINE i == First(batch[r].todo)
    <3>1. <<r, i>> \in JobIds
      BY <2>4, <2>5 DEF JobIds
    <3> HIDE DEF i
    <3>2. batch[r].todo \ {i} \in SUBSET (1..MaxFiles)
      BY <2>0 DEF BatchType
    <3>3. batch' \in [Requests -> BatchType]
      <4> DEFINE rest == batch[r].todo \ {i}
      <4>1. \/ batch' = [batch EXCEPT ![r].at = "ended", ![r].todo = {},
                                      ![r].answer = "202"]
            \/ batch' = [batch EXCEPT ![r].todo = rest]
            \/ batch' = [batch EXCEPT ![r].at = "ended", ![r].todo = {},
                                      ![r].answer = "500"]
        BY <2>5 DEF EnqueueArrives, GoOn, i
      <4>2. rest \in SUBSET (1..MaxFiles)
        BY <3>2
      <4> HIDE DEF rest
      <4>3. CASE batch' = [batch EXCEPT ![r].todo = rest]
        BY <1>1, <2>0, <4>2, <4>3 DEF BatchType
      <4>4. CASE batch' = [batch EXCEPT ![r].at = "ended", ![r].todo = {},
                                        ![r].answer = "202"]
        BY <1>1, <1>4, <2>0, <4>4 DEF BatchType
      <4>5. CASE batch' = [batch EXCEPT ![r].at = "ended", ![r].todo = {},
                                        ![r].answer = "500"]
        BY <1>1, <1>4, <2>0, <4>5 DEF BatchType
      <4> QED
        BY <4>1, <4>3, <4>4, <4>5
    <3>4. stranded' \subseteq JobIds
      BY <1>1, <1>3, <2>5, <3>2 DEF EnqueueArrives, GoOn, i
    <3> QED
      BY <1>1, <2>5, <3>1, <3>3, <3>4 DEF EnqueueArrives, i
  <2>6. CASE EnqueueRaises(r)
    <3>1. <<r, First(batch[r].todo)>> \in JobIds
      BY <2>4, <2>6 DEF JobIds
    <3>2. batch[r].todo \in SUBSET (1..MaxFiles)
      BY <2>0 DEF BatchType
    <3>3. batch' \in [Requests -> BatchType]
      BY <1>1, <1>4, <2>0, <2>6 DEF EnqueueRaises, BatchType
    <3> QED
      BY <1>1, <1>3, <2>6, <3>1, <3>2, <3>3 DEF EnqueueRaises
  <2> QED
    BY <1>8, <2>1, <2>2, <2>3, <2>5, <2>6 DEF Serves
<1>9. ASSUME NEW k \in Keys, Operator(k) PROVE Good
  BY <1>5, <1>9 DEF Operator, CreateKey, RevokeKey
<1>10. ASSUME NEW j \in JobIds, DeleteJob(j) PROVE Good
  BY <1>1, <1>10 DEF DeleteJob
<1>11. ASSUME Restart PROVE Good
  <2> DEFINE open == {r \in Requests : batch[r].at \in {"reading", "enqueueing"}}
             sending == {<<r, First(batch[r].todo)>> :
                           r \in {o \in open : batch[o].todo # {}}}
  <2>1. batch' \in [Requests -> BatchType]
    <3>1. \A b \in BatchType :
             [b EXCEPT !.at = "ended", !.todo = {}] \in BatchType
      BY DEF BatchType
    <3> QED
      BY <1>1, <1>11, <3>1 DEF Restart
  <2>2. sending \subseteq JobIds
    <3>1. ASSUME NEW r \in Requests, batch[r].todo # {}
          PROVE  <<r, First(batch[r].todo)>> \in JobIds
      <4>1. batch[r].todo \in SUBSET (1..MaxFiles)
        BY <1>1 DEF BatchType
      <4> QED
        BY <3>1, <4>1, FirstIsMember, MaxFilesAssumption DEF JobIds
    <3> QED
      BY <3>1
  <2>3. UNION {JobsOf(r, batch[r].todo) : r \in open} \subseteq JobIds
    <3>1. \A r \in Requests : JobsOf(r, batch[r].todo) \subseteq JobIds
      BY <1>1, <1>3 DEF BatchType
    <3> QED
      BY <3>1
  <2>4. /\ row' = row
        /\ queued' \subseteq queued \cup sending
        /\ stranded' = stranded \cup UNION {JobsOf(r, batch[r].todo) : r \in open}
    BY <1>11 DEF Restart
  <2> QED
    BY <1>1, <2>1, <2>2, <2>3, <2>4
<1>12. ASSUME Passes PROVE Good
  BY <1>5, <1>12 DEF Passes
<1>13. ASSUME UNCHANGED intakeVars PROVE Good
  BY <1>5, <1>13 DEF intakeVars
<1>14. Good
  BY <1>7, <1>8, <1>9, <1>10, <1>11, <1>12, <1>13 DEF IntakeNext
<1> QED
  BY <1>2, <1>14 DEF IntakeTypeOK, BatchType

LEMMA BatchInvariance == IntakeSpec => [](IInv /\ BatchesInv)
<1>1. IntakeInit => IInv /\ BatchesInv
  BY InitIInv, InitBatches DEF IntakeInit
<1>2. ASSUME IInv /\ BatchesInv, [IntakeNext]_intakeVars
      PROVE  (IInv /\ BatchesInv)'
  <2>1. IInv'
    BY <1>2, LimiterStep, RestartStep, NextIInv
  <2>2. TypeOK'
    BY <2>1 DEF IInv
  <2> QED
    BY <1>2, <2>1, <2>2, NextTypes, NextBatches DEF BatchesInv
<1> QED
  BY <1>1, <1>2, PTL DEF IntakeSpec

(* Every variable of door, limiter and batches has its type.                *)
THEOREM IntakeIsTyped == IntakeSpec => []IntakeTypeOK
<1>1. BatchesInv => IntakeTypeOK
  BY DEF BatchesInv
<1> QED
  BY <1>1, BatchInvariance, PTL

(* No row that submit_ocr_batch commits as pending is forgotten: it is on   *)
(* the queue, its handler still holds it, or a failure with a name kept it. *)
THEOREM NoRowIsForgotten == IntakeSpec => []RowsHaveAFate
<1>1. BatchesInv => RowsHaveAFate
  <2> SUFFICES ASSUME BatchesInv, NEW r \in Requests, NEW i \in 1..MaxFiles,
                      row[<<r, i>>] = "pending"
               PROVE  <<r, i>> \in queued \cup stranded \/ i \in batch[r].todo
    BY DEF RowsHaveAFate, JobIds
  <2> QED
    BY DEF BatchesInv, BatchInv, HasFate
<1> QED
  BY <1>1, BatchInvariance, PTL

(* What submit_ocr_batch answers is true of rows and queue.                 *)
THEOREM BatchAnswersAreTrue == IntakeSpec => []AnswersMatchTheQueue
<1>1. BatchesInv => AnswersMatchTheQueue
  <2> SUFFICES ASSUME BatchesInv, NEW r \in Requests
               PROVE  /\ batch[r].answer \in Refusals =>
                            \A i \in 1..MaxFiles : row[<<r, i>>] = "absent"
                      /\ batch[r].answer = "202" =>
                            /\ batch[r].listed = {i \in 1..MaxFiles : <<r, i>> \in queued}
                            /\ {i \in 1..MaxFiles : row[<<r, i>>] = "pending"}
                                  \subseteq batch[r].listed
                            /\ {i \in 1..MaxFiles : row[<<r, i>>] = "failed"}
                                  \cap batch[r].listed = {}
                            /\ \A i \in batch[r].listed :
                                  batch[r].files[i].size <= MaxBytes
    BY DEF AnswersMatchTheQueue
  <2>1. BatchInv(r)
    BY DEF BatchesInv
  <2>2. batch[r].answer = "202" => batch[r].todo = {}
    BY <2>1 DEF BatchInv, HandlerFits
  <2> QED
    BY <2>1, <2>2 DEF BatchInv, NothingYet, ListedFits
<1> QED
  BY <1>1, BatchInvariance, PTL
=============================================================================
