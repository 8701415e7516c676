---------------------------- MODULE RateLimiter ----------------------------
(***************************************************************************)
(* InMemoryRateLimiter of app/auth.py: a sliding window per API key.       *)
(* check() holds the event loop from the reading of the clock to the       *)
(* append, so one request is one step.  Time is counted in ticks, Second   *)
(* of them to a second, because time.time() is finer than the whole        *)
(* seconds of X-RateLimit-Reset.                                           *)
(***************************************************************************)
EXTENDS Integers, Sequences

CONSTANTS
    Keys,       \* the ids of the API keys
    Limit,      \* requests_per_minute
    Second,     \* ticks to a second
    Window,     \* WINDOW_SECONDS, in ticks
    MaxTime     \* bound: the clock stops here

ASSUME LimitAssumption == Limit \in Nat \ {0}
ASSUME WindowAssumption == Window \in Nat \ {0}
ASSUME SecondAssumption == Second \in Nat \ {0} /\ Window % Second = 0

VARIABLES
    now,        \* time.time()
    buckets,    \* the time stamps kept for each key, oldest first
    reply,      \* what the last request of each key was told
    granted     \* the times of all requests that were let through

vars == <<now, buckets, reply, granted>>

NoReply == [ok |-> TRUE, at |-> 0, remaining |-> 0, reset |-> 0]

(* popleft while the oldest entry is before the start of the window.       *)
Live(b) == {i \in 1..Len(b) : b[i] >= now - Window}

\* Mutant: an entry is dropped at the very end of its window.
DroppedEarly(b) ==
    LET live == {i \in 1..Len(b) : b[i] > now - Window}
    IN IF live = {} THEN <<>>
       ELSE SubSeq(b, CHOOSE i \in live : \A j \in live : i <= j, Len(b))

\* Mutant: an entry is kept one tick longer than its window.
DroppedLate(b) ==
    LET live == {i \in 1..Len(b) : b[i] >= now - Window - 1}
    IN IF live = {} THEN <<>>
       ELSE SubSeq(b, CHOOSE i \in live : \A j \in live : i <= j, Len(b))

Evicted(b) ==
    IF Live(b) = {} THEN <<>>
    ELSE SubSeq(b, CHOOSE i \in Live(b) : \A j \in Live(b) : i <= j, Len(b))

(* int(bucket[0] + WINDOW_SECONDS)                                         *)
ResetAt(b) == (b[1] + Window) \div Second

\* Mutant: the refused request is recorded as well.
RefuseRecording(k) ==
    /\ Len(Evicted(buckets[k])) >= Limit
    /\ buckets' = [buckets EXCEPT ![k] = Append(Evicted(@), now)]
    /\ reply' = [reply EXCEPT
                   ![k] = [ok |-> FALSE, at |-> now, remaining |-> 0,
                           reset |-> ResetAt(Evicted(buckets[k]))]]
    /\ UNCHANGED <<now, granted>>

Refuse(k) ==
    /\ Len(Evicted(buckets[k])) >= Limit
    /\ buckets' = [buckets EXCEPT ![k] = Evicted(@)]
    /\ reply' = [reply EXCEPT
                   ![k] = [ok |-> FALSE, at |-> now, remaining |-> 0,
                           reset |-> ResetAt(Evicted(buckets[k]))]]
    /\ UNCHANGED <<now, granted>>

Grant(k) ==
    LET b == Append(Evicted(buckets[k]), now)
    IN /\ Len(Evicted(buckets[k])) < Limit
       /\ buckets' = [buckets EXCEPT ![k] = b]
       /\ reply' = [reply EXCEPT
                      ![k] = [ok |-> TRUE, at |-> now,
                              remaining |-> Limit - Len(b),
                              reset |-> ResetAt(b)]]
       /\ granted' = [granted EXCEPT ![k] = Append(@, now)]
       /\ UNCHANGED now

Tick ==
    /\ now < MaxTime
    /\ now' = now + 1
    /\ UNCHANGED <<buckets, reply, granted>>

Init ==
    /\ now = 0
    /\ buckets = [k \in Keys |-> <<>>]
    /\ reply = [k \in Keys |-> NoReply]
    /\ granted = [k \in Keys |-> <<>>]

Next == Tick \/ \E k \in Keys : Refuse(k) \/ Grant(k)

Spec == Init /\ [][Next]_vars

-----------------------------------------------------------------------------
(* Every variable has its type, and no bucket outgrows the limit.          *)
TypeOK ==
    /\ now \in Nat
    /\ buckets \in [Keys -> Seq(Nat)]
    /\ \A k \in Keys : Len(buckets[k]) <= Limit
    /\ reply \in [Keys -> [ok : BOOLEAN, at : Nat, remaining : 0..Limit,
                           reset : Nat]]
    /\ granted \in [Keys -> Seq(Nat)]

(* The limit holds in every window, not only from the first request of one: *)
(* between a request that was let through and the Limit-th after it lies    *)
(* more than a window.                                                      *)
WindowBound ==
    \A k \in Keys : \A i \in 1..(Len(granted[k]) - Limit) :
       granted[k][i + Limit] - granted[k][i] > Window

(* A request is refused only when the window that ends with it holds Limit  *)
(* requests that were let through; refused requests cost nothing.           *)
RefusedOnlyWhenFull ==
    [][\A k \in Keys : reply'[k] # reply[k] /\ ~reply'[k].ok =>
          /\ Len(granted[k]) >= Limit
          /\ granted[k][Len(granted[k]) - Limit + 1] + Window >= now]_vars

(* A client that was told it has requests remaining is not refused next.   *)
RemainingIsKept ==
    [][\A k \in Keys : reply[k].ok /\ reply[k].remaining > 0 =>
          reply'[k].ok]_vars

(* What a client is told holds: a refusal is justified, a remainder kept.  *)
AnswersAreHonest == RefusedOnlyWhenFull /\ RemainingIsKept

(* app/auth.py:182: "Reset = when the oldest entry leaves the window": a    *)
(* client that waits until then is let through.                             *)
ResetIsKept ==
    [][\A k \in Keys : (Refuse(k) /\ ~reply[k].ok) =>
          now < reply[k].reset * Second]_vars

=============================================================================
