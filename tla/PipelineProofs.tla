--------------------------- MODULE PipelineProofs ---------------------------
(***************************************************************************)
(* Theorems about PagePool, for documents of any number of pages and any   *)
(* contents, and about PageWork, for any pages in the pool.                *)
(***************************************************************************)
EXTENDS PagePool, PageWork, ConcatenationProofs, FiniteSetTheorems

-----------------------------------------------------------------------------
(* MERGING.                                                                *)

Word == Nat \X Nat
LineType == [words : Seq(Word), ends : BOOLEAN, starts : BOOLEAN]
PageType == [text : BOOLEAN, lines : Seq(LineType), table : BOOLEAN]

(* The pieces of a page are a sequence of words.                           *)
LEMMA PiecesType ==
    ASSUME NEW p \in PageType
    PROVE  Pieces(p) \in Seq(Word)
<1> DEFINE w == [l \in DOMAIN p.lines |-> p.lines[l].words]
<1>1. Len(p.lines) \in Nat /\ DOMAIN p.lines = 1..Len(p.lines)
  BY DEF PageType
<1>2. \A l \in 1..Len(p.lines) : w[l] \in Seq(Word)
  <2>1. \A l \in 1..Len(p.lines) : p.lines[l] \in LineType
    BY DEF PageType
  <2>2. \A line \in LineType : line.words \in Seq(Word)
    BY DEF LineType
  <2> QED
    BY <1>1, <2>1, <2>2
<1>3. Pieces(p) = Concatenated(w, Len(p.lines))
  BY DEF Pieces
<1> HIDE DEF w
<1> QED
  BY <1>1, <1>2, <1>3, ConcatenatedType

(* Taking the last line of a page takes its pieces, and nothing else.      *)
LEMMA WithoutLastKeeps ==
    ASSUME NEW p \in PageType, p.lines # <<>>
    PROVE  /\ WithoutLast(p) \in PageType
           /\ LastLine(p) \in LineType
           /\ WithoutLast(p).text = p.text /\ WithoutLast(p).table = p.table
           /\ Pieces(p) = Pieces(WithoutLast(p)) \o LastLine(p).words
<1> DEFINE q == WithoutLast(p)
           n == Len(p.lines)
           w == [l \in DOMAIN p.lines |-> p.lines[l].words]
           v == [l \in DOMAIN q.lines |-> q.lines[l].words]
<1>1. n \in Nat \ {0} /\ DOMAIN p.lines = 1..n /\ n - 1 \in Nat
  BY DEF PageType
<1>2. q.lines = SubSeq(p.lines, 1, n - 1)
  BY DEF WithoutLast, PageType
<1>3. /\ q.lines \in Seq(LineType) /\ Len(q.lines) = n - 1
      /\ \A l \in 1..(n - 1) : q.lines[l] = p.lines[l]
  <2>1. PICK ls \in Seq(LineType) : ls = p.lines
    BY DEF PageType
  <2>2. Len(ls) = n /\ n - 1 \in Int /\ n - 1 <= Len(ls)
    BY <1>1, <2>1
  <2>3. /\ SubSeq(ls, 1, n - 1) \in Seq(LineType)
        /\ Len(SubSeq(ls, 1, n - 1)) = n - 1
        /\ \A l \in 1..(n - 1) : SubSeq(ls, 1, n - 1)[l] = ls[l]
    <3> HIDE DEF n
    <3> QED
      BY <1>1, <2>2
  <2> QED
    BY <1>2, <2>1, <2>3
<1>4. DOMAIN q.lines = 1..(n - 1)
  BY <1>3
<1>5. q \in PageType /\ q.text = p.text /\ q.table = p.table
  BY <1>2, <1>3 DEF PageType, WithoutLast
<1>6. LastLine(p) = p.lines[n] /\ LastLine(p) \in LineType
  BY <1>1 DEF LastLine, PageType
<1>7. w[n] = LastLine(p).words
  BY <1>1, <1>6
<1>8. \A l \in 1..(n - 1) : v[l] = w[l]
  BY <1>1, <1>3, <1>4
<1>9. Pieces(p) = Concatenated(w, n) /\ Pieces(q) = Concatenated(v, n - 1)
  BY <1>3 DEF Pieces
<1> HIDE DEF q, n, w, v
<1>10. Concatenated(v, n - 1) = Concatenated(w, n - 1)
  BY <1>1, <1>8, ConcatenatedSame
<1>11. Concatenated(w, n) = Concatenated(w, n - 1) \o w[n]
  BY <1>1, ConcatenatedLast
<1>12. Pieces(p) = Pieces(q) \o LastLine(p).words
  BY <1>7, <1>9, <1>10, <1>11
<1> QED
  BY <1>5, <1>6, <1>12 DEF q

(* Putting a line in front of the first one of a page puts its pieces      *)
(* there, and nothing else.                                                *)
LEMMA WithHeadKeeps ==
    ASSUME NEW p \in PageType, p.lines # <<>>, NEW a \in LineType
    PROVE  LET q == WithHead(p, Joined(a, p.lines[1]))
           IN /\ q \in PageType /\ q.lines # <<>>
              /\ q.text = p.text /\ q.table = p.table
              /\ Pieces(q) = a.words \o Pieces(p)
<1> DEFINE q == WithHead(p, Joined(a, p.lines[1]))
           n == Len(p.lines)
           w == [l \in DOMAIN p.lines |-> p.lines[l].words]
           v == [l \in DOMAIN q.lines |-> q.lines[l].words]
<1>1. n \in Nat \ {0} /\ DOMAIN p.lines = 1..n /\ p.lines[1] \in LineType
  BY DEF PageType
<1>2. /\ Joined(a, p.lines[1]) \in LineType
      /\ Joined(a, p.lines[1]).words = a.words \o p.lines[1].words
  BY <1>1 DEF Joined, LineType
<1>3. q.lines = [p.lines EXCEPT ![1] = Joined(a, p.lines[1])]
  BY DEF WithHead, PageType
<1>4. /\ q.lines \in Seq(LineType) /\ Len(q.lines) = n
      /\ q.lines[1] = Joined(a, p.lines[1])
      /\ \A l \in 2..n : q.lines[l] = p.lines[l]
  BY <1>1, <1>2, <1>3 DEF PageType
<1>5. DOMAIN q.lines = 1..n /\ q.lines # <<>>
  BY <1>1, <1>4
<1>6. q \in PageType /\ q.text = p.text /\ q.table = p.table
  BY <1>3, <1>4 DEF PageType, WithHead
<1>7. v[1] = a.words \o w[1] /\ \A l \in 2..n : v[l] = w[l]
  <2>1. v[1] = q.lines[1].words /\ w[1] = p.lines[1].words
    BY <1>1, <1>5
  <2>2. \A l \in 2..n : v[l] = q.lines[l].words /\ w[l] = p.lines[l].words
    BY <1>1, <1>5
  <2> HIDE DEF q, v, w
  <2> QED
    BY <1>2, <1>4, <2>1, <2>2
<1>8. \A l \in 1..n : w[l] \in Seq(Word)
  <2>1. \A l \in 1..n : p.lines[l] \in LineType
    BY DEF PageType
  <2>2. \A line \in LineType : line.words \in Seq(Word)
    BY DEF LineType
  <2> QED
    BY <1>1, <2>1, <2>2
<1>9. Pieces(p) = Concatenated(w, n) /\ Pieces(q) = Concatenated(v, n)
  BY <1>4 DEF Pieces
<1>10. a.words \in Seq(Word)
  BY DEF LineType
<1> HIDE DEF q, n, w, v
<1>11. Concatenated(v, n) = a.words \o Concatenated(w, n)
  <2>1. PICK b \in Seq(Word) : b = a.words
    BY <1>10
  <2>2. InFront(b, w, v, n)
    BY <1>7, <2>1 DEF InFront
  <2>3. n \in Nat \ {0} /\ AreSequences(w, n, Word)
    BY <1>1, <1>8 DEF AreSequences
  <2>4. Concatenated(v, n) = b \o Concatenated(w, n)
    BY <2>2, <2>3, ConcatenatedFront
  <2> QED
    BY <2>1, <2>4
<1> QED
  BY <1>5, <1>6, <1>9, <1>11 DEF q

(* One pair is merged: nothing is lost, pages stay pages with or without    *)
(* text, others stay as they are, and the later page of the pair has lines. *)
Mergeable(f, k) ==
    k > 1 /\ Breaks(f[k - 1], f[k]) => f[k - 1].lines # <<>> /\ f[k].lines # <<>>

(* One boundary merge moves pieces and neither adds nor drops one.         *)
LEMMA MergeKeeps ==
    ASSUME NEW f, NEW k, f \in [Pages -> PageType], k \in Pages, Mergeable(f, k)
    PROVE  /\ Merge(f, k) \in [Pages -> PageType]
           /\ \A i \in Pages : /\ Merge(f, k)[i].text = f[i].text
                               /\ Merge(f, k)[i].table = f[i].table
                               /\ i \notin {k - 1, k} => Merge(f, k)[i] = f[i]
           /\ f[k].lines # <<>> => Merge(f, k)[k].lines # <<>>
           /\ Merge(f, k) # f => Merge(f, k)[k].text /\ Merge(f, k)[k].lines # <<>>
           /\ AllPieces(Merge(f, k)) = AllPieces(f)
<1>1. CASE ~(k > 1 /\ Breaks(f[k - 1], f[k]))
  <2>1. Merge(f, k) = f
    BY <1>1 DEF Merge
  <2> QED
    BY <2>1
<1>2. CASE k > 1 /\ Breaks(f[k - 1], f[k])
  <2> DEFINE a == LastLine(f[k - 1])
             p == WithoutLast(f[k - 1])
             q == WithHead(f[k], Joined(a, f[k].lines[1]))
             g == Merge(f, k)
             w == [i \in Pages |-> Pieces(f[i])]
             v == [i \in Pages |-> Pieces(g[i])]
  <2>1. /\ k - 1 \in Pages /\ k \in Pages /\ k \in 2..N /\ k - 1 # k
        /\ f[k - 1] \in PageType /\ f[k] \in PageType
        /\ f[k - 1].lines # <<>> /\ f[k].lines # <<>>
    BY <1>2, BoundsAssumption DEF Mergeable, Pages
  <2>2. /\ p \in PageType /\ a \in LineType
        /\ p.text = f[k - 1].text /\ p.table = f[k - 1].table
        /\ Pieces(f[k - 1]) = Pieces(p) \o a.words
    BY <2>1, WithoutLastKeeps
  <2>3. /\ q \in PageType /\ q.lines # <<>>
        /\ q.text = f[k].text /\ q.table = f[k].table
        /\ Pieces(q) = a.words \o Pieces(f[k])
    BY <2>1, <2>2, WithHeadKeeps
  <2>4. g = [f EXCEPT ![k - 1] = p, ![k] = q]
    BY <1>2 DEF Merge
  <2> HIDE DEF a, p, q
  <2>5. /\ g \in [Pages -> PageType] /\ g[k - 1] = p /\ g[k] = q
        /\ \A i \in Pages : i \notin {k - 1, k} => g[i] = f[i]
    BY <2>1, <2>2, <2>3, <2>4
  <2> HIDE DEF g
  <2>6. \A i \in Pages : g[i].text = f[i].text /\ g[i].table = f[i].table
    BY <2>2, <2>3, <2>5
  <2>7. AreSequences(w, N, Word) /\ AreSequences(v, N, Word)
    BY <2>5, PiecesType DEF AreSequences, Pages
  <2>8. MovedAt(w, v, k, N)
    <3>1. \A i \in 1..N : i \notin {k - 1, k} => w[i] = v[i]
      BY <2>5 DEF Pages
    <3>2. w[k - 1] = Pieces(f[k - 1]) /\ w[k] = Pieces(f[k])
      BY <2>1
    <3>3. v[k - 1] = Pieces(p) /\ v[k] = Pieces(q)
      BY <2>1, <2>5
    <3>4. PICK s \in Seq(Word), t \in Seq(Word), u \in Seq(Word) :
             s = Pieces(p) /\ t = a.words /\ u = Pieces(f[k])
      BY <2>1, <2>2, PiecesType DEF LineType
    <3>5. (s \o t) \o u = s \o (t \o u)
      OBVIOUS
    <3>6. w[k - 1] \o w[k] = (s \o t) \o u /\ v[k - 1] \o v[k] = s \o (t \o u)
      BY <2>2, <2>3, <3>2, <3>3, <3>4
    <3> HIDE DEF w, v
    <3> QED
      BY <3>1, <3>5, <3>6 DEF MovedAt
  <2>9. Concatenated(w, N) = Concatenated(v, N)
    <3> HIDE DEF w, v
    <3> QED
      BY <2>1, <2>7, <2>8, BoundsAssumption, ConcatenatedPair
  <2>10. AllPieces(g) = AllPieces(f)
    BY <2>9 DEF AllPieces
  <2>11. g[k].text
    BY <1>2, <2>3, <2>5 DEF Breaks
  <2> QED
    BY <2>3, <2>5, <2>6, <2>10, <2>11 DEF g
<1> QED
  BY <1>1, <1>2

(* What MergedUpTo(f, n) builds step by step, as above.                    *)
Merging(f, n, h) ==
    h = [k \in 0..n |-> IF k = 0 THEN f ELSE Merge(h[k - 1], k)]
Further(f, n, h) ==
    [k \in 0..(n + 1) |-> IF k = 0 THEN f ELSE Merge(h[k - 1], k)]

(* A merge of pages is continued by one boundary.                          *)
LEMMA MergingStep ==
    ASSUME NEW f, NEW n \in Nat, NEW h, Merging(f, n, h)
    PROVE  /\ Merging(f, n + 1, Further(f, n, h))
           /\ Further(f, n, h)[n] = h[n]
<1> DEFINE g == [k \in 0..(n + 1) |-> IF k = 0 THEN f ELSE Merge(h[k - 1], k)]
<1>1. \A k \in 0..n : g[k] = h[k]
  BY DEF Merging
<1>2. \A k \in 0..(n + 1) :
         (IF k = 0 THEN f ELSE Merge(h[k - 1], k))
           = (IF k = 0 THEN f ELSE Merge(g[k - 1], k))
  <2> HIDE DEF g
  <2> QED
    BY <1>1
<1>3. Merging(f, n + 1, g)
  <2>1. g = [k \in 0..(n + 1) |-> IF k = 0 THEN f ELSE Merge(g[k - 1], k)]
    BY <1>2
  <2> HIDE DEF g
  <2> QED
    BY <2>1 DEF Merging
<1>4. g = Further(f, n, h)
  BY DEF Further
<1> HIDE DEF g
<1>5. n \in 0..n
  OBVIOUS
<1>6. g[n] = h[n]
  BY <1>1, <1>5
<1> QED
  BY <1>3, <1>4, <1>6

(* What a merge of pages holds after each boundary.                        *)
LEMMA MergingAt ==
    ASSUME NEW f, NEW n, NEW h, n \in Nat, Merging(f, n, h)
    PROVE  h[0] = f /\ \A k \in 0..(n - 1) : h[k + 1] = Merge(h[k], k + 1)
<1>1. h[0] = f
  BY DEF Merging
<1>2. ASSUME NEW k \in 0..(n - 1)
      PROVE  h[k + 1] = Merge(h[k], k + 1)
  <2>1. k + 1 \in 0..n /\ k + 1 # 0 /\ (k + 1) - 1 = k
    OBVIOUS
  <2>2. h[k + 1] = IF k + 1 = 0 THEN f ELSE Merge(h[(k + 1) - 1], k + 1)
    BY <2>1 DEF Merging
  <2> QED
    BY <2>1, <2>2
<1> QED
  BY <1>1, <1>2

(* For every number of boundaries there is a merge.                        *)
LEMMA MergingExists ==
    ASSUME NEW f, NEW n \in Nat
    PROVE  \E h : Merging(f, n, h)
<1> DEFINE S == {m \in 0..n : \E h : Merging(f, m, h)}
<1>1. 0 \in S
  <2> DEFINE g == [k \in 0..0 |-> f]
  <2>1. \A k \in 0..0 : f = IF k = 0 THEN f ELSE Merge(g[k - 1], k)
    OBVIOUS
  <2>2. g = [k \in 0..0 |-> IF k = 0 THEN f ELSE Merge(g[k - 1], k)]
    BY <2>1
  <2>3. 0 \in 0..n
    OBVIOUS
  <2> HIDE DEF g
  <2> QED
    BY <2>2, <2>3 DEF Merging
<1>2. ASSUME NEW m \in 0..n, m # n, m \in S
      PROVE  m + 1 \in S
  BY <1>2, MergingStep
<1>3. n \in S
  <2> HIDE DEF S
  <2> QED
    BY <1>1, <1>2, Induction
<1> QED
  BY <1>3

(* and only one.                                                           *)
LEMMA MergingIsUnique ==
    ASSUME NEW f, NEW n \in Nat, NEW g, NEW h,
           Merging(f, n, g), Merging(f, n, h)
    PROVE  g = h
<1> DEFINE S == {m \in 0..n : g[m] = h[m]}
<1>0. /\ g[0] = f /\ \A k \in 0..(n - 1) : g[k + 1] = Merge(g[k], k + 1)
      /\ h[0] = f /\ \A k \in 0..(n - 1) : h[k + 1] = Merge(h[k], k + 1)
  BY MergingAt
<1>1. 0 \in S
  BY <1>0
<1>2. ASSUME NEW m \in 0..n, m # n, m \in S
      PROVE  m + 1 \in S
  <2>1. m \in 0..(n - 1) /\ m + 1 \in 0..n /\ g[m] = h[m]
    BY <1>2
  <2> QED
    BY <2>1, <1>0
<1>3. \A m \in 0..n : g[m] = h[m]
  <2>1. 0..n \subseteq S
    <3> HIDE DEF S
    <3> QED
      BY <1>1, <1>2, Induction
  <2> QED
    BY <2>1
<1> QED
  BY <1>3 DEF Merging

(* MergedUpTo computes it.                                                 *)
LEMMA MergedIsMerging ==
    ASSUME NEW f, NEW n \in Nat, NEW h, Merging(f, n, h)
    PROVE  MergedUpTo(f, n) = h[n]
<1> DEFINE upTo == CHOOSE g : g = [k \in 0..n |->
                                     IF k = 0 THEN f ELSE Merge(g[k - 1], k)]
<1>1. Merging(f, n, upTo)
  BY DEF Merging
<1>2. MergedUpTo(f, n) = upTo[n]
  BY DEF MergedUpTo
<1> HIDE DEF upTo
<1> QED
  BY <1>1, <1>2, MergingIsUnique

(* Before the first boundary nothing is merged.                            *)
LEMMA MergedNone == ASSUME NEW f PROVE MergedUpTo(f, 0) = f
<1>1. PICK h : Merging(f, 0, h)
  BY MergingExists
<1> QED
  BY <1>1, MergedIsMerging, MergingAt

(* MergedUpTo, one boundary further.                                       *)
LEMMA MergedNext ==
    ASSUME NEW f, NEW n \in Nat
    PROVE  MergedUpTo(f, n + 1) = Merge(MergedUpTo(f, n), n + 1)
<1>1. PICK h : Merging(f, n, h)
  BY MergingExists
<1> DEFINE g == Further(f, n, h)
<1>2. Merging(f, n + 1, g) /\ g[n] = h[n]
  BY <1>1, MergingStep
<1>3. n + 1 \in Nat /\ n \in 0..((n + 1) - 1)
  OBVIOUS
<1>4. \A k \in 0..((n + 1) - 1) : g[k + 1] = Merge(g[k], k + 1)
  <2> HIDE DEF g
  <2> QED
    BY <1>2, <1>3, MergingAt
<1>5. MergedUpTo(f, n) = h[n]
  BY <1>1, MergedIsMerging
<1>6. MergedUpTo(f, n + 1) = g[n + 1]
  <2> HIDE DEF g
  <2> QED
    BY <1>2, <1>3, MergedIsMerging
<1> HIDE DEF g
<1> QED
  BY <1>2, <1>3, <1>4, <1>5, <1>6

(* A document as the backend reads it: a page has lines when it has text.   *)
Document(f) ==
    /\ f \in [Pages -> PageType]
    /\ \A i \in Pages : f[i] # Missing /\ (f[i].text => f[i].lines # <<>>)

(* What the first k merges of a document leave: the text in its order, the  *)
(* pages with and without text, the pages behind k, lines on page k, and    *)
(* lines on some page if there is any text at all.                          *)
LeavesIntact(f, g, k) ==
    /\ g \in [Pages -> PageType]
    /\ AllPieces(g) = AllPieces(f)
    /\ \A i \in Pages : g[i].text = f[i].text /\ g[i].table = f[i].table
    /\ \A i \in Pages : i > k => g[i] = f[i]
    /\ k > 0 => (g[k].text => g[k].lines # <<>>)
    /\ (\E i \in Pages : f[i].text) => \E i \in Pages : g[i].text /\ g[i].lines # <<>>

(* Merging any number of boundaries keeps every piece in its order.        *)
LEMMA MergedLeavesIntact ==
    ASSUME NEW f, NEW n, Document(f), n \in 0..N
    PROVE  LeavesIntact(f, MergedUpTo(f, n), n)
<1> USE BoundsAssumption
<1> DEFINE T == {k \in 0..N : LeavesIntact(f, MergedUpTo(f, k), k)}
<1>1. 0 \in T
  BY MergedNone DEF LeavesIntact, Document, Pages
<1>2. ASSUME NEW k \in 0..N, k # N, k \in T
      PROVE  k + 1 \in T
  <2> DEFINE g == MergedUpTo(f, k)
             h == Merge(g, k + 1)
  <2>1. /\ k \in Nat /\ k + 1 \in Pages /\ k + 1 \in 0..N
        /\ (k + 1) - 1 = k
    BY <1>2 DEF Pages
  <2>2. MergedUpTo(f, k + 1) = h
    BY <2>1, MergedNext
  <2>3. LeavesIntact(f, g, k)
    BY <1>2
  <2> HIDE DEF g
  <2>4. g[k + 1] = f[k + 1] /\ (g[k + 1].text => g[k + 1].lines # <<>>)
    BY <2>1, <2>3 DEF LeavesIntact, Document
  <2>5. Mergeable(g, k + 1)
    BY <2>1, <2>3, <2>4 DEF Mergeable, LeavesIntact, Breaks
  <2>6. /\ h \in [Pages -> PageType]
        /\ \A i \in Pages : /\ h[i].text = g[i].text
                            /\ h[i].table = g[i].table
                            /\ i \notin {k, k + 1} => h[i] = g[i]
        /\ g[k + 1].lines # <<>> => h[k + 1].lines # <<>>
        /\ h # g => h[k + 1].text /\ h[k + 1].lines # <<>>
        /\ AllPieces(h) = AllPieces(g)
    BY <2>1, <2>3, <2>5, MergeKeeps DEF LeavesIntact
  <2> HIDE DEF h
  <2>7. LeavesIntact(f, h, k + 1)
    <3>1. \A i \in Pages : i > k + 1 => h[i] = f[i]
      BY <2>1, <2>3, <2>6 DEF LeavesIntact, Pages
    <3>2. h[k + 1].text => h[k + 1].lines # <<>>
      BY <2>1, <2>4, <2>6
    <3>3. (\E i \in Pages : f[i].text) => \E i \in Pages : h[i].text /\ h[i].lines # <<>>
      BY <2>1, <2>3, <2>6 DEF LeavesIntact
    <3>4. \A i \in Pages : h[i].text = f[i].text /\ h[i].table = f[i].table
      BY <2>3, <2>6 DEF LeavesIntact
    <3>5. AllPieces(h) = AllPieces(f)
      BY <2>3, <2>6 DEF LeavesIntact
    <3> QED
      BY <2>6, <3>1, <3>2, <3>3, <3>4, <3>5 DEF LeavesIntact
  <2> QED
    BY <2>1, <2>2, <2>7
<1>3. 0..N \subseteq T
  <2> HIDE DEF T
  <2> QED
    BY <1>1, <1>2, Induction
<1> QED
  BY <1>3

-----------------------------------------------------------------------------
(* THE POOL.                                                               *)

Fill(r, o) == [i \in Pages |-> IF r[i] = Missing THEN o[i] ELSE r[i]]

(* Merging the pages that are there is merging the filled document.        *)
LEMMA FillMerge ==
    ASSUME NEW r, NEW o, NEW k,
           r \in [Pages -> PageType], o \in [Pages -> PageType], k \in Pages,
           r[k] # Missing, k > 1 => r[k - 1] # Missing, Mergeable(r, k)
    PROVE  /\ Fill(Merge(r, k), o) = Merge(Fill(r, o), k)
           /\ \A i \in Pages : Merge(r, k)[i] = Missing <=> r[i] = Missing
<1> DEFINE m == Merge(r, k)
           f == Fill(r, o)
<1>1. f \in [Pages -> PageType] /\ f[k] = r[k] /\ (k > 1 => f[k - 1] = r[k - 1])
  BY BoundsAssumption DEF Fill, Pages
<1>2. CASE ~(k > 1 /\ Breaks(r[k - 1], r[k]))
  BY <1>1, <1>2 DEF Merge
<1>3. CASE k > 1 /\ Breaks(r[k - 1], r[k])
  <2> DEFINE p == WithoutLast(r[k - 1])
             q == WithHead(r[k], Joined(LastLine(r[k - 1]), r[k].lines[1]))
  <2>1. k - 1 \in Pages /\ k - 1 # k
    BY <1>3, BoundsAssumption DEF Pages
  <2>2. m = [r EXCEPT ![k - 1] = p, ![k] = q]
    BY <1>3 DEF Merge
  <2>3. Merge(f, k) = [f EXCEPT ![k - 1] = p, ![k] = q]
    BY <1>1, <1>3 DEF Merge
  <2>4. /\ m \in [Pages -> PageType]
        /\ \A i \in Pages : m[i].table = r[i].table
                               /\ (i \notin {k - 1, k} => m[i] = r[i])
    BY MergeKeeps
  <2>5. m[k - 1] # Missing /\ m[k] # Missing
    BY <1>3, <2>1, <2>4 DEF Breaks, Missing
  <2> HIDE DEF p, q
  <2>6. m[k - 1] = p /\ m[k] = q
    BY <2>1, <2>2
  <2> HIDE DEF m
  <2>7. Fill(m, o) = Merge(f, k)
    <3>1. \A i \in Pages : Fill(m, o)[i] = Merge(f, k)[i]
      <4> TAKE i \in Pages
      <4>1. CASE i \in {k - 1, k}
        BY <1>1, <2>1, <2>3, <2>5, <2>6, <4>1 DEF Fill
      <4>2. CASE i \notin {k - 1, k}
        <5>1. Merge(f, k)[i] = f[i]
          BY <1>1, <2>3, <4>2
        <5> QED
          BY <2>4, <4>2, <5>1 DEF Fill
      <4> QED
        BY <4>1, <4>2
    <3> DEFINE x == Fill(m, o)
               y == Merge(f, k)
    <3>2. x \in [Pages -> PageType]
      BY <2>4 DEF Fill
    <3>3. y \in [Pages -> PageType]
      <4> HIDE DEF f
      <4>1. PICK g \in [Pages -> PageType] : g = m
        BY <2>4
      <4>2. p \in PageType /\ q \in PageType
        BY <2>1, <2>6, <4>1
      <4> QED
        BY <1>1, <2>3, <4>2
    <3>4. \A i \in Pages : x[i] = y[i]
      BY <3>1
    <3> HIDE DEF x, y
    <3>5. x = y
      BY <3>2, <3>3, <3>4
    <3> QED
      BY <3>5 DEF x, y
  <2>8. \A i \in Pages : m[i] = Missing <=> r[i] = Missing
    BY <1>3, <2>1, <2>4, <2>5
  <2> QED
    BY <2>7, <2>8 DEF m
<1> QED
  BY <1>2, <1>3

(* What the backend yields is a document.                                  *)
LEMMA InitDocument == Init => Document(ocr)
<1> SUFFICES ASSUME Init PROVE Document(ocr)
  OBVIOUS
<1>1. PICK shape \in [Pages -> Shapes] : ocr = [i \in Pages |-> Page(shape[i], i)]
  BY DEF Init
<1>2. ASSUME NEW i \in Pages
      PROVE  /\ ocr[i] \in PageType /\ ocr[i] # Missing
             /\ ocr[i].text => ocr[i].lines # <<>>
  <2> DEFINE s == shape[i]
             e == [words : {<<>>}, ends : BOOLEAN, starts : BOOLEAN]
  <2>1. ocr[i] = Page(s, i)
    BY <1>1
  <2>2. \/ s = NoText
        \/ s.lines # <<>> /\ s \in [text : {TRUE}, table : BOOLEAN, lines : Seq(e)]
    BY ShapesAssumption
  <2>3. i \in Nat
    BY DEF Pages
  <2> HIDE DEF s
  <2> DEFINE ls == [l \in 1..Len(s.lines) |->
                      [s.lines[l] EXCEPT !.words = <<<<i, l>>>>]]
  <2>4. ocr[i] = [s EXCEPT !.lines = ls]
    BY <2>1 DEF Page
  <2>5. CASE s = NoText
    <3>1. Len(s.lines) = 0
      BY <2>5 DEF NoText
    <3>2. ls = <<>>
      BY <3>1
    <3>3. ocr[i] = NoText
      BY <2>4, <2>5, <3>2 DEF NoText
    <3> QED
      BY <3>3 DEF NoText, Missing, PageType
  <2>6. CASE s.lines # <<>> /\ s \in [text : {TRUE}, table : BOOLEAN, lines : Seq(e)]
    <3>1. Len(s.lines) \in Nat \ {0} /\ \A l \in 1..Len(s.lines) : s.lines[l] \in e
      <4> HIDE DEF e
      <4>1. PICK q \in Seq(e) : q = s.lines
        BY <2>6
      <4> QED
        BY <2>6, <4>1
    <3>2. \A l \in 1..Len(s.lines) : ls[l] \in LineType
      <4> TAKE l \in 1..Len(s.lines)
      <4>1. <<<<i, l>>>> \in Seq(Word)
        BY <2>3 DEF Word
      <4>2. ls[l] = [s.lines[l] EXCEPT !.words = <<<<i, l>>>>]
        OBVIOUS
      <4>3. s.lines[l] \in e
        BY <3>1
      <4> QED
        BY <4>1, <4>2, <4>3 DEF LineType
    <3>3. ls \in Seq(LineType) /\ Len(ls) = Len(s.lines)
      <4>1. ls \in [1..Len(s.lines) -> LineType]
        BY <3>2
      <4> HIDE DEF ls
      <4> QED
        BY <3>1, <4>1
    <3>4. ls # <<>>
      BY <3>1, <3>3
    <3> HIDE DEF ls
    <3>5. /\ ocr[i].text = TRUE /\ ocr[i].lines = ls
          /\ ocr[i] \in PageType
      BY <2>4, <2>6, <3>3 DEF PageType
    <3> QED
      BY <3>4, <3>5 DEF Missing
  <2> QED
    BY <2>2, <2>5, <2>6
<1>3. ocr = [i \in Pages |-> ocr[i]]
  BY <1>1
<1> QED
  BY <1>2, <1>3 DEF Document

(* The inductive invariant: the pages before next are all there, the filled *)
(* document is the first next - 1 merges of what the backend yields, and    *)
(* once the breaker has tripped no page with text is among those taken.     *)
PoolInv ==
    /\ TypeOK
    /\ Document(ocr)
    /\ results \in [Pages -> PageType]
    /\ file \in Seq(PageType)
    /\ \A i \in Pages : i < next => results[i] # Missing
    /\ Filled = MergedUpTo(ocr, next - 1)
    /\ main = "done" => next = N + 1
    /\ main \in {"cancel", "raised"} =>
          \A i \in Pages : stage[i] = "taken" => ~ocr[i].text

(* At the start no page is read and nothing merged.                        *)
LEMMA InitPoolInv == Init => PoolInv
<1> SUFFICES ASSUME Init PROVE PoolInv
  OBVIOUS
<1> USE BoundsAssumption
<1>1. Document(ocr)
  BY InitDocument
<1>2. results \in [Pages -> PageType] /\ \A i \in Pages : results[i] = Missing
  BY DEF Init, Missing, PageType
<1>3. Filled = MergedUpTo(ocr, next - 1)
  <2>1. Filled = ocr
    BY <1>1, <1>2 DEF Filled, Document
  <2>2. next - 1 = 0
    BY DEF Init
  <2> QED
    BY <2>1, <2>2, MergedNone
<1>4. TypeOK
  BY <1>2 DEF Init, TypeOK
<1>5. file \in Seq(PageType)
  BY DEF Init
<1>6. next = 1 /\ main = "collect"
  BY DEF Init
<1> QED
  BY <1>1, <1>2, <1>3, <1>4, <1>5, <1>6 DEF PoolInv, Pages

(* Steps that touch neither results nor next.                              *)
LEMMA FilledStays ==
    ASSUME PoolInv, UNCHANGED <<ocr, results, next>>
    PROVE  /\ Document(ocr)' /\ results' \in [Pages -> PageType]
           /\ (\A i \in Pages : i < next => results[i] # Missing)'
           /\ (Filled = MergedUpTo(ocr, next - 1))'
<1>1. Filled' = Filled
  BY DEF Filled
<1>2. MergedUpTo(ocr, next - 1)' = MergedUpTo(ocr, next - 1)
  BY DEF MergedUpTo, Merge, Breaks, LastLine, WithHead, WithoutLast, Joined
<1> QED
  BY <1>1, <1>2 DEF PoolInv, Document, PageType, LineType, Word

LEMMA ThreadStep == ASSUME PoolInv, NEW i \in Pages, StartPage(i) \/ FinishPage(i)
                    PROVE  PoolInv'
<1>1. UNCHANGED <<ocr, results, next, file, main, cursor>>
  BY DEF StartPage, FinishPage
<1>2. /\ stage' \in [Pages -> {"queued", "running", "finished", "taken", "cancelled"}]
      /\ \A j \in Pages : stage'[j] = "taken" <=> stage[j] = "taken"
  BY DEF StartPage, FinishPage, PoolInv, TypeOK
<1>3. TypeOK'
  BY <1>1, <1>2 DEF PoolInv, TypeOK
<1> QED
  BY <1>1, <1>2, <1>3, FilledStays DEF PoolInv

LEMMA CancelStep == ASSUME PoolInv, CancelPage PROVE PoolInv'
<1> USE BoundsAssumption
<1>1. UNCHANGED <<ocr, results, next, file, main>> /\ cursor' = cursor + 1 /\ cursor <= N
  BY DEF CancelPage
<1>2. /\ stage' \in [Pages -> {"queued", "running", "finished", "taken", "cancelled"}]
      /\ \A j \in Pages : stage'[j] = "taken" <=> stage[j] = "taken"
  BY DEF CancelPage, PoolInv, TypeOK, Pages
<1>3. TypeOK'
  BY <1>1, <1>2 DEF PoolInv, TypeOK
<1> QED
  BY <1>1, <1>2, <1>3, FilledStays DEF PoolInv

LEMMA RaiseStep == ASSUME PoolInv, Raise PROVE PoolInv'
<1>1. UNCHANGED <<ocr, stage, results, next, file, cursor>> /\ main = "cancel" /\ main' = "raised"
  BY DEF Raise
<1>2. TypeOK'
  BY <1>1 DEF PoolInv, TypeOK
<1> QED
  BY <1>1, <1>2, FilledStays DEF PoolInv

(* The loop ends with all pages taken only behind the last page.           *)
LEMMA StopWritingStep == ASSUME PoolInv, StopWriting PROVE PoolInv'
<1> USE BoundsAssumption
<1>1. UNCHANGED <<ocr, stage, results, next, file, cursor>> /\ main' \in {"done", "collect"}
  BY DEF StopWriting
<1>2. TypeOK'
  BY <1>1 DEF PoolInv, TypeOK
<1>3. main' = "done" => next' = N + 1
  BY <1>1 DEF StopWriting, PoolInv, TypeOK, Pages
<1> QED
  BY <1>1, <1>2, <1>3, FilledStays DEF PoolInv

(* The breaker trips only before any page with text was taken.             *)
LEMMA TakeStep == ASSUME PoolInv, NEW i \in Pages, Take(i) PROVE PoolInv'
<1>1. /\ UNCHANGED <<ocr, next, file, cursor>> /\ main = "collect"
      /\ stage[i] = "finished" /\ results[i] = Missing
      /\ stage' = [stage EXCEPT ![i] = "taken"]
      /\ results' = [results EXCEPT ![i] = ocr[i]]
      /\ main' = IF Trips(i) THEN "cancel" ELSE "write"
  BY DEF Take, PoolInv, TypeOK
<1>2. ocr[i] \in PageType /\ ocr[i] # Missing
  BY DEF PoolInv, Document
<1>3. /\ results' \in [Pages -> PageType]
      /\ results'[i] # Missing /\ \A j \in Pages : j # i => results'[j] = results[j]
  BY <1>1, <1>2 DEF PoolInv
<1>4. TypeOK'
  BY <1>1, <1>3 DEF PoolInv, TypeOK
<1>5. Filled' = Filled
  BY <1>1, <1>3 DEF Filled
<1>6. MergedUpTo(ocr, next - 1)' = MergedUpTo(ocr, next - 1)
  BY <1>1 DEF MergedUpTo, Merge, Breaks, LastLine, WithHead, WithoutLast, Joined
<1>7. main' \in {"cancel", "raised"} => \A j \in Pages : stage'[j] = "taken" => ~ocr[j].text
  BY <1>1 DEF Trips, Taken, PoolInv, TypeOK
<1> QED
  BY <1>1, <1>3, <1>4, <1>5, <1>6, <1>7 DEF PoolInv, Document, PageType, LineType, Word

LEMMA WriteStep == ASSUME PoolInv, WritePage PROVE PoolInv'
<1> USE BoundsAssumption
<1>1. /\ UNCHANGED <<ocr, stage, main, cursor>> /\ main = "write"
      /\ next \in Pages /\ results[next] # Missing
      /\ results' = Merge(results, next)
      /\ file' = Append(file, results'[next]) /\ next' = next + 1
  BY DEF WritePage, PoolInv, TypeOK, Pages
<1>2. next > 1 => next - 1 \in Pages /\ results[next - 1] # Missing
  BY <1>1 DEF PoolInv, Pages
<1>3. LeavesIntact(ocr, Filled, next - 1)
  BY <1>1, MergedLeavesIntact DEF PoolInv, Pages
<1>4. Filled[next] = results[next] /\ (next > 1 => Filled[next - 1] = results[next - 1])
  BY <1>1, <1>2 DEF Filled
<1>5. Mergeable(results, next)
  <2>1. Filled[next] = ocr[next]
    BY <1>1, <1>3 DEF LeavesIntact, Pages
  <2>2. results[next].text => results[next].lines # <<>>
    BY <1>1, <1>4, <2>1 DEF PoolInv, Document
  <2>3. next > 1 /\ results[next - 1].text => results[next - 1].lines # <<>>
    BY <1>1, <1>3, <1>4 DEF LeavesIntact, Pages
  <2> QED
    BY <2>2, <2>3 DEF Mergeable, Breaks
<1>6. results \in [Pages -> PageType] /\ ocr \in [Pages -> PageType]
  BY DEF PoolInv, Document
<1>7. results' \in [Pages -> PageType]
  BY <1>1, <1>5, <1>6, MergeKeeps
<1>8. /\ Fill(results', ocr) = Merge(Fill(results, ocr), next)
      /\ \A i \in Pages : results'[i] = Missing <=> results[i] = Missing
  BY <1>1, <1>2, <1>5, <1>6, FillMerge
<1>9. Filled = Fill(results, ocr) /\ Filled' = Fill(results', ocr)
  BY <1>1 DEF Filled, Fill
<1>10. Filled' = Merge(MergedUpTo(ocr, next - 1), next)
  BY <1>8, <1>9 DEF PoolInv
<1>11. MergedUpTo(ocr, next) = Merge(MergedUpTo(ocr, next - 1), next)
  <2>1. next - 1 \in Nat /\ (next - 1) + 1 = next
    BY <1>1 DEF Pages
  <2> QED
    BY <2>1, MergedNext
<1>12. (Filled = MergedUpTo(ocr, next - 1))'
  <2>1. next' - 1 = next
    BY <1>1 DEF Pages
  <2>2. MergedUpTo(ocr, next - 1)' = MergedUpTo(ocr', next' - 1)
    BY DEF MergedUpTo, Merge, Breaks, LastLine, WithHead, WithoutLast, Joined
  <2>3. MergedUpTo(ocr, next - 1)' = MergedUpTo(ocr, next)
    BY <1>1, <2>1, <2>2
  <2> QED
    BY <1>10, <1>11, <2>3
<1>13. file' \in Seq(PageType) /\ Len(file') = Len(file) + 1
  BY <1>1, <1>7 DEF PoolInv
<1>14. TypeOK'
  BY <1>1, <1>8, <1>13 DEF PoolInv, TypeOK, Pages
<1>15. \A i \in Pages : i < next' => results'[i] # Missing
  BY <1>1, <1>8 DEF PoolInv, Pages
<1> QED
  BY <1>1, <1>7, <1>12, <1>13, <1>14, <1>15
     DEF PoolInv, Document, PageType, LineType, Word

(* PoolInv holds in every state, for any number of pages and threads and   *)
(* any document.                                                           *)
THEOREM PoolInvariance == Spec => []PoolInv
<1>1. ASSUME PoolInv, [Next]_vars PROVE PoolInv'
  <2>1. CASE UNCHANGED vars
    <3>1. UNCHANGED <<ocr, stage, results, next, file, main, cursor>>
      BY <2>1 DEF vars
    <3>2. TypeOK'
      BY <1>1, <3>1 DEF PoolInv, TypeOK
    <3> QED
      BY <1>1, <3>1, <3>2, FilledStays DEF PoolInv
  <2>2. CASE Thread
    BY <1>1, <2>2, ThreadStep DEF Thread
  <2>3. CASE Main
    BY <1>1, <2>3, TakeStep, WriteStep, StopWritingStep, CancelStep, RaiseStep DEF Main
  <2> QED
    BY <1>1, <2>1, <2>2, <2>3 DEF Next
<1> QED
  BY InitPoolInv, <1>1, PTL DEF Spec

(* What run_ocr keeps: the pages as they will read once all are in.        *)
LEMMA FilledIntact == ASSUME PoolInv PROVE LeavesIntact(ocr, Filled, next - 1)
<1>1. next - 1 \in 0..N
  BY BoundsAssumption DEF PoolInv, TypeOK
<1> QED
  BY <1>1, MergedLeavesIntact DEF PoolInv

(* When run_ocr returns every page is filled in and merged.                *)
LEMMA DoneIsFilled == ASSUME PoolInv, main = "done" PROVE results = Filled /\ next - 1 = N
<1>1. next = N + 1
  BY DEF PoolInv
<1>2. \A i \in Pages : results[i] # Missing
  BY <1>1, BoundsAssumption DEF PoolInv, Pages
<1>3. results \in [Pages -> PageType]
  BY DEF PoolInv
<1>4. results = Filled
  BY <1>2, <1>3 DEF Filled
<1> QED
  BY <1>1, <1>4, BoundsAssumption

(* Exactly the taken pages are present, one chunk is written per page that  *)
(* next_to_write has passed, and every control variable keeps its type.     *)
THEOREM PoolTypeCorrect == Spec => []TypeOK
<1>1. PoolInv => TypeOK
  BY DEF PoolInv
<1> QED
  BY PoolInvariance, <1>1, PTL

(* Merging across page boundaries while threads complete in any order       *)
(* never loses, repeats or reorders a piece of text of any document.        *)
THEOREM TextIsPreserved == Spec => []TextPreserved
<1>1. PoolInv => TextPreserved
  BY FilledIntact DEF LeavesIntact, TextPreserved
<1> QED
  BY PoolInvariance, <1>1, PTL

(* A document that run_ocr returns is the one that merging its pages one    *)
(* after the other gives, in whatever order the threads completed.          *)
THEOREM OrderDoesNotShow == Spec => []OrderIrrelevant
<1>1. PoolInv => OrderIrrelevant
  <2> SUFFICES ASSUME PoolInv, main = "done" PROVE results = Sequential
    BY DEF OrderIrrelevant
  <2>1. results = Filled /\ next - 1 = N
    BY DoneIsFilled
  <2>2. Filled = MergedUpTo(ocr, next - 1)
    BY DEF PoolInv
  <2> QED
    BY <2>1, <2>2 DEF Sequential
<1> QED
  BY PoolInvariance, <1>1, PTL

(* If the backend read any page, the document has a page with text in the   *)
(* end; the breaker trips only when every page taken came without text.     *)
THEOREM WhatWasReadCounts == Spec => []SuccessCounts
<1>1. ASSUME PoolInv, main = "done", \E i \in Pages : ocr[i].text
      PROVE  PagesOk # {}
  <2>1. LeavesIntact(ocr, Filled, next - 1) /\ results = Filled
    BY <1>1, FilledIntact, DoneIsFilled
  <2> QED
    BY <1>1, <2>1 DEF LeavesIntact, PagesOk
<1>2. PoolInv => SuccessCounts
  BY <1>1 DEF PoolInv, SuccessCounts
<1> QED
  BY PoolInvariance, <1>2, PTL

-----------------------------------------------------------------------------
(* THE TEMPORARY FILES OF A PAGE (PageWork).                               *)

(* The list of strategies has five entries.                                *)
LEMMA FiveStrategies == Cardinality(Strategies) = 5
  <1>1. 1 \in Int /\ 5 \in Int
    OBVIOUS
  <1>2. Cardinality(1..5) = IF 1 > 5 THEN 0 ELSE 5 - 1 + 1
    BY <1>1, FS_Interval, Zenon
  <1> QED
    BY <1>2 DEF Strategies

(* A cleanup reaches the files of its own page.                            *)
LEMMA OwnGlob ==
  ASSUME NEW p \in PoolPages
  PROVE  BeginsWith(p, p)
  <1>1. p \in Nat
    BY PagesAssumption
  <1>2. p \div 1 = p
    BY <1>1
  <1> QED
    BY <1>2 DEF BeginsWith

-----------------------------------------------------------------------------
LEMMA InitTyped == WorkInit => WorkTypeOK
  BY DEF WorkInit, WorkTypeOK, Ended, Strategies, ColumnSplit

(* No strategy past the list, whatever order the threads run in.           *)
LEMMA StepTyped ==
  ASSUME WorkTypeOK, NEW p \in PoolPages, Step(p)
  PROVE  WorkTypeOK'
  <1> USE DEF WorkTypeOK, Stay, Go, Ended, Kinds, Ask, NoSplitResult
  <1>1. CASE Save(p) BY <1>1 DEF Save
  <1>2. CASE SaveRaises(p) BY <1>2 DEF SaveRaises
  <1>3. CASE OpenWork(p) BY <1>3 DEF OpenWork
  <1>4. CASE RewriteWork(p) BY <1>4 DEF RewriteWork
  <1>5. CASE MakeGray(p) BY <1>5 DEF MakeGray
  <1>6. CASE Answer(p) BY <1>6 DEF Answer
  <1>7. CASE NothingToAsk(p) BY <1>7 DEF NothingToAsk
  <1>8. CASE CleanupOk(p) BY <1>8 DEF CleanupOk
  <1>9. CASE Cleanup(p)
    BY <1>9, FiveStrategies DEF Cleanup, Strategies, ColumnSplit
  <1>10. CASE SplitSave(p) BY <1>10 DEF SplitSave
  <1>11. CASE SplitRaises(p) BY <1>11 DEF SplitRaises
  <1>12. CASE Halves(p) BY <1>12 DEF Halves, Strategies
  <1>13. CASE AskHalves(p) BY <1>13 DEF AskHalves, Strategies
  <1> QED
    BY <1>1, <1>2, <1>3, <1>4, <1>5, <1>6, <1>7, <1>8, <1>9, <1>10, <1>11,
       <1>12, <1>13 DEF Step

(* Every variable keeps its type for every set of pages.                   *)
THEOREM WorkTypeCorrect == WorkSpec => []WorkTypeOK
  <1>1. WorkTypeOK /\ [WorkNext]_workVars => WorkTypeOK'
    BY StepTyped DEF WorkNext, WorkTypeOK, workVars
  <1> QED
    BY InitTyped, <1>1, PTL DEF WorkSpec

-----------------------------------------------------------------------------
(* What the step of one page leaves to another: everything but files that   *)
(* its glob reaches, and those it can only remove.                          *)
LEMMA OtherPage ==
  ASSUME WorkTypeOK, NEW p \in PoolPages, NEW q \in PoolPages, p # q, Step(q)
  PROVE  /\ at'[p] = at[p] /\ strategy'[p] = strategy[p] /\ asked'[p] = asked[p]
         /\ \A kind \in Kinds : Has(p, kind)' => Has(p, kind)
         /\ Alone(p) => \A kind \in Kinds : Has(p, kind) => Has(p, kind)'
  <1> USE DEF WorkTypeOK, Stay, Go, Ask, NoSplitResult, Has
  <1>0. Alone(p) => \A kind \in Kinds : <<p, kind>> \notin Glob(q)
    BY DEF Alone, Glob
  <1> DEFINE Kept == /\ at'[p] = at[p] /\ strategy'[p] = strategy[p]
                     /\ asked'[p] = asked[p]
  <1>a. ASSUME files' \subseteq files \cup {<<q, kind>> : kind \in Kinds}
        PROVE  \A kind \in Kinds : Has(p, kind)' => Has(p, kind)
    BY <1>a
  <1>b. ASSUME files \ ({<<q, kind>> : kind \in Kinds} \cup Glob(q)) \subseteq files'
        PROVE  Alone(p) => \A kind \in Kinds : Has(p, kind) => Has(p, kind)'
    BY <1>b, <1>0
  <1>c. /\ Kept
        /\ files' \subseteq files \cup {<<q, kind>> : kind \in Kinds}
        /\ files \ ({<<q, kind>> : kind \in Kinds} \cup Glob(q)) \subseteq files'
    <2>1. CASE Save(q) BY <2>1 DEF Save, Kinds
    <2>2. CASE SaveRaises(q) BY <2>2 DEF SaveRaises, Kinds
    <2>3. CASE OpenWork(q) BY <2>3 DEF OpenWork, Kinds
    <2>4. CASE RewriteWork(q) BY <2>4 DEF RewriteWork, Kinds
    <2>5. CASE MakeGray(q) BY <2>5 DEF MakeGray, Kinds
    <2>6. CASE Answer(q) BY <2>6 DEF Answer, Kinds
    <2>7. CASE NothingToAsk(q) BY <2>7 DEF NothingToAsk, Kinds
    <2>8. CASE CleanupOk(q) BY <2>8 DEF CleanupOk, Kinds
    <2>9. CASE Cleanup(q) BY <2>9 DEF Cleanup, Kinds
    <2>10. CASE SplitSave(q) BY <2>10 DEF SplitSave, Kinds
    <2>11. CASE SplitRaises(q) BY <2>11 DEF SplitRaises, Kinds
    <2>12. CASE Halves(q) BY <2>12 DEF Halves, Kinds
    <2>13. CASE AskHalves(q) BY <2>13 DEF AskHalves, Kinds
    <2> QED
      BY <2>1, <2>2, <2>3, <2>4, <2>5, <2>6, <2>7,
         <2>8, <2>9, <2>10, <2>11, <2>12, <2>13 DEF Step
  <1> QED
    BY <1>a, <1>b, <1>c

-----------------------------------------------------------------------------
(* The files a page has left where it stands: none between two strategies,  *)
(* and in a column split only those of its last action.                     *)
Tidy(p) ==
    /\ at[p] \in {"first", "save", "split", "ok", "failed"} =>
          \A kind \in Kinds : ~Has(p, kind)
    /\ at[p] \in {"first2", "split2"} =>
          \A kind \in Kinds \ {"work"} : ~Has(p, kind)
    /\ at[p] \in {"first3", "split3"} =>
          \A kind \in Kinds \ {"left", "right"} : ~Has(p, kind)

TidyInv == WorkTypeOK /\ \A p \in PoolPages : Tidy(p)

LEMMA TidyStep ==
  ASSUME WorkTypeOK, NEW p \in PoolPages, Tidy(p), Step(p)
  PROVE  Tidy(p)'
  <1> USE DEF WorkTypeOK, Stay, Go, Ask, NoSplitResult, Has, Tidy, Kinds
  <1>0. \A kind \in Kinds : Has(p, kind) => <<p, kind>> \in Glob(p)
    BY OwnGlob DEF Glob
  <1>1. CASE Save(p) BY <1>1, <1>0 DEF Save
  <1>2. CASE SaveRaises(p) BY <1>2, <1>0 DEF SaveRaises
  <1>3. CASE OpenWork(p) BY <1>3, <1>0 DEF OpenWork
  <1>4. CASE RewriteWork(p) BY <1>4, <1>0 DEF RewriteWork
  <1>5. CASE MakeGray(p) BY <1>5, <1>0 DEF MakeGray
  <1>6. CASE Answer(p) BY <1>6, <1>0 DEF Answer
  <1>7. CASE NothingToAsk(p) BY <1>7, <1>0 DEF NothingToAsk
  <1>8. CASE CleanupOk(p) BY <1>8, <1>0 DEF CleanupOk
  <1>9. CASE Cleanup(p) BY <1>9, <1>0 DEF Cleanup
  <1>10. CASE SplitSave(p) BY <1>10, <1>0 DEF SplitSave
  <1>11. CASE SplitRaises(p) BY <1>11, <1>0 DEF SplitRaises
  <1>12. CASE Halves(p) BY <1>12, <1>0 DEF Halves
  <1>13. CASE AskHalves(p) BY <1>13, <1>0 DEF AskHalves
  <1> QED
    BY <1>1, <1>2, <1>3, <1>4, <1>5, <1>6, <1>7, <1>8,
       <1>9, <1>10, <1>11, <1>12, <1>13 DEF Step

(* A page that came to its end has left no file, whoever cleans up when.    *)
THEOREM NothingIsLeftBehind == WorkSpec => []NoLeftovers
  <1>1. WorkInit => TidyInv
    BY InitTyped DEF WorkInit, TidyInv, Tidy, Has
  <1>2. TidyInv /\ [WorkNext]_workVars => TidyInv'
    <2> SUFFICES ASSUME TidyInv, [WorkNext]_workVars
                 PROVE  TidyInv'
      OBVIOUS
    <2>1. CASE UNCHANGED workVars
      BY <2>1 DEF TidyInv, WorkTypeOK, Tidy, Has, workVars
    <2>2. ASSUME NEW q \in PoolPages, Step(q)
          PROVE  TidyInv'
      <3>1. WorkTypeOK'
        BY <2>2, StepTyped DEF TidyInv
      <3>2. ASSUME NEW p \in PoolPages
            PROVE  Tidy(p)'
        <4>1. CASE p = q
          BY <2>2, <4>1, TidyStep DEF TidyInv
        <4>2. CASE p # q
          BY <2>2, <4>2, OtherPage DEF TidyInv, Tidy
        <4> QED
          BY <4>1, <4>2
      <3> QED
        BY <3>1, <3>2 DEF TidyInv
    <2> QED
      BY <2>1, <2>2 DEF WorkNext
  <1>3. TidyInv => NoLeftovers
    BY DEF TidyInv, Tidy, NoLeftovers, Has
  <1> QED
    BY <1>1, <1>2, <1>3, PTL DEF WorkSpec

-----------------------------------------------------------------------------
(* A page with an image that no glob of another page reaches finds every    *)
(* file it is about to open.                                                *)
Loop == {"save", "resize", "rewrite", "gray", "ask", "cleanup", "cleanok"}

FilesHere(p) ==
    /\ at[p] \in {"resize", "gray", "first2", "split2"} => Has(p, "work")
    /\ at[p] = "ask" => Has(p, Target(p))
    /\ at[p] \in {"first3", "split3"} => Has(p, "left")

(* So it asks the backend with each strategy before it goes on to the next. *)
Tried(p) ==
    /\ at[p] \in Loop =>
          /\ strategy[p] \in Strategies
          /\ \A s \in Strategies : s < strategy[p] => s \in asked[p]
    /\ at[p] = "cleanup" => strategy[p] \in asked[p]
    /\ at[p] \in {"split", "split2", "split3", "failed"} =>
          Strategies \subseteq asked[p]
    /\ at[p] = "failed" => ColumnSplit \in asked[p]
    /\ at[p] # "error"

Undisturbed(p) == p \in readable /\ Alone(p)

TriedInv ==
    /\ WorkTypeOK
    /\ \A p \in PoolPages : Undisturbed(p) => FilesHere(p) /\ Tried(p)

LEMMA TriedStep ==
  ASSUME WorkTypeOK, NEW p \in PoolPages, Undisturbed(p), FilesHere(p), Tried(p), Step(p)
  PROVE  FilesHere(p)' /\ Tried(p)'
  <1> USE DEF WorkTypeOK, Stay, Go, Ask, NoSplitResult, Has, Kinds, FilesHere,
              Tried, Loop, Target, Undisturbed
  <1>1. CASE Save(p) BY <1>1 DEF Save
  <1>2. CASE SaveRaises(p) BY <1>2 DEF SaveRaises
  <1>3. CASE OpenWork(p) BY <1>3 DEF OpenWork, Strategies, ColumnSplit, Gray
  <1>4. CASE RewriteWork(p) BY <1>4 DEF RewriteWork, Strategies, ColumnSplit, Gray
  <1>5. CASE MakeGray(p) BY <1>5 DEF MakeGray, Strategies, ColumnSplit, Gray
  <1>6. CASE Answer(p) BY <1>6 DEF Answer, Strategies, ColumnSplit, Gray
  <1>7. CASE NothingToAsk(p) BY <1>7 DEF NothingToAsk
  <1>8. CASE CleanupOk(p) BY <1>8 DEF CleanupOk
  <1>9. CASE Cleanup(p)
    BY <1>9, FiveStrategies DEF Cleanup, Strategies, ColumnSplit
  <1>10. CASE SplitSave(p) BY <1>10 DEF SplitSave
  <1>11. CASE SplitRaises(p) BY <1>11 DEF SplitRaises
  <1>12. CASE Halves(p) BY <1>12 DEF Halves, Strategies, ColumnSplit, Gray
  <1>13. CASE AskHalves(p) BY <1>13 DEF AskHalves, Strategies, ColumnSplit, Gray
  <1> QED
    BY <1>1, <1>2, <1>3, <1>4, <1>5, <1>6, <1>7, <1>8,
       <1>9, <1>10, <1>11, <1>12, <1>13 DEF Step

(* A page fails only after all strategies, unless its image is unreadable   *)
(* or a page whose number its own begins with is in the pool.               *)
THEOREM FailsAfterAllStrategies == WorkSpec => []AloneFailsAfterAllStrategies
  <1>1. WorkInit => TriedInv
    BY InitTyped DEF WorkInit, TriedInv, FilesHere, Tried, Loop, Strategies
  <1>2. TriedInv /\ [WorkNext]_workVars => TriedInv'
    <2> SUFFICES ASSUME TriedInv, [WorkNext]_workVars
                 PROVE  TriedInv'
      OBVIOUS
    <2>1. CASE UNCHANGED workVars
      BY <2>1 DEF TriedInv, WorkTypeOK, Undisturbed, FilesHere, Tried, Has, Target,
                  Alone, workVars
    <2>2. ASSUME NEW q \in PoolPages, Step(q)
          PROVE  TriedInv'
      <3>1. WorkTypeOK'
        BY <2>2, StepTyped DEF TriedInv
      <3>2. readable' = readable
        BY <2>2 DEF Step, Save, SaveRaises, OpenWork, RewriteWork, MakeGray,
             Answer, NothingToAsk, CleanupOk, Cleanup, SplitSave, SplitRaises,
             Halves, AskHalves, Stay
      <3>3. ASSUME NEW p \in PoolPages, Undisturbed(p)
            PROVE  FilesHere(p)' /\ Tried(p)'
        <4>1. CASE p = q
          BY <2>2, <3>3, <4>1, TriedStep DEF TriedInv
        <4>2. CASE p # q
          BY <2>2, <3>3, <4>2, OtherPage
             DEF TriedInv, Undisturbed, FilesHere, Tried, Target, Kinds
        <4> QED
          BY <4>1, <4>2
      <3> QED
        BY <3>1, <3>2, <3>3 DEF TriedInv, Undisturbed, Alone
    <2> QED
      BY <2>1, <2>2 DEF WorkNext
  <1>3. TriedInv => AloneFailsAfterAllStrategies
    BY DEF TriedInv, Undisturbed, Tried, AloneFailsAfterAllStrategies
  <1> QED
    BY <1>1, <1>2, <1>3, PTL DEF WorkSpec

=============================================================================
