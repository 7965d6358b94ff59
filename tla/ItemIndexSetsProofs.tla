------------------------- MODULE ItemIndexSetsProofs -------------------------
(***************************************************************************)
(* Proofs about the generic operations on item indexes: merging, searching *)
(* and trees of indexes, for indexes of any length over any ids.           *)
(***************************************************************************)
EXTENDS ItemIndexSets, Induction, SequenceTheorems

\* The ids of an index from position i on.
IdsFrom(s, i) == {s[k] : k \in i .. Len(s)}

\* The flags say what to do with an id of one index only, of the other one only, and of
\* both; what is left at the end is treated like an id of one index only.
Consistent(op) ==
    /\ op.pushFirstSmaller \in BOOLEAN /\ op.pushFirstRemainder = op.pushFirstSmaller
    /\ op.pushSecondSmaller \in BOOLEAN /\ op.pushSecondRemainder = op.pushSecondSmaller
    /\ op.pushEqual \in BOOLEAN
TakesFirst(op) == op.pushFirstSmaller
TakesSecond(op) == op.pushSecondSmaller
TakesBoth(op) == op.pushEqual
Pushed(op, X, Y) ==
    {x \in X \cup Y : \/ x \in X \ Y /\ TakesFirst(op)
                      \/ x \in Y \ X /\ TakesSecond(op)
                      \/ x \in X \cap Y /\ TakesBoth(op)}

\* What is left of a merge: an ascending enumeration of the selected ids that is not longer
\* than what was read.
MergeRight(op, r, X, Y, m, n) ==
    /\ r \in Seq(Int) /\ Enumerates(r, Pushed(op, X, Y))
    /\ Len(r) <= m + n
    /\ ~TakesSecond(op) => Len(r) <= m
    /\ ~TakesFirst(op) => Len(r) <= n

-----------------------------------------------------------------------------
(* Ascending sequences                                                     *)

With(x, S) == {x} \cup S
Below(x, S) == \A y \in S : x < y

LEMMA EmptyEnumerates == <<>> \in Seq(Int) /\ Enumerates(<<>>, {}) /\ Len(<<>>) = 0
  BY DEF Enumerates, Ascending, ToSet

\* One id in front of an ascending sequence of larger ones.
LEMMA ConsEnumerates ==
    ASSUME NEW x \in Int, NEW r \in Seq(Int), NEW S, Enumerates(r, S), Below(x, S),
           NEW t, t = <<x>> \o r
    PROVE  t \in Seq(Int) /\ Enumerates(t, {x} \cup S) /\ Len(t) = Len(r) + 1
<1>1. t \in Seq(Int) /\ Len(t) = Len(r) + 1
  OBVIOUS
<1>2. t[1] = x /\ \A i \in 1 .. Len(r) : t[i + 1] = r[i]
  OBVIOUS
<1>3. DOMAIN t = 1 .. Len(r) + 1 /\ DOMAIN r = 1 .. Len(r) /\ Len(r) \in Nat
  BY <1>1
<1>4. \A i \in DOMAIN t : i = 1 \/ (i - 1 \in DOMAIN r /\ t[i] = r[i - 1])
  BY <1>2, <1>3
<1>5. \A i \in DOMAIN r : r[i] \in S
  BY DEF Enumerates, ToSet
<1>6. Ascending(t)
  <2>1. SUFFICES ASSUME NEW i \in DOMAIN t, NEW j \in DOMAIN t, i < j PROVE t[i] < t[j]
    BY DEF Ascending
  <2>2. i \in Int /\ j \in Int /\ j # 1 /\ j - 1 \in DOMAIN r /\ t[j] = r[j - 1]
    BY <1>3, <1>4, <2>1
  <2>3. CASE i = 1
    BY <1>2, <1>5, <2>2, <2>3 DEF Below
  <2>4. CASE i # 1
    <3>1. i - 1 \in DOMAIN r /\ t[i] = r[i - 1] /\ i - 1 < j - 1
      BY <1>4, <2>1, <2>2, <2>4
    <3> QED
      BY <2>2, <3>1 DEF Enumerates, Ascending
  <2> QED
    BY <2>3, <2>4
<1>7. ToSet(t) = {x} \cup S
  <2>1. ASSUME NEW y \in ToSet(t) PROVE y \in {x} \cup S
    BY <1>2, <1>4, <1>5 DEF ToSet
  <2>2. x \in ToSet(t)
    BY <1>2, <1>3 DEF ToSet
  <2>3. ASSUME NEW y \in S PROVE y \in ToSet(t)
    <3>1. PICK i \in DOMAIN r : y = r[i]
      BY DEF Enumerates, ToSet
    <3>2. i + 1 \in DOMAIN t /\ t[i + 1] = y
      BY <1>2, <1>3, <3>1
    <3> QED
      BY <3>2 DEF ToSet
  <2> QED
    BY <2>1, <2>2, <2>3
<1> QED
  BY <1>1, <1>6, <1>7 DEF Enumerates

\* Positions behind i, counted from i.
LEMMA Shift ==
    ASSUME NEW m \in Nat, NEW n \in Nat, NEW i \in Int, 1 <= i, m = n - i + 1,
           NEW k \in 1 .. m, NEW l \in 1 .. m, k < l
    PROVE  k + i - 1 \in 1 .. n /\ l + i - 1 \in 1 .. n /\ k + i - 1 < l + i - 1
  OBVIOUS

\* The rest of an ascending sequence.
LEMMA RestEnumerates ==
    ASSUME NEW s \in Seq(Int), Ascending(s), NEW i \in 1 .. Len(s) + 1,
           NEW t, t = SubSeq(s, i, Len(s))
    PROVE  t \in Seq(Int) /\ Enumerates(t, IdsFrom(s, i)) /\ Len(t) = Len(s) - i + 1
<1>1. /\ t \in Seq(Int) /\ Len(t) = Len(s) - i + 1 /\ i \in Int /\ 1 <= i /\ i <= Len(s) + 1
      /\ Len(s) \in Nat /\ Len(t) \in Nat /\ DOMAIN t = 1 .. Len(t) /\ DOMAIN s = 1 .. Len(s)
  OBVIOUS
<1>2. \A k \in 1 .. Len(t) : t[k] = s[k + i - 1]
  BY <1>1
<1>3. Ascending(t)
  <2>1. SUFFICES ASSUME NEW k \in DOMAIN t, NEW l \in DOMAIN t, k < l PROVE t[k] < t[l]
    BY DEF Ascending
  <2>2. k \in 1 .. Len(t) /\ l \in 1 .. Len(t)
    BY <1>1
  <2>3. /\ k + i - 1 \in 1 .. Len(s) /\ l + i - 1 \in 1 .. Len(s)
        /\ k + i - 1 < l + i - 1
    BY <1>1, <2>1, <2>2, Shift
  <2> QED
    BY <1>1, <1>2, <2>2, <2>3 DEF Ascending
<1>4. ToSet(t) = IdsFrom(s, i)
  <2>1. ASSUME NEW y \in ToSet(t) PROVE y \in IdsFrom(s, i)
    <3>1. PICK k \in 1 .. Len(t) : y = t[k]
      BY <1>1 DEF ToSet
    <3>2. k + i - 1 \in i .. Len(s)
      BY <1>1
    <3> QED
      BY <1>2, <3>1, <3>2 DEF IdsFrom
  <2>2. ASSUME NEW y \in IdsFrom(s, i) PROVE y \in ToSet(t)
    <3>1. PICK k \in i .. Len(s) : y = s[k]
      BY DEF IdsFrom
    <3>2. PICK j : j = k - i + 1
      OBVIOUS
    <3>3. j \in DOMAIN t /\ j + i - 1 = k
      BY ONLY <1>1, <3>2, k \in i .. Len(s)
    <3>4. t[j] = y
      BY ONLY <1>1, <1>2, <3>1, <3>3
    <3> QED
      BY ONLY <3>3, <3>4 DEF ToSet
  <2> QED
    BY <2>1, <2>2
<1> QED
  BY <1>1, <1>3, <1>4 DEF Enumerates

LEMMA FromStep ==
    ASSUME NEW s \in Seq(Int), Ascending(s), NEW i \in 1 .. Len(s)
    PROVE  /\ IdsFrom(s, i) = {s[i]} \cup IdsFrom(s, i + 1)
           /\ \A y \in IdsFrom(s, i + 1) : y \in Int /\ s[i] < y
           /\ s[i] \in Int /\ IdsFrom(s, Len(s) + 1) = {}
<1>1. i .. Len(s) = {i} \cup ((i + 1) .. Len(s)) /\ (Len(s) + 1) .. Len(s) = {}
  OBVIOUS
<1>2. ASSUME NEW y \in IdsFrom(s, i + 1) PROVE y \in Int /\ s[i] < y
  <2>1. PICK k \in (i + 1) .. Len(s) : y = s[k]
    BY DEF IdsFrom
  <2>2. k \in DOMAIN s /\ i \in DOMAIN s /\ i < k
    OBVIOUS
  <2> QED
    BY <2>1, <2>2 DEF Ascending
<1> QED
  BY <1>1, <1>2 DEF IdsFrom

LEMMA FromAll == ASSUME NEW s \in Seq(Int) PROVE IdsFrom(s, 1) = ToSet(s)
  BY DEF IdsFrom, ToSet

-----------------------------------------------------------------------------
(* The generic merge                                                       *)

Rank(f, s) == [p \in Positions(f, s) |-> Len(f) + Len(s) + 2 - p[1] - p[2]]

LEMMA RankType ==
    ASSUME NEW f \in Seq(Int), NEW s \in Seq(Int)
    PROVE  /\ Rank(f, s) \in [Positions(f, s) -> Nat]
           /\ \A p \in Positions(f, s) :
                 p[1] \in 1 .. Len(f) + 1 /\ p[2] \in 1 .. Len(s) + 1 /\ p = <<p[1], p[2]>>
           /\ \A i \in 1 .. Len(f) + 1, j \in 1 .. Len(s) + 1 :
                 <<i, j>> \in Positions(f, s) /\ Rank(f, s)[<<i, j>>] = Len(f) + Len(s) + 2 - i - j
  BY DEF Rank, Positions

\* The positions a step of the merge may go to.
LEMMA NextPositions ==
    ASSUME NEW f \in Seq(Int), NEW s \in Seq(Int), NEW i \in 1 .. Len(f), NEW j \in 1 .. Len(s)
    PROVE  /\ <<i + 1, j>> \in Positions(f, s) /\ Rank(f, s)[<<i + 1, j>>] < Rank(f, s)[<<i, j>>]
           /\ <<i, j + 1>> \in Positions(f, s) /\ Rank(f, s)[<<i, j + 1>>] < Rank(f, s)[<<i, j>>]
           /\ <<i + 1, j + 1>> \in Positions(f, s)
           /\ Rank(f, s)[<<i + 1, j + 1>>] < Rank(f, s)[<<i, j>>]
<1>1. /\ i + 1 \in 1 .. Len(f) + 1 /\ j + 1 \in 1 .. Len(s) + 1
      /\ i \in 1 .. Len(f) + 1 /\ j \in 1 .. Len(s) + 1
  OBVIOUS
<1>2. /\ Rank(f, s)[<<i, j>>] = Len(f) + Len(s) + 2 - i - j
      /\ Rank(f, s)[<<i + 1, j>>] = Len(f) + Len(s) + 2 - (i + 1) - j
      /\ Rank(f, s)[<<i, j + 1>>] = Len(f) + Len(s) + 2 - i - (j + 1)
      /\ Rank(f, s)[<<i + 1, j + 1>>] = Len(f) + Len(s) + 2 - (i + 1) - (j + 1)
  BY <1>1, RankType
<1>3. /\ <<i + 1, j>> \in Positions(f, s) /\ <<i, j + 1>> \in Positions(f, s)
      /\ <<i + 1, j + 1>> \in Positions(f, s)
  BY <1>1, RankType
<1>4. Len(f) \in Int /\ Len(s) \in Int /\ i \in Int /\ j \in Int
  OBVIOUS
<1> QED
  BY <1>2, <1>3, <1>4

AtPosition(op, f, s, g, p) == ExecuteAt(op, f, s, g, p[1], p[2])

\* A step of the merge yields ids, and asks for results behind it only.
LEMMA ExecuteAtType ==
    ASSUME NEW op, NEW f \in Seq(Int), NEW s \in Seq(Int),
           NEW g \in [Positions(f, s) -> Seq(Int)], NEW p \in Positions(f, s)
    PROVE  AtPosition(op, f, s, g, p) \in Seq(Int)
<1>1. PICK i \in 1 .. Len(f) + 1, j \in 1 .. Len(s) + 1 : p = <<i, j>> /\ i = p[1] /\ j = p[2]
  BY RankType
<1>2. CASE i > Len(f) \/ j > Len(s)
  BY <1>1, <1>2 DEF AtPosition, ExecuteAt, When
<1>3. CASE ~(i > Len(f) \/ j > Len(s))
  <2>1. i \in 1 .. Len(f) /\ j \in 1 .. Len(s) /\ f[i] \in Int /\ s[j] \in Int
    BY <1>3
  <2>2. /\ g[<<i + 1, j>>] \in Seq(Int) /\ g[<<i, j + 1>>] \in Seq(Int) /\ g[<<i + 1, j + 1>>] \in Seq(Int)
    BY <2>1, NextPositions
  <2>3. \A flag : \A x \in Int, r \in Seq(Int) : When(flag, <<x>>) \o r \in Seq(Int)
    BY DEF When
  <2>4. /\ When(op.pushFirstSmaller, <<f[i]>>) \o g[<<i + 1, j>>] \in Seq(Int)
        /\ When(op.pushSecondSmaller, <<s[j]>>) \o g[<<i, j + 1>>] \in Seq(Int)
        /\ When(op.pushEqual, <<f[i]>>) \o g[<<i + 1, j + 1>>] \in Seq(Int)
    BY <2>1, <2>2, <2>3
  <2> QED
    BY <1>1, <1>3, <2>4 DEF AtPosition, ExecuteAt
<1> QED
  BY <1>2, <1>3

LEMMA ExecuteAtDescends ==
    ASSUME NEW op, NEW f \in Seq(Int), NEW s \in Seq(Int), NEW p \in Positions(f, s),
           NEW g, NEW h, AgreeBelow(Positions(f, s), Rank(f, s), g, h, Rank(f, s)[p])
    PROVE  AtPosition(op, f, s, g, p) = AtPosition(op, f, s, h, p)
<1>1. PICK i \in 1 .. Len(f) + 1, j \in 1 .. Len(s) + 1 : p = <<i, j>> /\ i = p[1] /\ j = p[2]
  BY RankType
<1>2. CASE i > Len(f) \/ j > Len(s)
  BY <1>1, <1>2 DEF AtPosition, ExecuteAt
<1>3. CASE ~(i > Len(f) \/ j > Len(s))
  <2>1. i \in 1 .. Len(f) /\ j \in 1 .. Len(s)
    BY <1>3
  <2>2. /\ g[<<i + 1, j>>] = h[<<i + 1, j>>] /\ g[<<i, j + 1>>] = h[<<i, j + 1>>]
        /\ g[<<i + 1, j + 1>>] = h[<<i + 1, j + 1>>]
    BY <1>1, <2>1, NextPositions DEF AgreeBelow
  <2> QED
    BY <1>1, <1>3, <2>2 DEF AtPosition, ExecuteAt
<1> QED
  BY <1>2, <1>3

\* The function that Execute defines exists.
LEMMA ExecuteSolved ==
    ASSUME NEW op, NEW f \in Seq(Int), NEW s \in Seq(Int)
    PROVE  \E rest : /\ \A p \in Positions(f, s) : rest[p] = AtPosition(op, f, s, rest, p)
                     /\ Execute(op, f, s) = rest[<<1, 1>>]
<1>1. PICK D, V, r : D = Positions(f, s) /\ V = Seq(Int) /\ r = Rank(f, s)
  OBVIOUS
<1>2. PICK B : B = [q \in D \X [D -> V] |-> AtPosition(op, f, s, q[2], q[1])]
  OBVIOUS
<1>3. r \in [D -> Nat] /\ V # {}
  BY <1>1, RankType, EmptyEnumerates
<1>4. \A x \in D, g \in [D -> V] : B[<<x, g>>] = AtPosition(op, f, s, g, x)
  BY <1>2
<1>5. B \in [D \X [D -> V] -> V]
  <2>1. ASSUME NEW x \in D, NEW g \in [D -> V] PROVE AtPosition(op, f, s, g, x) \in V
    BY <1>1, ExecuteAtType
  <2> QED
    BY <1>2, <2>1
<1>6. Descends(D, V, r, B)
  <2>1. SUFFICES ASSUME NEW x \in D, NEW g \in [D -> V], NEW h \in [D -> V],
                        \A y \in D : r[y] < r[x] => g[y] = h[y]
                 PROVE  B[<<x, g>>] = B[<<x, h>>]
    BY DEF Descends
  <2>2. AgreeBelow(Positions(f, s), Rank(f, s), g, h, Rank(f, s)[x])
    BY <1>1, <2>1 DEF AgreeBelow
  <2>3. x \in Positions(f, s)
    BY <1>1
  <2>4. AtPosition(op, f, s, g, x) = AtPosition(op, f, s, h, x)
    BY <2>2, <2>3, ExecuteAtDescends
  <2> QED
    BY <1>4, <2>4
<1>7. PICK h : Solves(D, V, B, h)
  <2>1. IsRecursion(D, V, r, B)
    BY <1>3, <1>5, <1>6 DEF IsRecursion
  <2> QED
    BY <2>1, RankedRecursion
<1>8. h = [p \in Positions(f, s) |-> AtPosition(op, f, s, h, p)]
  BY <1>1, <1>4, <1>7 DEF Solves
<1>9. PICK rest : /\ rest = [p \in Positions(f, s) |-> AtPosition(op, f, s, rest, p)]
                  /\ Execute(op, f, s) = rest[<<1, 1>>]
  BY <1>8 DEF Execute, AtPosition
<1> QED
  BY <1>9

\* What the merge owes at a position.
RightAt(op, f, s, t, i, j) ==
    MergeRight(op, t, IdsFrom(f, i), IdsFrom(s, j), Len(f) - i + 1, Len(s) - j + 1)

\* The flags as the merge uses them.
LEMMA FlagWhen ==
    ASSUME NEW op, Consistent(op), NEW u
    PROVE  /\ When(op.pushFirstSmaller, u) = IF TakesFirst(op) THEN u ELSE <<>>
           /\ When(op.pushSecondSmaller, u) = IF TakesSecond(op) THEN u ELSE <<>>
           /\ When(op.pushEqual, u) = IF TakesBoth(op) THEN u ELSE <<>>
  BY Zenon DEF When, TakesFirst, TakesSecond, TakesBoth

\* One side is at its end: the rest of the other one is selected or nothing is.
LEMMA RestRight ==
    ASSUME NEW op, Consistent(op), NEW Z, NEW u \in Seq(Int), Enumerates(u, Z), NEW t, NEW n \in Nat, Len(u) = n
    PROVE  /\ t = When(op.pushSecondSmaller, u) => MergeRight(op, t, {}, Z, 0, n)
           /\ t = When(op.pushFirstSmaller, u) => MergeRight(op, t, Z, {}, n, 0)
<1>1. <<>> \in Seq(Int) /\ Enumerates(<<>>, {}) /\ Len(<<>>) = 0
  BY EmptyEnumerates
<1>2. ASSUME TakesSecond(op), t = When(op.pushSecondSmaller, u) PROVE MergeRight(op, t, {}, Z, 0, n)
  <2>1. t = u
    BY <1>2, FlagWhen
  <2>2. Pushed(op, {}, Z) = Z
    BY <1>2 DEF Pushed
  <2> QED
    BY <1>2, <2>1, <2>2 DEF MergeRight
<1>3. ASSUME ~TakesSecond(op), t = When(op.pushSecondSmaller, u) PROVE MergeRight(op, t, {}, Z, 0, n)
  <2>1. t = <<>>
    BY <1>3, FlagWhen
  <2>2. Pushed(op, {}, Z) = {}
    BY <1>3 DEF Pushed
  <2>3. t \in Seq(Int) /\ Enumerates(t, {}) /\ Len(t) = 0
    BY ONLY <1>1, <2>1
  <2>4. 0 <= n /\ 0 <= 0 /\ 0 <= 0 + n /\ 0 <= n + 0
    OBVIOUS
  <2> QED
    BY ONLY <2>2, <2>3, <2>4 DEF MergeRight
<1>4. ASSUME TakesFirst(op), t = When(op.pushFirstSmaller, u) PROVE MergeRight(op, t, Z, {}, n, 0)
  <2>1. t = u
    BY <1>4, FlagWhen
  <2>2. Pushed(op, Z, {}) = Z
    BY <1>4 DEF Pushed
  <2> QED
    BY <1>4, <2>1, <2>2 DEF MergeRight
<1>5. ASSUME ~TakesFirst(op), t = When(op.pushFirstSmaller, u) PROVE MergeRight(op, t, Z, {}, n, 0)
  <2>1. t = <<>>
    BY <1>5, FlagWhen
  <2>2. Pushed(op, Z, {}) = {}
    BY <1>5 DEF Pushed
  <2>3. t \in Seq(Int) /\ Enumerates(t, {}) /\ Len(t) = 0
    BY ONLY <1>1, <2>1
  <2>4. 0 <= n /\ 0 <= 0 /\ 0 <= 0 + n /\ 0 <= n + 0
    OBVIOUS
  <2> QED
    BY ONLY <2>2, <2>3, <2>4 DEF MergeRight
<1> QED
  BY <1>2, <1>3, <1>4, <1>5

LEMMA MergeEnds ==
    ASSUME NEW op, Consistent(op), NEW f \in Seq(Int), NEW s \in Seq(Int), Ascending(f), Ascending(s),
           NEW i \in 1 .. Len(f) + 1, NEW j \in 1 .. Len(s) + 1, i > Len(f) \/ j > Len(s), NEW g
    PROVE  RightAt(op, f, s, ExecuteAt(op, f, s, g, i, j), i, j)
<1>1. PICK t : t = ExecuteAt(op, f, s, g, i, j)
  OBVIOUS
<1>2. CASE i > Len(f)
  <2>1. IdsFrom(f, i) = {} /\ Len(f) - i + 1 = 0
    BY <1>2 DEF IdsFrom
  <2>2. PICK u : u = SubSeq(s, j, Len(s))
    OBVIOUS
  <2>3. t = When(op.pushSecondSmaller, u)
    BY <1>1, <1>2, <2>2 DEF ExecuteAt, Consistent
  <2>4. PICK n, Z : n = Len(s) - j + 1 /\ Z = IdsFrom(s, j)
    OBVIOUS
  <2>5. n \in Nat
    BY <2>4
  <2>6. u \in Seq(Int) /\ Enumerates(u, Z) /\ Len(u) = n
    BY <2>2, <2>4, RestEnumerates
  <2>7. MergeRight(op, t, {}, Z, 0, n)
    BY ONLY Consistent(op), <2>3, <2>5, <2>6, RestRight
  <2> QED
    BY <1>1, <2>1, <2>4, <2>7 DEF RightAt
<1>3. CASE ~(i > Len(f))
  <2>1. IdsFrom(s, j) = {} /\ Len(s) - j + 1 = 0
    BY <1>3 DEF IdsFrom
  <2>2. PICK u : u = SubSeq(f, i, Len(f))
    OBVIOUS
  <2>3. t = When(op.pushFirstSmaller, u)
    BY <1>1, <1>3, <2>2 DEF ExecuteAt, Consistent
  <2>4. PICK n, Z : n = Len(f) - i + 1 /\ Z = IdsFrom(f, i)
    OBVIOUS
  <2>5. n \in Nat
    BY <2>4
  <2>6. u \in Seq(Int) /\ Enumerates(u, Z) /\ Len(u) = n
    BY <2>2, <2>4, RestEnumerates
  <2>7. MergeRight(op, t, Z, {}, n, 0)
    BY ONLY Consistent(op), <2>3, <2>5, <2>6, RestRight
  <2> QED
    BY <1>1, <2>1, <2>4, <2>7 DEF RightAt
<1> QED
  BY <1>2, <1>3

\* What one id in front of all others adds to the ids an operation selects.
LEMMA PushedBelow ==
    ASSUME NEW op, NEW x, NEW X, NEW Y, Below(x, X), Below(x, Y)
    PROVE  Below(x, Pushed(op, X, Y))
  BY DEF Below, Pushed

LEMMA PushedStep ==
    ASSUME NEW op, NEW x \in Int, NEW X, NEW Y, Below(x, X), Below(x, Y)
    PROVE  /\ TakesFirst(op) => Pushed(op, With(x, X), Y) = With(x, Pushed(op, X, Y))
           /\ ~TakesFirst(op) => Pushed(op, With(x, X), Y) = Pushed(op, X, Y)
           /\ TakesSecond(op) => Pushed(op, X, With(x, Y)) = With(x, Pushed(op, X, Y))
           /\ ~TakesSecond(op) => Pushed(op, X, With(x, Y)) = Pushed(op, X, Y)
           /\ TakesBoth(op) => Pushed(op, With(x, X), With(x, Y)) = With(x, Pushed(op, X, Y))
           /\ ~TakesBoth(op) => Pushed(op, With(x, X), With(x, Y)) = Pushed(op, X, Y)
<1>1. ~(x < x)
  OBVIOUS
<1>2. x \notin X /\ x \notin Y
  BY <1>1 DEF Below
<1>4. /\ TakesFirst(op) => Pushed(op, With(x, X), Y) = With(x, Pushed(op, X, Y))
      /\ ~TakesFirst(op) => Pushed(op, With(x, X), Y) = Pushed(op, X, Y)
  BY <1>2 DEF Pushed, With
<1>5. /\ TakesSecond(op) => Pushed(op, X, With(x, Y)) = With(x, Pushed(op, X, Y))
      /\ ~TakesSecond(op) => Pushed(op, X, With(x, Y)) = Pushed(op, X, Y)
  BY <1>2 DEF Pushed, With
<1>6. /\ TakesBoth(op) => Pushed(op, With(x, X), With(x, Y)) = With(x, Pushed(op, X, Y))
      /\ ~TakesBoth(op) => Pushed(op, With(x, X), With(x, Y)) = Pushed(op, X, Y)
  BY <1>2 DEF Pushed, With
<1> QED
  BY <1>4, <1>5, <1>6

\* The result with x in front, and without.
LEMMA PushRight ==
    ASSUME NEW op, NEW x \in Int, NEW X, NEW Y, Below(x, X), Below(x, Y),
           NEW m, NEW n, NEW r, MergeRight(op, r, X, Y, m, n)
    PROVE  /\ Len(r) \in Nat
           /\ Cons(x, r) \in Seq(Int) /\ Len(Cons(x, r)) = Len(r) + 1
           /\ Enumerates(Cons(x, r), With(x, Pushed(op, X, Y)))
<1>1. PICK S : S = Pushed(op, X, Y)
  OBVIOUS
<1>2. r \in Seq(Int) /\ Enumerates(r, S) /\ Below(x, S)
  BY <1>1, PushedBelow DEF MergeRight
<1>3. PICK t : t = Cons(x, r)
  OBVIOUS
<1>4. t \in Seq(Int) /\ Enumerates(t, With(x, S)) /\ Len(t) = Len(r) + 1
  BY ONLY x \in Int, <1>2, <1>3, ConsEnumerates DEF Cons, With
<1>5. Len(r) \in Nat
  BY <1>2
<1> QED
  BY <1>1, <1>3, <1>4, <1>5

\* The three ways a step of the merge extends the result.
LEMMA TakeFirstRight ==
    ASSUME NEW op, NEW x \in Int, NEW X, NEW Y, Below(x, X), Below(x, Y),
           NEW m \in Nat, NEW n \in Nat, NEW r, MergeRight(op, r, X, Y, m, n)
    PROVE  /\ TakesFirst(op) => MergeRight(op, Cons(x, r), With(x, X), Y, m + 1, n)
           /\ ~TakesFirst(op) => MergeRight(op, r, With(x, X), Y, m + 1, n)
<1>1. PICK S : S = Pushed(op, X, Y)
  OBVIOUS
<1>2. PICK l : l = Len(r)
  OBVIOUS
<1>3. PICK t : t = Cons(x, r)
  OBVIOUS
<1>4. r \in Seq(Int) /\ Enumerates(r, S)
  BY <1>1 DEF MergeRight
<1>5. l <= m + n /\ (~TakesSecond(op) => l <= m) /\ (~TakesFirst(op) => l <= n)
  BY <1>2 DEF MergeRight
<1>6. l \in Nat /\ t \in Seq(Int) /\ Len(t) = l + 1 /\ Enumerates(t, With(x, S))
  BY <1>1, <1>2, <1>3, PushRight
<1>7. ASSUME TakesFirst(op) PROVE MergeRight(op, t, With(x, X), Y, m + 1, n)
  <2>1. Pushed(op, With(x, X), Y) = With(x, S)
    BY <1>1, <1>7, PushedStep
  <2> QED
    BY <1>5, <1>6, <1>7, <2>1 DEF MergeRight
<1>8. ASSUME ~TakesFirst(op) PROVE MergeRight(op, r, With(x, X), Y, m + 1, n)
  <2>1. Pushed(op, With(x, X), Y) = S
    BY <1>1, <1>8, PushedStep
  <2> QED
    BY <1>2, <1>4, <1>5, <1>6, <1>8, <2>1 DEF MergeRight
<1> QED
  BY <1>3, <1>7, <1>8

LEMMA TakeSecondRight ==
    ASSUME NEW op, NEW x \in Int, NEW X, NEW Y, Below(x, X), Below(x, Y),
           NEW m \in Nat, NEW n \in Nat, NEW r, MergeRight(op, r, X, Y, m, n)
    PROVE  /\ TakesSecond(op) => MergeRight(op, Cons(x, r), X, With(x, Y), m, n + 1)
           /\ ~TakesSecond(op) => MergeRight(op, r, X, With(x, Y), m, n + 1)
<1>1. PICK S : S = Pushed(op, X, Y)
  OBVIOUS
<1>2. PICK l : l = Len(r)
  OBVIOUS
<1>3. PICK t : t = Cons(x, r)
  OBVIOUS
<1>4. r \in Seq(Int) /\ Enumerates(r, S)
  BY <1>1 DEF MergeRight
<1>5. l <= m + n /\ (~TakesSecond(op) => l <= m) /\ (~TakesFirst(op) => l <= n)
  BY <1>2 DEF MergeRight
<1>6. l \in Nat /\ t \in Seq(Int) /\ Len(t) = l + 1 /\ Enumerates(t, With(x, S))
  BY <1>1, <1>2, <1>3, PushRight
<1>7. ASSUME TakesSecond(op) PROVE MergeRight(op, t, X, With(x, Y), m, n + 1)
  <2>1. Pushed(op, X, With(x, Y)) = With(x, S)
    BY <1>1, <1>7, PushedStep
  <2> QED
    BY <1>5, <1>6, <1>7, <2>1 DEF MergeRight
<1>8. ASSUME ~TakesSecond(op) PROVE MergeRight(op, r, X, With(x, Y), m, n + 1)
  <2>1. Pushed(op, X, With(x, Y)) = S
    BY <1>1, <1>8, PushedStep
  <2> QED
    BY <1>2, <1>4, <1>5, <1>6, <1>8, <2>1 DEF MergeRight
<1> QED
  BY <1>3, <1>7, <1>8

LEMMA TakeBothRight ==
    ASSUME NEW op, NEW x \in Int, NEW X, NEW Y, Below(x, X), Below(x, Y),
           NEW m \in Nat, NEW n \in Nat, NEW r, MergeRight(op, r, X, Y, m, n)
    PROVE  /\ TakesBoth(op) => MergeRight(op, Cons(x, r), With(x, X), With(x, Y), m + 1, n + 1)
           /\ ~TakesBoth(op) => MergeRight(op, r, With(x, X), With(x, Y), m + 1, n + 1)
<1>1. PICK S : S = Pushed(op, X, Y)
  OBVIOUS
<1>2. PICK l : l = Len(r)
  OBVIOUS
<1>3. PICK t : t = Cons(x, r)
  OBVIOUS
<1>4. r \in Seq(Int) /\ Enumerates(r, S)
  BY <1>1 DEF MergeRight
<1>5. l <= m + n /\ (~TakesSecond(op) => l <= m) /\ (~TakesFirst(op) => l <= n)
  BY <1>2 DEF MergeRight
<1>6. l \in Nat /\ t \in Seq(Int) /\ Len(t) = l + 1 /\ Enumerates(t, With(x, S))
  BY <1>1, <1>2, <1>3, PushRight
<1>7. ASSUME TakesBoth(op) PROVE MergeRight(op, t, With(x, X), With(x, Y), m + 1, n + 1)
  <2>1. Pushed(op, With(x, X), With(x, Y)) = With(x, S)
    BY <1>1, <1>7, PushedStep
  <2> QED
    BY <1>5, <1>6, <1>7, <2>1 DEF MergeRight
<1>8. ASSUME ~TakesBoth(op) PROVE MergeRight(op, r, With(x, X), With(x, Y), m + 1, n + 1)
  <2>1. Pushed(op, With(x, X), With(x, Y)) = S
    BY <1>1, <1>8, PushedStep
  <2> QED
    BY <1>2, <1>4, <1>5, <1>6, <1>8, <2>1 DEF MergeRight
<1> QED
  BY <1>3, <1>7, <1>8

\* A step with x and y in front of X and Y, and what is left of the merge in each case.
LEMMA MergeStep ==
    ASSUME NEW op, NEW x \in Int, NEW y \in Int, NEW X \in SUBSET Int, NEW Y \in SUBSET Int,
           Below(x, X), Below(y, Y), NEW m \in Nat, NEW n \in Nat, NEW r1, NEW r2, NEW r3,
           MergeRight(op, r1, X, With(y, Y), m, n + 1),
           MergeRight(op, r2, With(x, X), Y, m + 1, n),
           MergeRight(op, r3, X, Y, m, n),
           NEW t,
           x < y => t = IF TakesFirst(op) THEN Cons(x, r1) ELSE r1,
           y < x => t = IF TakesSecond(op) THEN Cons(y, r2) ELSE r2,
           ~(x < y) /\ ~(y < x) => t = IF TakesBoth(op) THEN Cons(x, r3) ELSE r3
    PROVE  MergeRight(op, t, With(x, X), With(y, Y), m + 1, n + 1)
<1>0. m + 1 \in Nat /\ n + 1 \in Nat
  OBVIOUS
<1>1. CASE x < y
  <2>1. \A z \in Int : y < z => x < z
    BY <1>1
  <2>2. Below(x, With(y, Y))
    BY <1>1, <2>1 DEF Below, With
  <2> QED
    BY <1>0, <1>1, <2>2, TakeFirstRight
<1>2. CASE y < x
  <2>1. \A z \in Int : x < z => y < z
    BY <1>2
  <2>2. Below(y, With(x, X))
    BY <1>2, <2>1 DEF Below, With
  <2> QED
    BY <1>0, <1>2, <2>2, TakeSecondRight
<1>3. CASE ~(x < y) /\ ~(y < x)
  <2>1. x = y
    BY <1>3
  <2>2. Below(x, Y)
    BY <2>1
  <2> QED
    BY <1>3, <2>1, <2>2, TakeBothRight
<1> QED
  BY <1>1, <1>2, <1>3

\* Both sides have ids left.
LEMMA MergeSteps ==
    ASSUME NEW op, Consistent(op), NEW f \in Seq(Int), NEW s \in Seq(Int), Ascending(f), Ascending(s),
           NEW i \in 1 .. Len(f), NEW j \in 1 .. Len(s), NEW g,
           RightAt(op, f, s, g[<<i + 1, j>>], i + 1, j), RightAt(op, f, s, g[<<i, j + 1>>], i, j + 1),
           RightAt(op, f, s, g[<<i + 1, j + 1>>], i + 1, j + 1)
    PROVE  RightAt(op, f, s, ExecuteAt(op, f, s, g, i, j), i, j)
<1>1. PICK x, X : x = f[i] /\ X = IdsFrom(f, i + 1)
  OBVIOUS
<1>2. PICK y, Y : y = s[j] /\ Y = IdsFrom(s, j + 1)
  OBVIOUS
<1>3. x \in Int /\ X \in SUBSET Int /\ Below(x, X) /\ IdsFrom(f, i) = With(x, X)
  BY <1>1, FromStep DEF Below, With
<1>4. y \in Int /\ Y \in SUBSET Int /\ Below(y, Y) /\ IdsFrom(s, j) = With(y, Y)
  BY <1>2, FromStep DEF Below, With
<1>5. PICK m, n : m = Len(f) - i /\ n = Len(s) - j
  OBVIOUS
<1>6. m \in Nat /\ n \in Nat
  BY <1>5
<1>7. PICK r1, r2, r3 : r1 = g[<<i + 1, j>>] /\ r2 = g[<<i, j + 1>>] /\ r3 = g[<<i + 1, j + 1>>]
  OBVIOUS
<1>8. PICK t : t = ExecuteAt(op, f, s, g, i, j)
  OBVIOUS
<1>9. ~(i > Len(f)) /\ ~(j > Len(s))
  OBVIOUS
<1>10. t = IF x < y THEN When(op.pushFirstSmaller, <<x>>) \o r1
           ELSE IF y < x THEN When(op.pushSecondSmaller, <<y>>) \o r2
           ELSE When(op.pushEqual, <<x>>) \o r3
  BY <1>1, <1>2, <1>7, <1>8, <1>9, Zenon DEF ExecuteAt
<1>11. /\ MergeRight(op, r1, X, With(y, Y), m, n + 1)
       /\ MergeRight(op, r2, With(x, X), Y, m + 1, n)
       /\ MergeRight(op, r3, X, Y, m, n)
  <2>1. /\ Len(f) - (i + 1) + 1 = m /\ Len(f) - i + 1 = m + 1
        /\ Len(s) - (j + 1) + 1 = n /\ Len(s) - j + 1 = n + 1
    BY <1>5
  <2> QED
    BY <1>1, <1>2, <1>3, <1>4, <1>7, <2>1, Zenon DEF RightAt
<1>12. r1 \in Seq(Int) /\ r2 \in Seq(Int) /\ r3 \in Seq(Int)
  BY <1>11 DEF MergeRight
<1>13. ~(x < y) \/ ~(y < x)
  BY <1>3, <1>4
<1>14. /\ x < y => t = IF TakesFirst(op) THEN Cons(x, r1) ELSE r1
       /\ y < x => t = IF TakesSecond(op) THEN Cons(y, r2) ELSE r2
       /\ ~(x < y) /\ ~(y < x) => t = IF TakesBoth(op) THEN Cons(x, r3) ELSE r3
  <2>1. <<>> \o r1 = r1 /\ <<>> \o r2 = r2 /\ <<>> \o r3 = r3
    BY ONLY <1>12
  <2>2. /\ When(op.pushFirstSmaller, <<x>>) \o r1 = IF TakesFirst(op) THEN Cons(x, r1) ELSE r1
        /\ When(op.pushSecondSmaller, <<y>>) \o r2 = IF TakesSecond(op) THEN Cons(y, r2) ELSE r2
        /\ When(op.pushEqual, <<x>>) \o r3 = IF TakesBoth(op) THEN Cons(x, r3) ELSE r3
    BY ONLY <2>1, Zenon DEF When, Cons, TakesFirst, TakesSecond, TakesBoth
  <2> QED
    BY <1>10, <1>13, <2>2, Zenon
<1>15. MergeRight(op, t, With(x, X), With(y, Y), m + 1, n + 1)
  BY ONLY <1>3, <1>4, <1>6, <1>11, <1>14, MergeStep
<1>16. Len(f) - i + 1 = m + 1 /\ Len(s) - j + 1 = n + 1
  BY <1>5
<1> QED
  BY <1>3, <1>4, <1>8, <1>15, <1>16, Zenon DEF RightAt

\* From every position on the merge is right: by induction on how much is left.
LEMMA MergeCorrect ==
    ASSUME NEW op, Consistent(op), NEW f \in Seq(Int), NEW s \in Seq(Int), Ascending(f), Ascending(s)
    PROVE  MergeRight(op, Execute(op, f, s), ToSet(f), ToSet(s), Len(f), Len(s))
<1>1. PICK rest :
              /\ \A p \in Positions(f, s) : rest[p] = AtPosition(op, f, s, rest, p)
              /\ Execute(op, f, s) = rest[<<1, 1>>]
  BY ExecuteSolved
<1> DEFINE P == {n \in Nat : \A p \in Positions(f, s) :
                                Rank(f, s)[p] = n => RightAt(op, f, s, rest[p], p[1], p[2])}
<1>2. ASSUME NEW n \in Nat, \A k \in Nat : k < n => k \in P PROVE n \in P
  <2>1. SUFFICES ASSUME NEW p \in Positions(f, s), Rank(f, s)[p] = n
                 PROVE  RightAt(op, f, s, rest[p], p[1], p[2])
    OBVIOUS
  <2>2. PICK i \in 1 .. Len(f) + 1, j \in 1 .. Len(s) + 1 : p = <<i, j>> /\ i = p[1] /\ j = p[2]
    BY RankType
  <2>3. rest[p] = ExecuteAt(op, f, s, rest, i, j)
    BY <1>1, <2>2 DEF AtPosition
  <2>4. CASE i > Len(f) \/ j > Len(s)
    BY <2>2, <2>3, <2>4, MergeEnds
  <2>5. CASE ~(i > Len(f) \/ j > Len(s))
    <3>1. i \in 1 .. Len(f) /\ j \in 1 .. Len(s)
      BY <2>5
    <3>2. \A q \in Positions(f, s) : Rank(f, s)[q] < n => RightAt(op, f, s, rest[q], q[1], q[2])
      BY <1>2, RankType
    <3>3. /\ RightAt(op, f, s, rest[<<i + 1, j>>], i + 1, j)
          /\ RightAt(op, f, s, rest[<<i, j + 1>>], i, j + 1)
          /\ RightAt(op, f, s, rest[<<i + 1, j + 1>>], i + 1, j + 1)
      BY <2>1, <2>2, <3>1, <3>2, NextPositions
    <3> QED
      BY <2>2, <2>3, <3>1, <3>3, MergeSteps
  <2> QED
    BY <2>4, <2>5
<1> HIDE DEF P
<1>3. Nat \subseteq P
  BY <1>2, NatStrong
<1>4. <<1, 1>> \in Positions(f, s)
  BY DEF Positions
<1>5. RightAt(op, f, s, Execute(op, f, s), 1, 1)
  <2>1. \A p \in Positions(f, s) : RightAt(op, f, s, rest[p], p[1], p[2])
    BY <1>3, RankType DEF P
  <2> QED
    BY <1>1, <1>4, <2>1
<1>6. /\ IdsFrom(f, 1) = ToSet(f) /\ IdsFrom(s, 1) = ToSet(s)
      /\ Len(f) - 1 + 1 = Len(f) /\ Len(s) - 1 + 1 = Len(s)
  BY FromAll
<1> QED
  BY <1>5, <1>6 DEF RightAt

\* The four operations select what they are named for.
LEMMA OpsSelect ==
    ASSUME NEW op \in Ops
    PROVE  Consistent(op) /\ \A X, Y : Pushed(op, X, Y) = Selected(op, X, Y)
<1>1. /\ UniteOp # IntersectOp
      /\ DifferenceOp # IntersectOp /\ DifferenceOp # UniteOp
      /\ SymmetricDifferenceOp # IntersectOp /\ SymmetricDifferenceOp # UniteOp
      /\ SymmetricDifferenceOp # DifferenceOp
  BY DEF IntersectOp, UniteOp, DifferenceOp, SymmetricDifferenceOp, Op
<1>2. CASE op = IntersectOp
  <2>1. Consistent(op) /\ ~TakesFirst(op) /\ ~TakesSecond(op) /\ TakesBoth(op)
    BY <1>2 DEF IntersectOp, Op, Consistent, TakesFirst, TakesSecond, TakesBoth
  <2>2. \A X, Y : Selected(op, X, Y) = X \cap Y
    BY <1>1, <1>2 DEF Selected
  <2> QED
    BY <2>1, <2>2 DEF Pushed
<1>3. CASE op = UniteOp
  <2>1. Consistent(op) /\ TakesFirst(op) /\ TakesSecond(op) /\ TakesBoth(op)
    BY ONLY <1>3 DEF UniteOp, Op, Consistent, TakesFirst, TakesSecond, TakesBoth
  <2>2. \A X, Y : Selected(op, X, Y) = X \cup Y
    BY <1>1, <1>3 DEF Selected
  <2> QED
    BY <2>1, <2>2 DEF Pushed
<1>4. CASE op = DifferenceOp
  <2>1. Consistent(op) /\ TakesFirst(op) /\ ~TakesSecond(op) /\ ~TakesBoth(op)
    BY <1>4 DEF DifferenceOp, Op, Consistent, TakesFirst, TakesSecond, TakesBoth
  <2>2. \A X, Y : Selected(op, X, Y) = X \ Y
    BY <1>1, <1>4 DEF Selected
  <2> QED
    BY <2>1, <2>2 DEF Pushed
<1>5. CASE op = SymmetricDifferenceOp
  <2>1. Consistent(op) /\ TakesFirst(op) /\ TakesSecond(op) /\ ~TakesBoth(op)
    BY <1>5 DEF SymmetricDifferenceOp, Op, Consistent, TakesFirst, TakesSecond, TakesBoth
  <2>2. \A X, Y : Selected(op, X, Y) = (X \ Y) \cup (Y \ X)
    BY <1>1, <1>5 DEF Selected
  <2> QED
    BY <2>1, <2>2 DEF Pushed
<1> QED
  BY <1>2, <1>3, <1>4, <1>5 DEF Ops

\* The merge of two indexes, for each of the operations.
LEMMA ExecuteCorrect ==
    ASSUME NEW op \in Ops, NEW f \in Seq(Int), NEW s \in Seq(Int), Ascending(f), Ascending(s)
    PROVE  /\ Execute(op, f, s) \in Seq(Int)
           /\ Enumerates(Execute(op, f, s), Selected(op, ToSet(f), ToSet(s)))
           /\ Len(Execute(op, f, s)) <= MaxSize(op, f, s)
<1>1. Consistent(op) /\ MergeRight(op, Execute(op, f, s), ToSet(f), ToSet(s), Len(f), Len(s))
  BY OpsSelect, MergeCorrect
<1>2. Pushed(op, ToSet(f), ToSet(s)) = Selected(op, ToSet(f), ToSet(s))
  BY OpsSelect
<1>3. PICK r, l, m, n : r = Execute(op, f, s) /\ l = Len(r) /\ m = Len(f) /\ n = Len(s)
  OBVIOUS
<1>4. r \in Seq(Int) /\ l <= m + n /\ (~TakesSecond(op) => l <= m) /\ (~TakesFirst(op) => l <= n)
  BY <1>1, <1>3 DEF MergeRight
<1>5. /\ op = IntersectOp => ~TakesFirst(op) /\ ~TakesSecond(op)
      /\ op = DifferenceOp => ~TakesSecond(op)
  BY DEF IntersectOp, DifferenceOp, Op, TakesFirst, TakesSecond
<1>6. l <= MaxSize(op, f, s)
  BY <1>3, <1>4, <1>5 DEF MaxSize
<1> QED
  BY <1>1, <1>2, <1>3, <1>4, <1>6 DEF MergeRight


-----------------------------------------------------------------------------
(* The generic search                                                      *)

RangeRank(s) == [p \in Ranges(s) |-> IF p[1] <= p[2] + 1 THEN p[2] + 1 - p[1] ELSE 0]
AtRange(s, id, found, p) == SearchAt(s, id, found, p[1], p[2])

LEMMA RangeType ==
    ASSUME NEW s \in Seq(Int)
    PROVE  /\ RangeRank(s) \in [Ranges(s) -> Nat]
           /\ \A p \in Ranges(s) : p[1] \in 0 .. Len(s) /\ p[2] \in -1 .. Len(s) - 1 /\ p = <<p[1], p[2]>>
           /\ \A l \in 0 .. Len(s), r \in -1 .. Len(s) - 1 :
                 /\ <<l, r>> \in Ranges(s)
                 /\ RangeRank(s)[<<l, r>>] = IF l <= r + 1 THEN r + 1 - l ELSE 0
<1>1. \A p \in Ranges(s) : p[1] \in 0 .. Len(s) /\ p[2] \in -1 .. Len(s) - 1 /\ p = <<p[1], p[2]>>
  BY DEF Ranges
<1>2. \A l \in 0 .. Len(s), r \in -1 .. Len(s) - 1 : <<l, r>> \in Ranges(s)
  BY DEF Ranges
<1>3. \A l \in 0 .. Len(s), r \in -1 .. Len(s) - 1 :
         RangeRank(s)[<<l, r>>] = IF l <= r + 1 THEN r + 1 - l ELSE 0
  BY <1>2 DEF RangeRank
<1>4. RangeRank(s) \in [Ranges(s) -> Nat]
  BY <1>1 DEF RangeRank
<1> QED
  BY <1>1, <1>2, <1>3, <1>4

\* The middle of a range, and the two ranges beside it.
Middle(l, r) == Half(r - l) + l

LEMMA MiddleOf ==
    ASSUME NEW l \in Int, NEW r \in Int
    PROVE  /\ Middle(l, r) \in Int
           /\ l < r => Middle(l, r) \in l .. (r - 1)
           /\ l = r \/ l = r + 1 => Middle(l, r) = l
<1>1. Half(0) = 0 /\ Half(-1) = 0
  BY DEF Half
<1> QED
  BY <1>1 DEF Middle, Half

LEMMA NextRanges ==
    ASSUME NEW s \in Seq(Int), NEW l \in 0 .. Len(s), NEW r \in -1 .. Len(s) - 1, l < r,
           NEW mid \in l .. (r - 1)
    PROVE  /\ <<mid + 1, r>> \in Ranges(s) /\ RangeRank(s)[<<mid + 1, r>>] < RangeRank(s)[<<l, r>>]
           /\ <<l, mid - 1>> \in Ranges(s) /\ RangeRank(s)[<<l, mid - 1>>] < RangeRank(s)[<<l, r>>]
<1>1. mid + 1 \in 0 .. Len(s) /\ mid - 1 \in -1 .. Len(s) - 1
  OBVIOUS
<1>2. /\ <<mid + 1, r>> \in Ranges(s) /\ <<l, mid - 1>> \in Ranges(s)
      /\ RangeRank(s)[<<mid + 1, r>>] = IF mid + 1 <= r + 1 THEN r + 1 - (mid + 1) ELSE 0
      /\ RangeRank(s)[<<l, mid - 1>>] = IF l <= (mid - 1) + 1 THEN (mid - 1) + 1 - l ELSE 0
      /\ RangeRank(s)[<<l, r>>] = IF l <= r + 1 THEN r + 1 - l ELSE 0
  BY <1>1, RangeType
<1> QED
  BY <1>2

LEMMA SearchAtType ==
    ASSUME NEW s \in Seq(Int), NEW id, NEW g \in [Ranges(s) -> Int], NEW p \in Ranges(s)
    PROVE  AtRange(s, id, g, p) \in Int
<1>1. PICK l \in 0 .. Len(s), r \in -1 .. Len(s) - 1 : p = <<l, r>> /\ l = p[1] /\ r = p[2]
  BY RangeType
<1>2. PICK mid : mid = Middle(l, r)
  OBVIOUS
<1>3. mid \in Int
  BY <1>2, MiddleOf
<1>4. AtRange(s, id, g, p) = IF l >= r \/ s[mid + 1] = id
                             THEN IF s[mid + 1] = id THEN mid ELSE NoPosition
                             ELSE IF s[mid + 1] < id THEN g[<<mid + 1, r>>] ELSE g[<<l, mid - 1>>]
  BY <1>1, <1>2, Zenon DEF AtRange, SearchAt, Middle
<1>5. CASE l >= r
  BY <1>3, <1>4, <1>5 DEF NoPosition
<1>6. CASE ~(l >= r)
  <2>1. l < r /\ mid \in l .. (r - 1)
    BY <1>2, <1>6, MiddleOf
  <2>2. g[<<mid + 1, r>>] \in Int /\ g[<<l, mid - 1>>] \in Int
    BY <2>1, NextRanges
  <2> QED
    BY <1>3, <1>4, <2>2 DEF NoPosition
<1> QED
  BY <1>5, <1>6

LEMMA SearchAtDescends ==
    ASSUME NEW s \in Seq(Int), NEW id, NEW p \in Ranges(s), NEW g, NEW h,
           AgreeBelow(Ranges(s), RangeRank(s), g, h, RangeRank(s)[p])
    PROVE  AtRange(s, id, g, p) = AtRange(s, id, h, p)
<1>1. PICK l \in 0 .. Len(s), r \in -1 .. Len(s) - 1 : p = <<l, r>> /\ l = p[1] /\ r = p[2]
  BY RangeType
<1>2. PICK mid : mid = Middle(l, r)
  OBVIOUS
<1>3. \A v : AtRange(s, id, v, p) = IF l >= r \/ s[mid + 1] = id
                                    THEN IF s[mid + 1] = id THEN mid ELSE NoPosition
                                    ELSE IF s[mid + 1] < id THEN v[<<mid + 1, r>>] ELSE v[<<l, mid - 1>>]
  BY <1>1, <1>2, Zenon DEF AtRange, SearchAt, Middle
<1>4. CASE l >= r
  BY <1>3, <1>4
<1>5. CASE ~(l >= r)
  <2>1. l < r /\ mid \in l .. (r - 1)
    BY <1>2, <1>5, MiddleOf
  <2>2. g[<<mid + 1, r>>] = h[<<mid + 1, r>>] /\ g[<<l, mid - 1>>] = h[<<l, mid - 1>>]
    BY <1>1, <2>1, NextRanges DEF AgreeBelow
  <2> QED
    BY <1>3, <2>2, Zenon
<1> QED
  BY <1>4, <1>5

LEMMA FindSolved ==
    ASSUME NEW s \in Seq(Int), NEW id
    PROVE  \E found : /\ \A p \in Ranges(s) : found[p] = AtRange(s, id, found, p)
                      /\ Find(s, id) = IF s = <<>> THEN NoPosition ELSE found[<<0, Len(s) - 1>>]
<1>1. PICK D, V, r : D = Ranges(s) /\ V = Int /\ r = RangeRank(s)
  OBVIOUS
<1>2. PICK B : B = [q \in D \X [D -> V] |-> AtRange(s, id, q[2], q[1])]
  OBVIOUS
<1>3. r \in [D -> Nat] /\ V # {}
  BY <1>1, RangeType
<1>4. \A x \in D, g \in [D -> V] : B[<<x, g>>] = AtRange(s, id, g, x)
  BY <1>2
<1>5. B \in [D \X [D -> V] -> V]
  <2>1. ASSUME NEW x \in D, NEW g \in [D -> V] PROVE AtRange(s, id, g, x) \in V
    BY <1>1, SearchAtType
  <2> QED
    BY <1>2, <2>1
<1>6. Descends(D, V, r, B)
  <2>1. SUFFICES ASSUME NEW x \in D, NEW g \in [D -> V], NEW h \in [D -> V],
                        \A y \in D : r[y] < r[x] => g[y] = h[y]
                 PROVE  B[<<x, g>>] = B[<<x, h>>]
    BY DEF Descends
  <2>2. AgreeBelow(Ranges(s), RangeRank(s), g, h, RangeRank(s)[x])
    BY <1>1, <2>1 DEF AgreeBelow
  <2>3. x \in Ranges(s)
    BY <1>1
  <2>4. AtRange(s, id, g, x) = AtRange(s, id, h, x)
    BY <2>2, <2>3, SearchAtDescends
  <2> QED
    BY <1>4, <2>4
<1>7. PICK h : Solves(D, V, B, h)
  <2>1. IsRecursion(D, V, r, B)
    BY <1>3, <1>5, <1>6 DEF IsRecursion
  <2> QED
    BY <2>1, RankedRecursion
<1>8. h = [p \in Ranges(s) |-> AtRange(s, id, h, p)]
  BY <1>1, <1>4, <1>7 DEF Solves
<1>9. PICK found : /\ found = [p \in Ranges(s) |-> AtRange(s, id, found, p)]
                   /\ Find(s, id) = IF s = <<>> THEN NoPosition ELSE found[<<0, Len(s) - 1>>]
  BY <1>8 DEF Find, AtRange
<1> QED
  BY <1>9

\* What the search owes on a range; a range it may come to, an empty one only beside an
\* entry that is not the id.
FoundIn(s, id, v, l, r) ==
    /\ \A k \in l .. r : s[k + 1] = id => v = k
    /\ (\A k \in l .. r : s[k + 1] # id) => v = NoPosition
Reachable(s, id, l, r) ==
    /\ l \in 0 .. Len(s) - 1 /\ r \in -1 .. Len(s) - 1 /\ l <= r + 1
    /\ l = r + 1 => s[l + 1] # id

LEMMA EntriesAscend ==
    ASSUME NEW s \in Seq(Int), Ascending(s)
    PROVE  /\ \A k \in 0 .. Len(s) - 1 : s[k + 1] \in Int
           /\ \A j, k \in 0 .. Len(s) - 1 : j < k => s[j + 1] < s[k + 1]
  BY DEF Ascending

\* One comparison: the id is found, or the search goes on in one of the halves.
LEMMA SearchStep ==
    ASSUME NEW s \in Seq(Int), Ascending(s), NEW id \in Int, NEW l, NEW r, Reachable(s, id, l, r), l < r,
           NEW mid \in l .. (r - 1)
    PROVE  /\ s[mid + 1] = id => FoundIn(s, id, mid, l, r)
           /\ s[mid + 1] # id /\ s[mid + 1] < id =>
                 /\ Reachable(s, id, mid + 1, r)
                 /\ \A v : FoundIn(s, id, v, mid + 1, r) => FoundIn(s, id, v, l, r)
           /\ s[mid + 1] # id /\ ~(s[mid + 1] < id) =>
                 /\ Reachable(s, id, l, mid - 1)
                 /\ \A v : FoundIn(s, id, v, l, mid - 1) => FoundIn(s, id, v, l, r)
<1>1. l \in 0 .. Len(s) - 1 /\ r \in 0 .. Len(s) - 1 /\ mid \in 0 .. Len(s) - 1 /\ Len(s) \in Nat
  BY DEF Reachable
<1>2. PICK e : e = [k \in 0 .. Len(s) - 1 |-> s[k + 1]]
  OBVIOUS
<1>3. /\ \A k \in 0 .. Len(s) - 1 : e[k] \in Int /\ s[k + 1] = e[k]
      /\ \A j, k \in 0 .. Len(s) - 1 : j < k => e[j] < e[k]
  BY <1>2, EntriesAscend
<1>4. \A k \in l .. r : k \in 0 .. Len(s) - 1
  BY <1>1
<1>5. ASSUME NEW k \in l .. r
      PROVE  /\ e[k] \in Int /\ e[mid] \in Int
             /\ k < mid => e[k] < e[mid]
             /\ mid < k => e[mid] < e[k]
             /\ k = mid \/ k < mid \/ mid < k
  <2>1. k \in 0 .. Len(s) - 1 /\ mid \in 0 .. Len(s) - 1
    BY <1>1, <1>4
  <2>2. k = mid \/ k < mid \/ mid < k
    BY <2>1
  <2> QED
    BY <1>3, <2>1, <2>2
<1>6. ASSUME e[mid] = id PROVE FoundIn(s, id, mid, l, r)
  <2>1. ASSUME NEW k \in l .. r, e[k] = id PROVE mid = k
    BY <1>5, <1>6, <2>1
  <2>2. mid \in l .. r
    BY <1>1
  <2> QED
    BY <1>1, <1>3, <1>4, <1>6, <2>1, <2>2 DEF FoundIn
<1>7. ASSUME e[mid] < id PROVE /\ Reachable(s, id, mid + 1, r)
                               /\ \A v : FoundIn(s, id, v, mid + 1, r) => FoundIn(s, id, v, l, r)
  <2>1. mid + 1 \in 0 .. Len(s) - 1 /\ mid + 1 <= r + 1 /\ mid + 1 # r + 1
    BY <1>1
  <2>2. Reachable(s, id, mid + 1, r)
    BY <1>1, <2>1 DEF Reachable
  <2>3. ASSUME NEW k \in l .. r, k \notin (mid + 1) .. r PROVE e[k] # id
    <3>1. k = mid \/ k < mid
      BY <1>1, <2>3
    <3> QED
      BY <1>5, <1>7, <3>1
  <2>4. \A k \in (mid + 1) .. r : k \in l .. r
    BY <1>1
  <2> QED
    BY <1>3, <1>4, <2>2, <2>3, <2>4 DEF FoundIn
<1>8. ASSUME id < e[mid] PROVE /\ Reachable(s, id, l, mid - 1)
                               /\ \A v : FoundIn(s, id, v, l, mid - 1) => FoundIn(s, id, v, l, r)
  <2>1. mid - 1 \in -1 .. Len(s) - 1 /\ l <= (mid - 1) + 1 /\ (l = (mid - 1) + 1 => l = mid)
    BY <1>1
  <2>2. Reachable(s, id, l, mid - 1)
    <3>1. e[mid] # id
      BY <1>1, <1>3, <1>8
    <3> QED
      BY <1>1, <1>3, <2>1, <3>1 DEF Reachable
  <2>3. ASSUME NEW k \in l .. r, k \notin l .. (mid - 1) PROVE e[k] # id
    <3>1. k = mid \/ mid < k
      BY <1>1, <2>3
    <3> QED
      BY <1>5, <1>8, <3>1
  <2>4. \A k \in l .. (mid - 1) : k \in l .. r
    BY <1>1
  <2> QED
    BY <1>3, <1>4, <2>2, <2>3, <2>4 DEF FoundIn
<1>9. e[mid] \in Int /\ s[mid + 1] = e[mid]
  BY <1>1, <1>3
<1>10. e[mid] = id \/ e[mid] < id \/ id < e[mid]
  BY <1>9
<1> QED
  BY <1>6, <1>7, <1>8, <1>9, <1>10

\* Every range the search comes to is searched right: by induction on its length.
LEMMA FindCorrect ==
    ASSUME NEW s \in Seq(Int), Ascending(s), NEW id \in Int
    PROVE  Find(s, id) = IF id \in ToSet(s) THEN (CHOOSE i \in DOMAIN s : s[i] = id) - 1 ELSE NoPosition
<1>1. PICK found : /\ \A p \in Ranges(s) : found[p] = AtRange(s, id, found, p)
                   /\ Find(s, id) = IF s = <<>> THEN NoPosition ELSE found[<<0, Len(s) - 1>>]
  BY FindSolved
<1> DEFINE P == {n \in Nat : \A p \in Ranges(s) :
                                RangeRank(s)[p] = n /\ Reachable(s, id, p[1], p[2]) =>
                                    FoundIn(s, id, found[p], p[1], p[2])}
<1>2. ASSUME NEW n \in Nat, \A k \in Nat : k < n => k \in P PROVE n \in P
  <2>1. SUFFICES ASSUME NEW p \in Ranges(s), RangeRank(s)[p] = n, Reachable(s, id, p[1], p[2])
                 PROVE  FoundIn(s, id, found[p], p[1], p[2])
    OBVIOUS
  <2>2. PICK l \in 0 .. Len(s), r \in -1 .. Len(s) - 1 : p = <<l, r>> /\ l = p[1] /\ r = p[2]
    BY RangeType
  <2>3. PICK mid : mid = Middle(l, r)
    OBVIOUS
  <2>4. found[p] = IF l >= r \/ s[mid + 1] = id
                   THEN IF s[mid + 1] = id THEN mid ELSE NoPosition
                   ELSE IF s[mid + 1] < id THEN found[<<mid + 1, r>>] ELSE found[<<l, mid - 1>>]
    BY <1>1, <2>2, <2>3, Zenon DEF AtRange, SearchAt, Middle
  <2>5. \A q \in Ranges(s) : RangeRank(s)[q] < n /\ Reachable(s, id, q[1], q[2])
                                => FoundIn(s, id, found[q], q[1], q[2])
    BY <1>2, RangeType
  <2>6. Reachable(s, id, l, r)
    BY <2>1, <2>2
  <2>7. CASE l < r
    <3>1. mid \in l .. (r - 1) /\ ~(l >= r)
      BY <2>3, <2>7, MiddleOf
    <3>2. /\ <<mid + 1, r>> \in Ranges(s) /\ RangeRank(s)[<<mid + 1, r>>] < n
          /\ <<l, mid - 1>> \in Ranges(s) /\ RangeRank(s)[<<l, mid - 1>>] < n
      BY <2>1, <2>2, <2>7, <3>1, NextRanges
    <3>3. /\ Reachable(s, id, mid + 1, r) => FoundIn(s, id, found[<<mid + 1, r>>], mid + 1, r)
          /\ Reachable(s, id, l, mid - 1) => FoundIn(s, id, found[<<l, mid - 1>>], l, mid - 1)
      BY <2>5, <3>2
    <3>4. FoundIn(s, id, found[p], l, r)
      BY <2>4, <2>6, <2>7, <3>1, <3>3, SearchStep
    <3> QED
      BY <2>2, <3>4
  <2>8. CASE ~(l < r)
    <3>1. l >= r /\ (l = r \/ l = r + 1) /\ l \in 0 .. Len(s) - 1
      BY <2>6, <2>8 DEF Reachable
    <3>2. mid = l
      BY <2>3, <3>1, MiddleOf
    <3>3. found[p] = IF s[l + 1] = id THEN l ELSE NoPosition
      BY <2>4, <3>1, <3>2
    <3>4. l = r => l .. r = {l}
      BY <3>1
    <3>5. l = r + 1 => l .. r = {} /\ s[l + 1] # id
      BY <2>6, <3>1 DEF Reachable
    <3>6. FoundIn(s, id, found[p], l, r)
      BY <3>1, <3>3, <3>4, <3>5 DEF FoundIn
    <3> QED
      BY <2>2, <3>6
  <2> QED
    BY <2>7, <2>8
<1> HIDE DEF P
<1>3. Nat \subseteq P
  BY <1>2, NatStrong
<1>4. \A p \in Ranges(s) : Reachable(s, id, p[1], p[2]) => FoundIn(s, id, found[p], p[1], p[2])
  BY <1>3, RangeType DEF P
<1>5. CASE s = <<>>
  <2>1. id \notin ToSet(s)
    BY <1>5 DEF ToSet
  <2> QED
    BY <1>1, <1>5, <2>1
<1>6. CASE s # <<>>
  <2>1. Len(s) \in Nat /\ Len(s) # 0 /\ DOMAIN s = 1 .. Len(s)
    BY <1>6
  <2>2. <<0, Len(s) - 1>> \in Ranges(s) /\ Reachable(s, id, 0, Len(s) - 1)
    BY <2>1 DEF Ranges, Reachable
  <2>3. FoundIn(s, id, Find(s, id), 0, Len(s) - 1)
    BY <1>1, <1>4, <1>6, <2>2
  <2>4. ASSUME NEW i \in DOMAIN s PROVE i - 1 \in 0 .. Len(s) - 1 /\ (i - 1) + 1 = i
    BY <2>1
  <2>5. CASE id \in ToSet(s)
    <3>1. PICK j \in DOMAIN s : s[j] = id
      BY <2>5 DEF ToSet
    <3>2. PICK i \in DOMAIN s : i = CHOOSE k \in DOMAIN s : s[k] = id
      BY <3>1
    <3>3. s[i] = id
      BY <3>1, <3>2
    <3>4. Find(s, id) = i - 1
      BY <2>3, <2>4, <3>3 DEF FoundIn
    <3> QED
      BY <2>5, <3>2, <3>4
  <2>6. CASE id \notin ToSet(s)
    <3>1. ASSUME NEW k \in 0 .. Len(s) - 1 PROVE s[k + 1] # id
      <4>1. k + 1 \in DOMAIN s
        BY <2>1
      <4> QED
        BY <2>6, <4>1 DEF ToSet
    <3> QED
      BY <2>3, <2>6, <3>1 DEF FoundIn
  <2> QED
    BY <2>5, <2>6
<1> QED
  BY <1>5, <1>6

-----------------------------------------------------------------------------
(* Trees of indexes                                                        *)

Index == {t \in Seq(Int) : Ascending(t)}
IsIndexes(set) == set \in Seq(Index) /\ set # <<>>

\* A pair of indexes, either of which may be empty.
LEMMA PairCorrect ==
    ASSUME NEW op \in Ops, NEW x \in Index, NEW y \in Index
    PROVE  Pair(op, x, y) \in Index /\ ToSet(Pair(op, x, y)) = Selected(op, ToSet(x), ToSet(y))
<1>1. x \in Seq(Int) /\ Ascending(x) /\ y \in Seq(Int) /\ Ascending(y)
  BY DEF Index
<1>2. Consistent(op) /\ \A X, Y : Pushed(op, X, Y) = Selected(op, X, Y)
  BY OpsSelect
<1>3. <<>> \in Index /\ ToSet(<<>>) = {}
  BY EmptyEnumerates DEF Index, Enumerates
<1>4. CASE x # <<>> /\ y # <<>>
  <2>1. Pair(op, x, y) = Execute(op, x, y)
    BY <1>4 DEF Pair
  <2>2. Execute(op, x, y) \in Seq(Int) /\ Enumerates(Execute(op, x, y), Selected(op, ToSet(x), ToSet(y)))
    BY <1>1, ExecuteCorrect
  <2> QED
    BY <2>1, <2>2 DEF Index, Enumerates
<1>5. CASE x = <<>>
  <2>1. Pair(op, x, y) = IF TakesSecond(op) THEN y ELSE <<>>
    BY <1>2, <1>5, Zenon DEF Pair, OnEmpty, When, Consistent, TakesSecond
  <2>2. ToSet(x) = {}
    BY <1>3, <1>5
  <2>3. Selected(op, {}, ToSet(y)) = IF TakesSecond(op) THEN ToSet(y) ELSE {}
    <3>1. Pushed(op, {}, ToSet(y)) = IF TakesSecond(op) THEN ToSet(y) ELSE {}
      BY DEF Pushed
    <3> QED
      BY <1>2, <3>1
  <2> QED
    BY <1>3, <2>1, <2>2, <2>3
<1>6. CASE x # <<>> /\ y = <<>>
  <2>1. Pair(op, x, y) = IF TakesFirst(op) THEN x ELSE <<>>
    BY <1>2, <1>6, Zenon DEF Pair, OnEmpty, When, Consistent, TakesFirst
  <2>2. ToSet(y) = {}
    BY <1>3, <1>6
  <2>3. Selected(op, ToSet(x), {}) = IF TakesFirst(op) THEN ToSet(x) ELSE {}
    <3>1. Pushed(op, ToSet(x), {}) = IF TakesFirst(op) THEN ToSet(x) ELSE {}
      BY DEF Pushed
    <3> QED
      BY <1>2, <3>1
  <2> QED
    BY <1>3, <2>1, <2>2, <2>3
<1> QED
  BY <1>4, <1>5, <1>6

PartRank(set) == [p \in Parts(set) |-> p[2] - p[1]]
AtPart(op, set, part, p) == WithTreeAt(op, set, part, p[1], p[2])

LEMMA PartType ==
    ASSUME NEW set, IsIndexes(set)
    PROVE  /\ PartRank(set) \in [Parts(set) -> Nat]
           /\ \A p \in Parts(set) :
                 p[1] \in 1 .. Len(set) /\ p[2] \in 1 .. Len(set) /\ p[1] <= p[2] /\ p = <<p[1], p[2]>>
           /\ \A a, b \in 1 .. Len(set) : a <= b => <<a, b>> \in Parts(set) /\ PartRank(set)[<<a, b>>] = b - a
           /\ Len(set) \in Nat \ {0} /\ \A i \in 1 .. Len(set) : set[i] \in Index
<1>1. Len(set) \in Nat \ {0} /\ \A i \in 1 .. Len(set) : set[i] \in Index
  BY DEF IsIndexes
<1> QED
  BY <1>1 DEF PartRank, Parts

\* The two halves of a part.
Cut(a, b) == a + (b - a) \div 2

LEMMA CutOf == ASSUME NEW a \in Int, NEW b \in Int, a < b PROVE Cut(a, b) \in a .. (b - 1)
  BY DEF Cut

LEMMA Halves ==
    ASSUME NEW set, IsIndexes(set), NEW a \in 1 .. Len(set), NEW b \in 1 .. Len(set), a < b,
           NEW mid \in a .. (b - 1)
    PROVE  /\ <<a, mid>> \in Parts(set) /\ PartRank(set)[<<a, mid>>] < PartRank(set)[<<a, b>>]
           /\ <<mid + 1, b>> \in Parts(set) /\ PartRank(set)[<<mid + 1, b>>] < PartRank(set)[<<a, b>>]
<1>1. Len(set) \in Nat
  BY PartType
<1>2. mid \in 1 .. Len(set) /\ mid + 1 \in 1 .. Len(set) /\ a <= mid /\ mid + 1 <= b /\ a <= b
  BY <1>1
<1>3. /\ <<a, mid>> \in Parts(set) /\ PartRank(set)[<<a, mid>>] = mid - a
      /\ <<mid + 1, b>> \in Parts(set) /\ PartRank(set)[<<mid + 1, b>>] = b - (mid + 1)
      /\ PartRank(set)[<<a, b>>] = b - a
  BY <1>2, PartType
<1> QED
  BY <1>3

LEMMA WithTreeAtIs ==
    ASSUME NEW op, NEW set, NEW part, NEW a, NEW b, NEW p, p[1] = a, p[2] = b
    PROVE  AtPart(op, set, part, p) =
              IF a = b THEN set[a] ELSE Pair(op, part[<<a, Cut(a, b)>>], part[<<Cut(a, b) + 1, b>>])
  BY Zenon DEF AtPart, WithTreeAt, Cut

LEMMA WithTreeAtType ==
    ASSUME NEW op \in Ops, NEW set, IsIndexes(set), NEW g \in [Parts(set) -> Index], NEW p \in Parts(set)
    PROVE  AtPart(op, set, g, p) \in Index
<1>1. PICK a \in 1 .. Len(set), b \in 1 .. Len(set) : p = <<a, b>> /\ a = p[1] /\ b = p[2] /\ a <= b
  BY PartType
<1>2. CASE a = b
  <2>1. AtPart(op, set, g, p) = set[a]
    BY <1>1, <1>2, Zenon DEF AtPart, WithTreeAt
  <2> QED
    BY <2>1, PartType
<1>3. CASE a # b
  <2>1. PICK mid : mid = Cut(a, b)
    OBVIOUS
  <2>2. a < b /\ mid \in a .. (b - 1)
    BY <1>1, <1>3, <2>1, CutOf
  <2>3. g[<<a, mid>>] \in Index /\ g[<<mid + 1, b>>] \in Index
    BY <2>2, Halves
  <2>4. Pair(op, g[<<a, mid>>], g[<<mid + 1, b>>]) \in Index
    BY <2>3, PairCorrect
  <2> QED
    BY <1>1, <1>3, <2>1, <2>4, WithTreeAtIs
<1> QED
  BY <1>2, <1>3

LEMMA WithTreeAtDescends ==
    ASSUME NEW op, NEW set, IsIndexes(set), NEW p \in Parts(set), NEW g, NEW h,
           AgreeBelow(Parts(set), PartRank(set), g, h, PartRank(set)[p])
    PROVE  AtPart(op, set, g, p) = AtPart(op, set, h, p)
<1>1. PICK a \in 1 .. Len(set), b \in 1 .. Len(set) : p = <<a, b>> /\ a = p[1] /\ b = p[2] /\ a <= b
  BY PartType
<1>2. CASE a = b
  BY <1>1, <1>2, Zenon DEF AtPart, WithTreeAt
<1>3. CASE a # b
  <2>1. PICK mid : mid = Cut(a, b)
    OBVIOUS
  <2>2. a < b /\ mid \in a .. (b - 1)
    BY <1>1, <1>3, <2>1, CutOf
  <2>3. g[<<a, mid>>] = h[<<a, mid>>] /\ g[<<mid + 1, b>>] = h[<<mid + 1, b>>]
    BY <1>1, <2>2, Halves DEF AgreeBelow
  <2>4. /\ AtPart(op, set, g, p) = Pair(op, g[<<a, mid>>], g[<<mid + 1, b>>])
        /\ AtPart(op, set, h, p) = Pair(op, h[<<a, mid>>], h[<<mid + 1, b>>])
    BY <1>1, <1>3, <2>1, Zenon DEF AtPart, WithTreeAt, Cut
  <2> QED
    BY <2>3, <2>4
<1> QED
  BY <1>2, <1>3

LEMMA WithTreeSolved ==
    ASSUME NEW op \in Ops, NEW set, IsIndexes(set)
    PROVE  \E part : /\ \A p \in Parts(set) : part[p] = AtPart(op, set, part, p)
                     /\ WithTree(op, set) = part[<<1, Len(set)>>]
<1>1. PICK D, V, r : D = Parts(set) /\ V = Index /\ r = PartRank(set)
  OBVIOUS
<1>2. PICK B : B = [q \in D \X [D -> V] |-> AtPart(op, set, q[2], q[1])]
  OBVIOUS
<1>3. r \in [D -> Nat] /\ V # {}
  BY <1>1, PartType, EmptyEnumerates DEF Index, Enumerates
<1>4. \A x \in D, g \in [D -> V] : B[<<x, g>>] = AtPart(op, set, g, x)
  BY <1>2
<1>5. B \in [D \X [D -> V] -> V]
  <2>1. ASSUME NEW x \in D, NEW g \in [D -> V] PROVE AtPart(op, set, g, x) \in V
    BY <1>1, WithTreeAtType
  <2> QED
    BY <1>2, <2>1
<1>6. Descends(D, V, r, B)
  <2>1. SUFFICES ASSUME NEW x \in D, NEW g \in [D -> V], NEW h \in [D -> V],
                        \A y \in D : r[y] < r[x] => g[y] = h[y]
                 PROVE  B[<<x, g>>] = B[<<x, h>>]
    BY DEF Descends
  <2>2. AgreeBelow(Parts(set), PartRank(set), g, h, PartRank(set)[x])
    BY <1>1, <2>1 DEF AgreeBelow
  <2>3. x \in Parts(set)
    BY <1>1
  <2>4. AtPart(op, set, g, x) = AtPart(op, set, h, x)
    BY <2>2, <2>3, WithTreeAtDescends
  <2> QED
    BY <1>4, <2>4
<1>7. PICK h : Solves(D, V, B, h)
  <2>1. IsRecursion(D, V, r, B)
    BY <1>3, <1>5, <1>6 DEF IsRecursion
  <2> QED
    BY <2>1, RankedRecursion
<1>8. h = [p \in Parts(set) |-> AtPart(op, set, h, p)]
  BY <1>1, <1>4, <1>7 DEF Solves
<1>9. PICK part : /\ part = [p \in Parts(set) |-> AtPart(op, set, part, p)]
                  /\ WithTree(op, set) = part[<<1, Len(set)>>]
  BY <1>8 DEF WithTree, AtPart
<1> QED
  BY <1>9

\* The ids of all, or of some, of the indexes of a part.
Joined(op, set, a, b) ==
    {id \in Int : IF op = IntersectOp THEN \A i \in a .. b : id \in ToSet(set[i])
                                      ELSE \E i \in a .. b : id \in ToSet(set[i])}

LEMMA IdsAreInts == ASSUME NEW x \in Index PROVE ToSet(x) \in SUBSET Int
  BY DEF Index, ToSet

LEMMA JoinedOne ==
    ASSUME NEW op, NEW set, NEW a \in Int, set[a] \in Index
    PROVE  Joined(op, set, a, a) = ToSet(set[a])
<1>1. a .. a = {a}
  OBVIOUS
<1>2. ToSet(set[a]) \in SUBSET Int
  BY IdsAreInts
<1> QED
  BY <1>1, <1>2 DEF Joined

LEMMA JoinedHalves ==
    ASSUME NEW op \in {IntersectOp, UniteOp}, NEW set, NEW a \in Int, NEW b \in Int, NEW mid \in a .. (b - 1)
    PROVE  Selected(op, Joined(op, set, a, mid), Joined(op, set, mid + 1, b)) = Joined(op, set, a, b)
<1>1. \A i : i \in a .. b <=> i \in a .. mid \/ i \in (mid + 1) .. b
  OBVIOUS
<1>2. UniteOp # IntersectOp
  BY DEF IntersectOp, UniteOp, Op
<1>3. IntersectOp # DifferenceOp /\ UniteOp # DifferenceOp
  BY DEF IntersectOp, UniteOp, DifferenceOp, Op
<1>4. CASE op = IntersectOp
  <2>1. Selected(op, Joined(op, set, a, mid), Joined(op, set, mid + 1, b))
           = Joined(op, set, a, mid) \cap Joined(op, set, mid + 1, b)
    BY <1>2, <1>3, <1>4, Zenon DEF Selected
  <2>2. \A c, d, id : id \in Joined(op, set, c, d) <=> id \in Int /\ \A i \in c .. d : id \in ToSet(set[i])
    BY <1>4, Zenon DEF Joined
  <2>3. ASSUME NEW id
        PROVE  id \in Joined(op, set, a, b)
                  <=> id \in Joined(op, set, a, mid) /\ id \in Joined(op, set, mid + 1, b)
    BY <1>1, <2>2, Zenon
  <2> QED
    BY <2>1, <2>3
<1>5. CASE op = UniteOp
  <2>1. Selected(op, Joined(op, set, a, mid), Joined(op, set, mid + 1, b))
           = Joined(op, set, a, mid) \cup Joined(op, set, mid + 1, b)
    BY <1>2, <1>3, <1>5, Zenon DEF Selected
  <2>2. \A c, d, id : id \in Joined(op, set, c, d) <=> id \in Int /\ \E i \in c .. d : id \in ToSet(set[i])
    BY <1>2, <1>5, Zenon DEF Joined
  <2>3. ASSUME NEW id
        PROVE  id \in Joined(op, set, a, b)
                  <=> id \in Joined(op, set, a, mid) \/ id \in Joined(op, set, mid + 1, b)
    BY <1>1, <2>2, Zenon
  <2> QED
    BY <2>1, <2>3
<1> QED
  BY <1>4, <1>5

\* Every part of the tree is right: by induction on how many indexes it has.
LEMMA TreeCorrect ==
    ASSUME NEW op \in {IntersectOp, UniteOp}, NEW set, IsIndexes(set)
    PROVE  Enumerates(AllOf(op, set), Joined(op, set, 1, Len(set)))
<1>0. op \in Ops
  BY DEF Ops
<1>1. PICK part : /\ \A p \in Parts(set) : part[p] = AtPart(op, set, part, p)
                  /\ WithTree(op, set) = part[<<1, Len(set)>>]
  BY <1>0, WithTreeSolved
<1> DEFINE P == {n \in Nat : \A p \in Parts(set) :
                    PartRank(set)[p] = n => part[p] \in Index /\ ToSet(part[p]) = Joined(op, set, p[1], p[2])}
<1>2. ASSUME NEW n \in Nat, \A k \in Nat : k < n => k \in P PROVE n \in P
  <2>1. SUFFICES ASSUME NEW p \in Parts(set), PartRank(set)[p] = n
                 PROVE  part[p] \in Index /\ ToSet(part[p]) = Joined(op, set, p[1], p[2])
    OBVIOUS
  <2>2. PICK a \in 1 .. Len(set), b \in 1 .. Len(set) : p = <<a, b>> /\ a = p[1] /\ b = p[2] /\ a <= b
    BY PartType
  <2>3. \A q \in Parts(set) : PartRank(set)[q] < n =>
            part[q] \in Index /\ ToSet(part[q]) = Joined(op, set, q[1], q[2])
    BY <1>2, PartType
  <2>4. CASE a = b
    <3>1. part[p] = set[a]
      BY <1>1, <2>2, <2>4, Zenon DEF AtPart, WithTreeAt
    <3>2. set[a] \in Index
      BY PartType
    <3>3. Joined(op, set, a, a) = ToSet(set[a])
      BY <3>2, JoinedOne
    <3> QED
      BY <2>2, <2>4, <3>1, <3>2, <3>3
  <2>5. CASE a # b
    <3>1. PICK mid : mid = Cut(a, b)
      OBVIOUS
    <3>2. a < b /\ mid \in a .. (b - 1)
      BY <2>2, <2>5, <3>1, CutOf
    <3>3. PICK x, y : x = part[<<a, mid>>] /\ y = part[<<mid + 1, b>>]
      OBVIOUS
    <3>4. /\ <<a, mid>> \in Parts(set) /\ PartRank(set)[<<a, mid>>] < n
          /\ <<mid + 1, b>> \in Parts(set) /\ PartRank(set)[<<mid + 1, b>>] < n
      BY <2>1, <2>2, <3>2, Halves
    <3>5. /\ x \in Index /\ ToSet(x) = Joined(op, set, a, mid)
          /\ y \in Index /\ ToSet(y) = Joined(op, set, mid + 1, b)
      BY <2>3, <3>3, <3>4
    <3>6. part[p] = Pair(op, x, y)
      BY <1>1, <2>2, <2>5, <3>1, <3>3, WithTreeAtIs
    <3>7. part[p] \in Index /\ ToSet(part[p]) = Selected(op, ToSet(x), ToSet(y))
      BY <1>0, <3>5, <3>6, PairCorrect
    <3>8. Selected(op, Joined(op, set, a, mid), Joined(op, set, mid + 1, b)) = Joined(op, set, a, b)
      BY <3>2, JoinedHalves
    <3> QED
      BY <2>2, <3>5, <3>7, <3>8
  <2> QED
    BY <2>4, <2>5
<1> HIDE DEF P
<1>3. Nat \subseteq P
  BY <1>2, NatStrong
<1>4. \A p \in Parts(set) : part[p] \in Index /\ ToSet(part[p]) = Joined(op, set, p[1], p[2])
  BY <1>3, PartType DEF P
<1>5. <<1, Len(set)>> \in Parts(set)
  <2>1. 1 \in 1 .. Len(set) /\ Len(set) \in 1 .. Len(set) /\ 1 <= Len(set)
    BY PartType
  <2> QED
    BY <2>1 DEF Parts
<1>6. AllOf(op, set) = WithTree(op, set)
  BY DEF AllOf, IsIndexes
<1> QED
  BY <1>1, <1>4, <1>5, <1>6 DEF Enumerates, Index

-----------------------------------------------------------------------------
(* The theorems                                                            *)

\* ItemIndex::intersect and ItemIndex::unite of any number of indexes, with empty ones
\* anywhere among them, enumerate the ids of all and of some of them.
THEOREM AllTreesCorrect ==
    ASSUME NEW set, IsIndexes(set)
    PROVE  Enumerates(AllOf(IntersectOp, set), InAll(set)) /\ Enumerates(AllOf(UniteOp, set), InSome(set))
<1>1. Len(set) \in Nat \ {0} /\ DOMAIN set = 1 .. Len(set) /\ \A i \in DOMAIN set : ToSet(set[i]) \in SUBSET Int
  <2>1. DOMAIN set = 1 .. Len(set)
    BY DEF IsIndexes
  <2> QED
    BY <2>1, PartType, IdsAreInts
<1>2. 1 \in DOMAIN set
  BY <1>1
<1>3. UniteOp # IntersectOp
  BY DEF IntersectOp, UniteOp, Op
<1>4. ASSUME NEW id PROVE id \in Joined(IntersectOp, set, 1, Len(set)) <=> id \in InAll(set)
  BY <1>1, <1>2 DEF Joined, InAll
<1>5. ASSUME NEW id PROVE id \in Joined(UniteOp, set, 1, Len(set)) <=> id \in InSome(set)
  BY <1>1, <1>3 DEF Joined, InSome
<1>6. Joined(IntersectOp, set, 1, Len(set)) = InAll(set) /\ Joined(UniteOp, set, 1, Len(set)) = InSome(set)
  BY <1>4, <1>5
<1> QED
  BY <1>6, TreeCorrect

\* Only ascending ids are pushed.
IndexesInv ==
    /\ first \in Seq(0 .. MaxId) /\ Ascending(first)
    /\ second \in Seq(0 .. MaxId) /\ Ascending(second)

LEMMA AppendAscends ==
    ASSUME NEW s \in Seq(0 .. MaxId), Ascending(s), NEW id \in 0 .. MaxId, Ascends(s, id), NEW t, t = Append(s, id)
    PROVE  t \in Seq(0 .. MaxId) /\ Ascending(t)
<1>1. t \in Seq(0 .. MaxId) /\ Len(t) = Len(s) + 1 /\ Len(s) \in Nat
  OBVIOUS
<1>2. t[Len(s) + 1] = id /\ \A i \in DOMAIN s : t[i] = s[i]
  OBVIOUS
<1>3. DOMAIN s = 1 .. Len(s) /\ DOMAIN t = 1 .. Len(s) + 1
  BY <1>1
<1>4. SUFFICES ASSUME NEW i \in DOMAIN t, NEW j \in DOMAIN t, i < j PROVE t[i] < t[j]
  BY <1>1 DEF Ascending
<1>5. i \in DOMAIN s
  BY <1>1, <1>3, <1>4
<1>6. j \in DOMAIN s \/ j = Len(s) + 1
  BY <1>1, <1>3
<1> QED
  BY <1>2, <1>4, <1>5, <1>6 DEF Ascending, Ascends

LEMMA IndexesInductive == Spec => []IndexesInv
<1>1. InitIndexes => IndexesInv
  BY DEF InitIndexes, IndexesInv, Ascending
<1>2. ASSUME IndexesInv, [NextIndexes]_indexes PROVE IndexesInv'
  <2>1. ASSUME NEW id \in 0 .. MaxId, PushFirst(id) PROVE IndexesInv'
    <3>1. first' \in Seq(0 .. MaxId) /\ Ascending(first')
      BY <1>2, <2>1, AppendAscends DEF PushFirst, IndexesInv
    <3> QED
      BY <1>2, <2>1, <3>1 DEF PushFirst, IndexesInv, Ascending
  <2>2. ASSUME NEW id \in 0 .. MaxId, PushSecond(id) PROVE IndexesInv'
    <3>1. second' \in Seq(0 .. MaxId) /\ Ascending(second')
      BY <1>2, <2>2, AppendAscends DEF PushSecond, IndexesInv
    <3> QED
      BY <1>2, <2>2, <3>1 DEF PushSecond, IndexesInv, Ascending
  <2>3. CASE UNCHANGED indexes
    BY <1>2, <2>3 DEF indexes, IndexesInv, Ascending
  <2> QED
    BY <1>2, <2>1, <2>2, <2>3 DEF NextIndexes
<1> QED
  BY <1>1, <1>2, PTL DEF Spec

LEMMA IndexesAreIndexes ==
    ASSUME IndexesInv
    PROVE  first \in Index /\ second \in Index
<1>1. \A s \in Seq(0 .. MaxId) : s \in Seq(Int)
  BY ItemIndexAssumption
<1> QED
  BY <1>1 DEF IndexesInv, Index

\* GenericSetOpExecuter merges and ItemIndexPrivate::find searches right, for all ids and
\* indexes of any length.
THEOREM MergeAndFindCorrect == Spec => []GenericRight
<1>1. ASSUME IndexesInv PROVE GenericRight
  <2>1. first \in Seq(Int) /\ Ascending(first) /\ second \in Seq(Int) /\ Ascending(second)
    BY <1>1, IndexesAreIndexes DEF Index
  <2>2. ExecuteRight
    BY <2>1, ExecuteCorrect DEF ExecuteRight
  <2>3. ASSUME NEW id \in 0 .. MaxId PROVE id \in Int
    BY ItemIndexAssumption
  <2>4. FindRight
    BY <2>1, <2>3, FindCorrect DEF FindRight
  <2> QED
    BY <2>2, <2>4 DEF GenericRight
<1> QED
  BY <1>1, IndexesInductive, PTL

\* The native set operations never write behind the memory they reserved.
THEOREM NativeMemoryFits == Spec => []NativeFits
<1>1. ASSUME IndexesInv PROVE NativeFits
  <2>1. first \in Seq(Int) /\ Ascending(first) /\ second \in Seq(Int) /\ Ascending(second)
    BY <1>1, IndexesAreIndexes DEF Index
  <2> QED
    BY <2>1, ExecuteCorrect DEF NativeFits
<1> QED
  BY <1>1, IndexesInductive, PTL

\* The trees of the runs are instances of AllTreesCorrect.
THEOREM TreesCorrect == Spec => []TreesRight
<1>1. ASSUME IndexesInv PROVE TreesRight
  <2>1. first \in Index /\ second \in Index /\ <<>> \in Index
    BY <1>1, IndexesAreIndexes, EmptyEnumerates DEF Index, Enumerates
  <2>2. PICK a, b, c : a = first /\ b = second /\ c = <<>>
    OBVIOUS
  <2>3. /\ IsIndexes(<<a, b, a>>) /\ IsIndexes(<<a, c, b>>) /\ IsIndexes(<<b, a, b, c, a>>)
    BY <2>1, <2>2 DEF IsIndexes
  <2>4. ASSUME NEW set \in {<<first, second, first>>, <<first, <<>>, second>>,
                            <<second, first, second, <<>>, first>>}
        PROVE  IsIndexes(set)
    BY <2>2, <2>3
  <2> QED
    BY <2>4, AllTreesCorrect DEF TreesRight
<1> QED
  BY <1>1, IndexesInductive, PTL
=============================================================================
