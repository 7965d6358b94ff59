------------------------------ MODULE Induction ------------------------------
(***************************************************************************)
(* Induction and recursion over data without operators as parameters: a    *)
(* property is the set of the numbers that have it, a recursive definition *)
(* the function from a point and a candidate to the value it demands.  The *)
(* proofs about the algorithms on sequences rest on these facts.           *)
(* Sums over finite sets, the same way: numbers are added by counting.     *)
(***************************************************************************)
EXTENDS Integers, TLAPS, FiniteSetTheorems, WellFoundedInduction

\* Every nonempty set of natural numbers has a least element.
LEMMA NatMin ==
    ASSUME NEW T \in SUBSET Nat, T # {}
    PROVE  \E x \in T : \A y \in T : x <= y
<1>1. IsWellFoundedOn(OpToRel(<, Nat), Nat)
  BY NatLessThanWellFounded
<1>2. PICK x \in T : \A y \in T : ~(<<y, x>> \in OpToRel(<, Nat))
  BY <1>1, WFMin
<1>3. \A y \in T : ~(y < x)
  BY <1>2 DEF OpToRel
<1> QED
  BY <1>3

\* A set that holds a number whenever it holds all smaller ones holds all.
LEMMA NatStrong ==
    ASSUME NEW P, \A n \in Nat : (\A k \in Nat : k < n => k \in P) => n \in P
    PROVE  Nat \subseteq P
<1>1. SUFFICES ASSUME Nat \ P # {} PROVE FALSE
  OBVIOUS
<1>2. PICK n \in Nat \ P : \A k \in Nat \ P : n <= k
  BY <1>1, NatMin
<1>3. \A k \in Nat : k < n => k \in P
  BY <1>2
<1> QED
  BY <1>2, <1>3

\* A set that holds 0 and with every number the next one holds all.
LEMMA NatSteps ==
    ASSUME NEW P, 0 \in P, \A n \in Nat : n \in P => n + 1 \in P
    PROVE  Nat \subseteq P
<1>1. ASSUME NEW n \in Nat, \A k \in Nat : k < n => k \in P PROVE n \in P
  <2>1. CASE n = 0
    BY <2>1
  <2>2. CASE n # 0
    <3>1. n - 1 \in Nat /\ n - 1 < n /\ (n - 1) + 1 = n
      BY <2>2
    <3> QED
      BY <1>1, <3>1
  <2> QED
    BY <2>1, <2>2
<1> QED
  BY <1>1, NatStrong

-----------------------------------------------------------------------------

\* f is what the recursive definition B demands, at all points of D of rank below n.
SolvesBelow(D, r, B, f, n) == \A x \in D : r[x] < n => f[x] = B[<<x, f>>]

\* The value B demands at a point depends on points of smaller rank only.
Descends(D, V, r, B) ==
    \A x \in D : \A f, g \in [D -> V] :
        (\A y \in D : r[y] < r[x] => f[y] = g[y]) => B[<<x, f>>] = B[<<x, g>>]

AgreeBelow(D, r, f, g, n) == \A x \in D : r[x] < n => f[x] = g[x]

\* Two solutions agree wherever both are solutions.
LEMMA SolutionsAgree ==
    ASSUME NEW D, NEW V, NEW r \in [D -> Nat], NEW B \in [D \X [D -> V] -> V],
           Descends(D, V, r, B), NEW f \in [D -> V], NEW g \in [D -> V], NEW n \in Nat,
           SolvesBelow(D, r, B, f, n), SolvesBelow(D, r, B, g, n)
    PROVE  AgreeBelow(D, r, f, g, n)
<1> DEFINE P == {k \in Nat : \A x \in D : r[x] = k /\ k < n => f[x] = g[x]}
<1>1. ASSUME NEW k \in Nat, \A j \in Nat : j < k => j \in P PROVE k \in P
  <2>1. SUFFICES ASSUME NEW x \in D, r[x] = k, k < n PROVE f[x] = g[x]
    OBVIOUS
  <2>2. ASSUME NEW y \in D, r[y] < r[x] PROVE f[y] = g[y]
    <3>1. r[y] \in Nat /\ r[y] < k /\ r[y] < n
      BY <2>1, <2>2
    <3> QED
      BY <1>1, <3>1
  <2>3. B[<<x, f>>] = B[<<x, g>>]
    BY <2>2 DEF Descends
  <2> QED
    BY <2>1, <2>3 DEF SolvesBelow
<1> HIDE DEF P
<1>2. Nat \subseteq P
  BY <1>1, NatStrong
<1> QED
  BY <1>2 DEF P, AgreeBelow

IsRecursion(D, V, r, B) ==
    V # {} /\ r \in [D -> Nat] /\ B \in [D \X [D -> V] -> V] /\ Descends(D, V, r, B)
Solves(D, V, B, f) == f \in [D -> V] /\ \A x \in D : f[x] = B[<<x, f>>]

\* A recursive definition whose demands descend has a solution.
LEMMA RankedRecursion ==
    ASSUME NEW D, NEW V, NEW r, NEW B, IsRecursion(D, V, r, B)
    PROVE  \E f : Solves(D, V, B, f)
<1>0. V # {} /\ r \in [D -> Nat] /\ B \in [D \X [D -> V] -> V] /\ Descends(D, V, r, B)
  BY DEF IsRecursion
<1> DEFINE P == {n \in Nat : \E f \in [D -> V] : SolvesBelow(D, r, B, f, n)}
<1>1. 0 \in P
  <2>1. PICK v \in V : TRUE
    BY <1>0
  <2>2. [x \in D |-> v] \in [D -> V] /\ SolvesBelow(D, r, B, [x \in D |-> v], 0)
    BY <1>0 DEF SolvesBelow
  <2> QED
    BY <2>2
<1>2. ASSUME NEW n \in Nat, n \in P PROVE n + 1 \in P
  <2>1. PICK f \in [D -> V] : SolvesBelow(D, r, B, f, n)
    BY <1>2
  <2>2. PICK g : g = [x \in D |-> B[<<x, f>>]]
    OBVIOUS
  <2>3. g \in [D -> V]
    BY <1>0, <2>2
  <2>4. ASSUME NEW x \in D, r[x] < n + 1 PROVE g[x] = B[<<x, g>>]
    <3>1. ASSUME NEW y \in D, r[y] < r[x] PROVE f[y] = g[y]
      <4>1. r[y] < n
        BY <1>0, <2>4, <3>1
      <4> QED
        BY <1>0, <2>1, <2>2, <4>1 DEF SolvesBelow
    <3>2. B[<<x, f>>] = B[<<x, g>>]
      BY <1>0, <2>3, <3>1 DEF Descends
    <3> QED
      BY <1>0, <2>2, <3>2
  <2> QED
    BY <1>0, <2>3, <2>4 DEF SolvesBelow
<1> HIDE DEF P
<1>3. Nat \subseteq P
  BY <1>1, <1>2, NatSteps
<1>4. \A n \in Nat : \E f \in [D -> V] : SolvesBelow(D, r, B, f, n)
  BY <1>3 DEF P
<1>5. PICK S : S = [n \in Nat |-> CHOOSE f \in [D -> V] : SolvesBelow(D, r, B, f, n)]
  OBVIOUS
<1>6. \A n \in Nat : S[n] \in [D -> V] /\ SolvesBelow(D, r, B, S[n], n)
  BY <1>4, <1>5
<1>7. PICK h : h = [x \in D |-> S[r[x] + 1][x]]
  OBVIOUS
<1>8. h \in [D -> V]
  BY <1>0, <1>6, <1>7
<1>9. ASSUME NEW x \in D PROVE h[x] = B[<<x, h>>]
  <2>1. PICK a \in [D -> V] : a = S[r[x] + 1] /\ SolvesBelow(D, r, B, a, r[x] + 1)
    BY <1>0, <1>6
  <2>2. ASSUME NEW y \in D, r[y] < r[x] PROVE a[y] = h[y]
    <3>1. PICK b \in [D -> V] : b = S[r[y] + 1] /\ SolvesBelow(D, r, B, b, r[y] + 1)
      BY <1>0, <1>6
    <3>2. PICK n \in Nat : n = r[y] + 1
      BY <1>0
    <3>3. \A z \in D : r[z] < n => r[z] < r[x] + 1
      BY <1>0, <2>2, <3>2
    <3>4. SolvesBelow(D, r, B, a, n)
      BY <1>0, <2>1, <3>3 DEF SolvesBelow
    <3>5. SolvesBelow(D, r, B, b, n)
      BY <3>1, <3>2
    <3>6. AgreeBelow(D, r, a, b, n)
      BY <1>0, <3>4, <3>5, SolutionsAgree
    <3>7. r[y] < n
      BY <1>0, <3>2
    <3> QED
      BY <1>0, <1>7, <3>1, <3>6, <3>7 DEF AgreeBelow
  <2>3. B[<<x, a>>] = B[<<x, h>>]
    BY <1>0, <1>8, <2>1, <2>2 DEF Descends
  <2>4. r[x] < r[x] + 1
    BY <1>0
  <2>5. a[x] = B[<<x, a>>]
    BY <1>0, <2>1, <2>4 DEF SolvesBelow
  <2> QED
    BY <1>0, <1>7, <2>1, <2>3, <2>5
<1> QED
  BY <1>8, <1>9 DEF Solves

-----------------------------------------------------------------------------
(* Sums of natural numbers over finite sets                                *)

\* f[x] units for every x in S; how many there are is the sum of f over S.
Units(S, f) == UNION {{x} \X (1 .. f[x]) : x \in S}
Total(S, f) == Cardinality(Units(S, f))
Summable(S, f) == IsFiniteSet(S) /\ \A x \in S : f[x] \in Nat

LEMMA OneUnits ==
    ASSUME NEW x, NEW n \in Nat
    PROVE  IsFiniteSet({x} \X (1 .. n)) /\ Cardinality({x} \X (1 .. n)) = n
<1>1. IsFiniteSet({x}) /\ Cardinality({x}) = 1
  BY FS_Singleton
<1>2. IsFiniteSet(1 .. n) /\ Cardinality(1 .. n) = n
  BY FS_Interval
<1>3. PICK A, B : A = {x} /\ B = 1 .. n
  OBVIOUS
<1>4. IsFiniteSet(A) /\ Cardinality(A) = 1 /\ IsFiniteSet(B) /\ Cardinality(B) = n
  BY <1>1, <1>2, <1>3
<1>5. IsFiniteSet(A \X B) /\ Cardinality(A \X B) = Cardinality(A) * Cardinality(B)
  BY ONLY <1>4, FS_Product
<1>6. IsFiniteSet(A \X B) /\ Cardinality(A \X B) = n
  BY ONLY <1>4, <1>5, n \in Nat
<1> QED
  BY <1>3, <1>6

\* A finite sum of natural numbers is one.
LEMMA TotalType ==
    ASSUME NEW S, NEW f, Summable(S, f)
    PROVE  IsFiniteSet(Units(S, f)) /\ Total(S, f) \in Nat
<1> DEFINE F == {{x} \X (1 .. f[x]) : x \in S}
<1>1. IsFiniteSet(F)
  <2>1. IsFiniteSet(S)
    BY DEF Summable
  <2> DEFINE g == [x \in S |-> {x} \X (1 .. f[x])]
  <2>2. g \in Surjection(S, F)
    BY DEF Surjection
  <2> QED
    BY <2>1, <2>2, FS_Surjection
<1>2. \A T \in F : IsFiniteSet(T)
  <2>1. ASSUME NEW x \in S PROVE IsFiniteSet({x} \X (1 .. f[x]))
    <3>1. PICK n \in Nat : n = f[x]
      BY DEF Summable
    <3> QED
      BY <3>1, OneUnits
  <2> QED
    BY <2>1
<1>3. Units(S, f) = UNION F
  BY DEF Units
<1> HIDE DEF F
<1>4. IsFiniteSet(Units(S, f))
  BY <1>1, <1>2, <1>3, FS_UNION
<1> QED
  BY <1>4, FS_CardinalityType DEF Total

LEMMA TotalEmpty ==
    ASSUME NEW f
    PROVE  Total({}, f) = 0
<1>1. Units({}, f) = {}
  BY DEF Units
<1> QED
  BY <1>1, FS_EmptySet DEF Total

\* The sum over a set that is cut in two.
LEMMA TotalUnion ==
    ASSUME NEW S, NEW T, NEW f, Summable(S, f), Summable(T, f), S \cap T = {}
    PROVE  Summable(S \cup T, f) /\ Total(S \cup T, f) = Total(S, f) + Total(T, f)
<1>1. Units(S \cup T, f) = Units(S, f) \cup Units(T, f)
  BY DEF Units
<1>2. Units(S, f) \cap Units(T, f) = {}
  BY DEF Units
<1>3. IsFiniteSet(Units(S, f)) /\ IsFiniteSet(Units(T, f)) /\ Total(S, f) \in Nat /\ Total(T, f) \in Nat
  BY TotalType
<1>4. Cardinality(Units(S, f) \cap Units(T, f)) = 0
  BY <1>2, FS_EmptySet
<1>5. Summable(S \cup T, f)
  BY FS_Union DEF Summable
<1>6. PICK A, B : A = Units(S, f) /\ B = Units(T, f)
  OBVIOUS
<1>7. Cardinality(A \cup B) = Cardinality(A) + Cardinality(B) - Cardinality(A \cap B)
  <2>1. IsFiniteSet(A) /\ IsFiniteSet(B)
    BY <1>3, <1>6
  <2> QED
    BY ONLY <2>1, FS_Union
<1>8. /\ Total(S \cup T, f) = Cardinality(A \cup B) /\ Cardinality(A \cap B) = 0
      /\ Total(S, f) = Cardinality(A) /\ Total(T, f) = Cardinality(B)
  BY <1>1, <1>4, <1>6, Zenon DEF Total
<1> QED
  BY <1>3, <1>5, <1>7, <1>8

\* Only the values at the elements of the set count.
LEMMA TotalSame ==
    ASSUME NEW S, NEW f, NEW g, \A x \in S : f[x] = g[x]
    PROVE  Total(S, f) = Total(S, g)
<1>1. Units(S, f) = Units(S, g)
  BY DEF Units
<1> QED
  BY <1>1 DEF Total

LEMMA TotalOne ==
    ASSUME NEW x, NEW f, f[x] \in Nat
    PROVE  Summable({x}, f) /\ Total({x}, f) = f[x]
<1>1. Units({x}, f) = {x} \X (1 .. f[x])
  BY DEF Units
<1>2. Summable({x}, f)
  BY FS_Singleton DEF Summable
<1>3. Cardinality({x} \X (1 .. f[x])) = f[x]
  BY OneUnits
<1> QED
  BY <1>1, <1>2, <1>3 DEF Total

\* The sum over a set without and with one of its elements.
LEMMA TotalSplit ==
    ASSUME NEW S, NEW f, Summable(S, f), NEW x \in S
    PROVE  Summable(S \ {x}, f) /\ Total(S, f) = Total(S \ {x}, f) + f[x]
<1>1. Summable(S \ {x}, f)
  BY FS_RemoveElement DEF Summable
<1>2. Summable({x}, f) /\ Total({x}, f) = f[x]
  BY TotalOne DEF Summable
<1>3. (S \ {x}) \cup {x} = S /\ (S \ {x}) \cap {x} = {}
  OBVIOUS
<1> QED
  BY <1>1, <1>2, <1>3, TotalUnion

\* The sum over a smaller set is not larger.
LEMMA TotalSubset ==
    ASSUME NEW T, NEW f, Summable(T, f), NEW S \in SUBSET T
    PROVE  Summable(S, f) /\ Total(S, f) <= Total(T, f)
<1>1. Summable(S, f) /\ Summable(T \ S, f)
  BY FS_Subset, FS_Difference DEF Summable
<1>2. S \cup (T \ S) = T /\ S \cap (T \ S) = {}
  OBVIOUS
<1>3. Total(T, f) = Total(S, f) + Total(T \ S, f)
  BY <1>1, <1>2, TotalUnion
<1> QED
  BY <1>1, <1>3, TotalType

\* One summand changes.
LEMMA TotalChange ==
    ASSUME NEW S, NEW f, NEW g, Summable(S, f), NEW x \in S, g[x] \in Nat,
           \A y \in S : y # x => g[y] = f[y]
    PROVE  Summable(S, g) /\ Total(S, g) + f[x] = Total(S, f) + g[x]
<1>1. Summable(S, g) /\ f[x] \in Nat
  BY DEF Summable
<1>2. Total(S \ {x}, f) = Total(S \ {x}, g)
  BY TotalSame
<1>3. /\ Total(S, f) = Total(S \ {x}, f) + f[x] /\ Summable(S \ {x}, f)
      /\ Total(S, g) = Total(S \ {x}, g) + g[x]
  BY <1>1, TotalSplit
<1>4. Total(S \ {x}, f) \in Nat
  BY <1>3, TotalType
<1> QED
  BY <1>1, <1>2, <1>3, <1>4

\* The sums over disjoint parts of a set, added up, do not exceed the sum over the set.
PartTotal(part, f) == [i \in DOMAIN part |-> Total(part[i], f)]
LEMMA TotalParts ==
    ASSUME NEW n \in Nat, NEW S, NEW f, Summable(S, f), NEW part \in [1 .. n -> SUBSET S],
           \A i, j \in 1 .. n : i # j => part[i] \cap part[j] = {}
    PROVE  Summable(1 .. n, PartTotal(part, f)) /\ Total(1 .. n, PartTotal(part, f)) <= Total(S, f)
<1> DEFINE tot == PartTotal(part, f)
           U(k) == UNION {part[i] : i \in 1 .. k}
           P == {k \in Nat : k <= n => Total(1 .. k, tot) = Total(U(k), f)}
<1>1. \A i \in 1 .. n : tot[i] = Total(part[i], f) /\ Summable(part[i], f) /\ tot[i] \in Nat
  BY TotalSubset, TotalType DEF PartTotal
<1> HIDE DEF tot
<1>2. \A k \in Nat : k <= n => Summable(1 .. k, tot)
  BY <1>1, FS_Interval DEF Summable
<1>3. \A k \in Nat : k <= n => U(k) \in SUBSET S
  OBVIOUS
<1>4. 0 \in P
  <2>1. 1 .. 0 = {} /\ U(0) = {}
    OBVIOUS
  <2> QED
    BY <2>1, TotalEmpty
<1>5. ASSUME NEW k \in Nat, k \in P PROVE k + 1 \in P
  <2>1. SUFFICES ASSUME k + 1 <= n PROVE Total(1 .. k + 1, tot) = Total(U(k + 1), f)
    OBVIOUS
  <2>2. k <= n /\ k + 1 \in 1 .. n /\ (1 .. k + 1) = (1 .. k) \cup {k + 1} /\ (1 .. k) \cap {k + 1} = {}
    BY <2>1
  <2>3. Total(1 .. k + 1, tot) = Total(1 .. k, tot) + tot[k + 1]
    <3>1. PICK x, A, C : x = k + 1 /\ A = 1 .. k /\ C = 1 .. k + 1
      OBVIOUS
    <3>2. Summable(C, tot) /\ x \in C /\ C \ {x} = A
      <4>1. k + 1 \in Nat /\ k + 1 <= n
        BY <2>1
      <4> QED
        BY <1>2, <3>1, <4>1
    <3>3. Total(C, tot) = Total(C \ {x}, tot) + tot[x]
      BY ONLY <3>2, TotalSplit
    <3>4. Total(C, tot) = Total(A, tot) + tot[x]
      BY ONLY <3>2, <3>3, Zenon
    <3> QED
      BY ONLY <3>1, <3>4, Zenon
  <2>4. U(k + 1) = U(k) \cup part[k + 1]
    BY <2>2
  <2>5. U(k) \cap part[k + 1] = {}
    BY <2>2
  <2>6. Summable(U(k), f) /\ Summable(part[k + 1], f)
    BY <1>1, <1>3, <2>2, TotalSubset
  <2> HIDE DEF U
  <2>7. Total(U(k + 1), f) = Total(U(k), f) + Total(part[k + 1], f)
    BY <2>4, <2>5, <2>6, TotalUnion
  <2> QED
    BY <1>1, <1>5, <2>2, <2>3, <2>7
<1>6. Nat \subseteq P
  <2> HIDE DEF P
  <2> QED
    BY <1>4, <1>5, NatSteps
<1>7. Total(1 .. n, tot) = Total(U(n), f)
  BY <1>6
<1>8. U(n) \in SUBSET S
  BY <1>3
<1> HIDE DEF U
<1> QED
  BY <1>2, <1>7, <1>8, TotalSubset DEF tot
=============================================================================
