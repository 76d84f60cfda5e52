-------------------------- MODULE BatchFlow_proofs --------------------------
(***************************************************************************)
(* For any batch, any number of workers and ranks, and any lengths: every  *)
(* row gets the response to its own prompt; the ranks are balanced no      *)
(* worse than the groups the balancing starts from; every rank has equally *)
(* many micro-batches, which hold its rows once each; and the old          *)
(* log-probs come back in the order of the batch.                          *)
(*                                                                         *)
(* First the differencing method on any heap, then places in parts, orders *)
(* and sums, then the invariants of the rows, the balance and the ranks.   *)
(***************************************************************************)
EXTENDS BatchFlow, FiniteSetTheorems, WellFoundedInduction, TLAPS

ItemSets == [items : SUBSET Int, sum : Int]

Solutions(k) == {s \in [1..k -> ItemSets] : Decreasing(s)}

\* Every sorting of a sequence of sets is one of its rearrangements.
LEMMA SortingsAre ==
    ASSUME NEW k \in Nat \ {0}, NEW s \in [1..k -> ItemSets], NEW t \in Sortings(s)
    PROVE  /\ t \in Solutions(k)
           /\ \E p \in [1..k -> 1..k] :
                 /\ Permutes(p, k)
                 /\ \A i \in 1..k : t[i] = s[p[i]]
<1>1. Len(s) = k
  OBVIOUS
<1>2. PICK p \in [1..k -> 1..k] : Permutes(p, k) /\ t = [i \in 1..k |-> s[p[i]]]
  BY <1>1 DEF Sortings
<1>3. Decreasing(t)
  BY DEF Sortings
<1> QED BY <1>2, <1>3 DEF Solutions

\* Joining heavy sets with light ones gives sets of items.
LEMMA JoinTyped ==
    ASSUME NEW k \in Nat \ {0}, NEW a \in Solutions(k), NEW b \in Solutions(k)
    PROVE  /\ JoinReversed(a, b) \in [1..k -> ItemSets]
           /\ \A i \in 1..k : JoinReversed(a, b)[i] = Join(a[i], b[k + 1 - i])
<1>1. Len(a) = k /\ Len(b) = k
  BY DEF Solutions
<1>2. \A i \in 1..k : k + 1 - i \in 1..k
  OBVIOUS
<1>3. \A x, y \in ItemSets : Join(x, y) \in ItemSets
  BY DEF ItemSets, Join
<1> QED BY <1>1, <1>2, <1>3 DEF JoinReversed, Solutions

\* A number is no further from another than the bounds of the two.
LEMMA Between ==
    \A p, q, high, low, bound \in Int :
        p <= high /\ q >= low /\ high - low <= bound => p - q <= bound
OBVIOUS

\* Two differences added up, of which one is at most the bound and one negative.
LEMMA FourSums ==
    \A p, q, r, s, bound \in Int :
        p - q <= bound /\ r - s <= 0 =>
            /\ (p + r) - (q + s) <= bound
            /\ (r + p) - (s + q) <= bound
OBVIOUS

\* Of two decreasing sequences of numbers, the second read backwards: two sums
\* of theirs are no further apart than the ends of one of them.
LEMMA SumsApart ==
    ASSUME NEW k \in Nat \ {0}, NEW A \in [1..k -> Int], NEW C \in [1..k -> Int],
           NEW bound \in Int, NEW x \in 1..k, NEW y \in 1..k
    PROVE  /\ \A i, j \in 1..k : i < j => A[i] >= A[j] /\ C[i] >= C[j]
           /\ A[1] - A[k] <= bound /\ C[1] - C[k] <= bound
           => (A[x] + C[k + 1 - x]) - (A[y] + C[k + 1 - y]) <= bound
<1>0. SUFFICES ASSUME \A i, j \in 1..k : i < j => A[i] >= A[j] /\ C[i] >= C[j],
                      A[1] - A[k] <= bound, C[1] - C[k] <= bound
               PROVE  (A[x] + C[k + 1 - x]) - (A[y] + C[k + 1 - y]) <= bound
  OBVIOUS
<1>7. A[1] - A[k] <= bound /\ C[1] - C[k] <= bound
  BY <1>0
<1> DEFINE v == k + 1 - x
           z == k + 1 - y
<1>1. v \in 1..k /\ z \in 1..k /\ 1 \in 1..k /\ k \in 1..k
  OBVIOUS
<1>2. (x <= y => z <= v) /\ (y <= x => v <= z)
  OBVIOUS
<1> HIDE DEF v, z
<1>3. \A i, j \in 1..k : i <= j => A[i] >= A[j] /\ C[i] >= C[j]
  BY <1>0
<1>4. /\ A[x] \in Int /\ A[y] \in Int /\ C[v] \in Int /\ C[z] \in Int
      /\ A[1] \in Int /\ A[k] \in Int /\ C[1] \in Int /\ C[k] \in Int
  BY <1>1
<1>5. CASE x <= y
  <2>1. A[x] <= A[1] /\ A[y] >= A[k] /\ C[v] <= C[z]
    BY <1>1, <1>2, <1>3, <1>5
  <2>2. A[x] - A[y] <= bound
    BY <2>1, <1>4, <1>7, Between
  <2>3. C[v] - C[z] <= 0
    BY <2>1, <1>4, SMTT(30)
  <2>4. (A[x] + C[v]) - (A[y] + C[z]) <= bound
    BY <2>2, <2>3, <1>4, FourSums
  <2> QED BY <2>4 DEF v, z
<1>6. CASE y <= x
  <2>1. C[v] <= C[1] /\ C[z] >= C[k] /\ A[x] <= A[y]
    BY <1>1, <1>2, <1>3, <1>6
  <2>2. C[v] - C[z] <= bound
    BY <2>1, <1>4, <1>7, Between
  <2>3. A[x] - A[y] <= 0
    BY <2>1, <1>4, SMTT(30)
  <2>4. (A[x] + C[v]) - (A[y] + C[z]) <= bound
    BY <2>2, <2>3, <1>4, FourSums
  <2> QED BY <2>4 DEF v, z
<1> QED BY <1>5, <1>6

\* seqlen_balancing.py:113-116: the heaviest set takes the other's lightest, so
\* the spread of the join is at most the larger of the two spreads.
LEMMA JoinSpread ==
    ASSUME NEW k \in Nat \ {0}, NEW B \in Int,
           NEW a \in Solutions(k), NEW b \in Solutions(k),
           Spread(a) <= B, Spread(b) <= B,
           NEW t \in Sortings(JoinReversed(a, b))
    PROVE  t \in Solutions(k) /\ Spread(t) <= B
<1> DEFINE s == JoinReversed(a, b)
<1>1. s \in [1..k -> ItemSets] /\ \A i \in 1..k : s[i] = Join(a[i], b[k + 1 - i])
  BY JoinTyped
<1> HIDE DEF s
<1>2. t \in Solutions(k)
  BY <1>1, SortingsAre DEF s
<1>3. PICK p \in [1..k -> 1..k] : \A i \in 1..k : t[i] = s[p[i]]
  BY <1>1, SortingsAre DEF s
<1> DEFINE x == p[1]
           y == p[k]
<1>4. x \in 1..k /\ y \in 1..k
  OBVIOUS
<1> HIDE DEF x, y
<1>5. Len(t) = k /\ Len(a) = k /\ Len(b) = k
  BY <1>2 DEF Solutions
<1>6. Spread(t) = s[x].sum - s[y].sum
  BY <1>3, <1>5 DEF Spread, x, y
<1> DEFINE A == [i \in 1..k |-> a[i].sum]
           C == [i \in 1..k |-> b[i].sum]
<1>7. A \in [1..k -> Int] /\ C \in [1..k -> Int]
  BY DEF Solutions, ItemSets
<1>8. \A i \in 1..k : s[i].sum = A[i] + C[k + 1 - i]
  BY <1>1 DEF Join
<1>9. \A i, j \in 1..k : i < j => A[i] >= A[j] /\ C[i] >= C[j]
  BY DEF Solutions, Decreasing
<1>10. A[1] - A[k] <= B /\ C[1] - C[k] <= B
  BY <1>5 DEF Spread
<1> HIDE DEF A, C
<1>11. (A[x] + C[k + 1 - x]) - (A[y] + C[k + 1 - y]) <= B
  BY <1>4, <1>7, <1>9, <1>10, SumsApart
<1>12. Spread(t) = (A[x] + C[k + 1 - x]) - (A[y] + C[k + 1 - y])
  BY <1>4, <1>6, <1>8
<1> QED BY <1>2, <1>11, <1>12

\* What a round makes of a heap: it is the heap without two of its solutions,
\* with a sorting of their join.
LEMMA MergesAre ==
    ASSUME NEW H, NEW next \in MergesOf(H)
    PROVE  \E a, b \in H : \E m \in Sortings(JoinReversed(a, b)) :
              a # b /\ next = (H \ {a, b}) \cup {m}
BY DEF MergesOf, Widest

\* seqlen_balancing.py:158-163. A bound on the spread of every solution of the
\* H is one after any round.
THEOREM MergeKeepsSpread ==
    ASSUME NEW k \in Nat \ {0}, NEW B \in Int,
           NEW H \in SUBSET Solutions(k), \A s \in H : Spread(s) <= B,
           NEW next \in MergesOf(H)
    PROVE  next \in SUBSET Solutions(k) /\ \A s \in next : Spread(s) <= B
<1>1. PICK a, b \in H : \E m \in Sortings(JoinReversed(a, b)) :
         a # b /\ next = (H \ {a, b}) \cup {m}
  BY MergesAre
<1>2. PICK m \in Sortings(JoinReversed(a, b)) : next = (H \ {a, b}) \cup {m}
  BY <1>1
<1>3. m \in Solutions(k) /\ Spread(m) <= B
  BY JoinSpread
<1> QED BY <1>2, <1>3

-----------------------------------------------------------------------------
\* The rows of a heap, and that no row is in two of its sets.
RowsOf(H) == UNION {UNION {s[i].items : i \in DOMAIN s} : s \in H}

Separate(H) ==
    \A s, t \in H : \A i \in DOMAIN s, j \in DOMAIN t :
        s # t \/ i # j => s[i].items \cap t[j].items = {}

\* The sets of a solution have equally many rows.
Even(s) ==
    \A i, j \in DOMAIN s :
        /\ IsFiniteSet(s[i].items)
        /\ Cardinality(s[i].items) = Cardinality(s[j].items)

\* A rearrangement of k sets takes each of them once.
LEMMA PermutesOnce ==
    ASSUME NEW k \in Nat, NEW p \in [1..k -> 1..k], Permutes(p, k)
    PROVE  \A i, j \in 1..k : p[i] = p[j] => i = j
<1>1. p \in Surjection(1..k, 1..k)
  BY DEF Permutes, Surjection
<1>2. IsFiniteSet(1..k)
  BY FS_Interval
<1>3. p \in Injection(1..k, 1..k)
  BY <1>1, <1>2, FS_SurjSameCardinalityImpliesInj
<1> QED BY <1>3 DEF Injection, IsInjective

\* seqlen_balancing.py:158-172, 246-250. A round loses no row, doubles none, and
\* keeps the sets of every solution equally large.
THEOREM MergeKeepsRows ==
    ASSUME NEW k \in Nat \ {0}, NEW H \in SUBSET Solutions(k), Separate(H),
           NEW next \in MergesOf(H)
    PROVE  /\ RowsOf(next) = RowsOf(H)
           /\ Separate(next)
           /\ (\A s \in H : Even(s)) => \A s \in next : Even(s)
<1>1. PICK a, b \in H : \E m \in Sortings(JoinReversed(a, b)) :
         a # b /\ next = (H \ {a, b}) \cup {m}
  BY MergesAre
<1>2. PICK m \in Sortings(JoinReversed(a, b)) : next = (H \ {a, b}) \cup {m}
  BY <1>1
<1>3. a # b
  BY <1>1
<1> DEFINE s == JoinReversed(a, b)
<1>4. s \in [1..k -> ItemSets] /\ \A i \in 1..k : s[i] = Join(a[i], b[k + 1 - i])
  BY JoinTyped
<1> HIDE DEF s
<1>5. PICK p \in [1..k -> 1..k] : Permutes(p, k) /\ \A i \in 1..k : m[i] = s[p[i]]
  BY <1>4, SortingsAre DEF s
<1>6. m \in Solutions(k)
  BY <1>4, SortingsAre DEF s
<1>7. \A t \in H \cup {m} : DOMAIN t = 1..k
  BY <1>6 DEF Solutions
<1>8. \A i \in 1..k : m[i].items = a[p[i]].items \cup b[k + 1 - p[i]].items
  <2> SUFFICES ASSUME NEW i \in 1..k
               PROVE  m[i].items = a[p[i]].items \cup b[k + 1 - p[i]].items
    OBVIOUS
  <2>1. p[i] \in 1..k
    OBVIOUS
  <2>2. m[i] = Join(a[p[i]], b[k + 1 - p[i]])
    BY <2>1, <1>4, <1>5
  <2> QED BY <2>2 DEF Join
<1>9. \A i, j \in 1..k : p[i] = p[j] => i = j
  BY <1>5, PermutesOnce
<1>13. \A q \in 1..k : k + 1 - q \in 1..k
  OBVIOUS
<1>10. RowsOf(next) = RowsOf(H)
  <2>0. \A u \in H, j \in 1..k : u[j].items \in SUBSET RowsOf(H)
    BY <1>7 DEF RowsOf
  <2>1. ASSUME NEW x \in RowsOf(next) PROVE x \in RowsOf(H)
    <3>1. PICK t \in next, i \in 1..k : x \in t[i].items
      BY <2>1, <1>2, <1>7 DEF RowsOf
    <3>2. CASE t \in H
      BY <3>1, <3>2, <1>7 DEF RowsOf
    <3>3. CASE t = m
      <4>1. p[i] \in 1..k /\ k + 1 - p[i] \in 1..k
        BY <1>5, <3>1, <1>13
      <4>2. x \in a[p[i]].items \/ x \in b[k + 1 - p[i]].items
        BY <3>1, <3>3, <1>8
      <4>3. /\ a[p[i]].items \in SUBSET RowsOf(H)
            /\ b[k + 1 - p[i]].items \in SUBSET RowsOf(H)
        BY <4>1, <2>0
      <4> QED BY <4>2, <4>3
    <3> QED BY <3>1, <3>2, <3>3, <1>2
  <2>2. ASSUME NEW x \in RowsOf(H) PROVE x \in RowsOf(next)
    <3>1. PICK t \in H, i \in 1..k : x \in t[i].items
      BY <2>2, <1>7 DEF RowsOf
    <3>2. CASE t = a
      <4>1. PICK j \in 1..k : p[j] = i
        BY <1>5 DEF Permutes
      <4>2. x \in m[j].items
        BY <3>1, <3>2, <4>1, <1>8
      <4> QED BY <4>2, <1>2, <1>7 DEF RowsOf
    <3>3. CASE t = b
      <4>1. PICK j \in 1..k : p[j] = k + 1 - i
        <5>1. k + 1 - i \in 1..k
          OBVIOUS
        <5> QED BY <5>1, <1>5 DEF Permutes
      <4>2. k + 1 - p[j] = i
        BY <4>1
      <4>3. x \in m[j].items
        BY <3>1, <3>3, <4>2, <1>8
      <4> QED BY <4>3, <1>2, <1>7 DEF RowsOf
    <3>4. CASE t \in H \ {a, b}
      BY <3>1, <3>4, <1>2, <1>7 DEF RowsOf
    <3> QED BY <3>1, <3>2, <3>3, <3>4
  <2> QED BY <2>1, <2>2
<1>11. Separate(next)
  <2>1. \A t, u \in H : \A i, j \in 1..k :
           t # u \/ i # j => t[i].items \cap u[j].items = {}
    BY <1>7 DEF Separate
  <2>2. \A t \in H \ {a, b} : \A i, j \in 1..k : t[i].items \cap m[j].items = {}
    <3> SUFFICES ASSUME NEW t \in H \ {a, b}, NEW i \in 1..k, NEW j \in 1..k
                 PROVE  t[i].items \cap m[j].items = {}
      OBVIOUS
    <3>1. p[j] \in 1..k /\ k + 1 - p[j] \in 1..k
      OBVIOUS
    <3>2. t[i].items \cap a[p[j]].items = {} /\ t[i].items \cap b[k + 1 - p[j]].items = {}
      BY <3>1, <2>1
    <3> QED BY <3>2, <1>8
  <2>3. \A i, j \in 1..k : i # j => m[i].items \cap m[j].items = {}
    <3> SUFFICES ASSUME NEW i \in 1..k, NEW j \in 1..k, i # j
                 PROVE  m[i].items \cap m[j].items = {}
      OBVIOUS
    <3>0. p[i] \in 1..k /\ p[j] \in 1..k
      OBVIOUS
    <3>1. /\ p[i] \in 1..k /\ k + 1 - p[i] \in 1..k
          /\ p[j] \in 1..k /\ k + 1 - p[j] \in 1..k
      <4>1. \A q \in 1..k : k + 1 - q \in 1..k
        OBVIOUS
      <4> QED BY <3>0, <4>1
    <3>2. p[i] # p[j] /\ k + 1 - p[i] # k + 1 - p[j]
      BY <1>9, <3>1
    <3>3. /\ a[p[i]].items \cap a[p[j]].items = {}
          /\ a[p[i]].items \cap b[k + 1 - p[j]].items = {}
          /\ b[k + 1 - p[i]].items \cap a[p[j]].items = {}
          /\ b[k + 1 - p[i]].items \cap b[k + 1 - p[j]].items = {}
      BY <3>1, <3>2, <2>1, <1>3
    <3> QED BY <3>3, <1>8
  <2>4. ASSUME NEW t \in next, NEW u \in next, NEW i \in 1..k, NEW j \in 1..k,
               t # u \/ i # j
        PROVE  t[i].items \cap u[j].items = {}
    <3>1. CASE t = m /\ u = m
      BY <2>3, <2>4, <3>1
    <3>2. CASE t = m /\ u \in H \ {a, b}
      BY <2>2, <3>2
    <3>3. CASE t \in H \ {a, b} /\ u = m
      BY <2>2, <3>3
    <3>4. CASE t \in H \ {a, b} /\ u \in H \ {a, b}
      BY <2>1, <2>4, <3>4
    <3> QED BY <1>2, <3>1, <3>2, <3>3, <3>4
  <2>5. \A t, u \in next : \A i, j \in 1..k :
           t # u \/ i # j => t[i].items \cap u[j].items = {}
    BY <2>4
  <2>6. \A t \in next : DOMAIN t = 1..k
    BY <1>2, <1>7
  <2> QED BY <2>5, <2>6 DEF Separate
<1>12. ASSUME \A t \in H : Even(t) PROVE Even(m)
  <2>1. \A i \in 1..k : a[i].items \cap b[k + 1 - i].items = {}
    <3>1. \A i \in 1..k : k + 1 - i \in 1..k
      OBVIOUS
    <3> QED BY <3>1, <1>3, <1>7 DEF Separate
  <2>2. \A i, j \in 1..k :
           /\ IsFiniteSet(a[i].items) /\ Cardinality(a[i].items) = Cardinality(a[j].items)
           /\ IsFiniteSet(b[i].items) /\ Cardinality(b[i].items) = Cardinality(b[j].items)
    BY <1>7, <1>12 DEF Even
  <2>3. ASSUME NEW i \in 1..k
        PROVE  /\ IsFiniteSet(m[i].items)
               /\ Cardinality(m[i].items) = Cardinality(a[1].items) + Cardinality(b[1].items)
    <3>1. p[i] \in 1..k /\ k + 1 - p[i] \in 1..k /\ 1 \in 1..k
      BY <1>13
    <3> DEFINE A == a[p[i]].items
               C == b[k + 1 - p[i]].items
    <3>2. IsFiniteSet(A) /\ IsFiniteSet(C) /\ A \cap C = {}
      BY <3>1, <2>1, <2>2
    <3>3. Cardinality(A) = Cardinality(a[1].items) /\ Cardinality(C) = Cardinality(b[1].items)
      BY <3>1, <2>2
    <3>4. m[i].items = A \cup C
      BY <1>8
    <3> HIDE DEF A, C
    <3>5. IsFiniteSet(A \cup C)
      BY <3>2, FS_Union
    <3>6. Cardinality(A \cup C) = Cardinality(A) + Cardinality(C)
      <4>1. Cardinality(A \cup C) = Cardinality(A) + Cardinality(C) - Cardinality(A \cap C)
        BY <3>2, FS_Union
      <4>2. Cardinality(A \cap C) = 0
        BY <3>2, FS_EmptySet
      <4>3. Cardinality(A) \in Nat /\ Cardinality(C) \in Nat
        BY <3>2, FS_CardinalityType
      <4> QED BY <4>1, <4>2, <4>3
    <3> QED BY <3>3, <3>4, <3>5, <3>6
  <2> QED BY <2>3, <1>7 DEF Even
<1> QED BY <1>2, <1>10, <1>11, <1>12

-----------------------------------------------------------------------------
\* Multiplying by a natural number keeps an order.
LEMMA TimesMonotone ==
    ASSUME NEW x \in Nat, NEW y \in Nat, NEW z \in Nat, x <= y
    PROVE  x * z <= y * z
<1>1. PICK d \in Nat : y = x + d
  <2>1. y - x \in Nat /\ y = x + (y - x)
    OBVIOUS
  <2> QED BY <2>1
<1>2. y * z = x * z + d * z
  BY <1>1, Z3
<1>3. x * z \in Nat /\ d * z \in Nat
  OBVIOUS
<1> QED BY <1>2, <1>3

Rearranging(idx, n) == idx \in [1..n -> 1..n] /\ Permutes(idx, n)

\* seqlen_balancing.py:471-486, 528-551. Whatever the permutation by which rows
\* were dealt to micro-batches, the restored values are those of the rows.
THEOREM RestoreUndoes ==
    ASSUME NEW n \in Nat, NEW idx, Rearranging(idx, n), NEW share
    PROVE  RestoreDynamicBatch([i \in 1..n |-> share[idx[i]]], idx)
              = [i \in 1..n |-> share[i]]
<1>0. idx \in [1..n -> 1..n] /\ Permutes(idx, n)
  BY DEF Rearranging
<1> DEFINE values == [i \in 1..n |-> share[idx[i]]]
<1>1. Len(values) = n /\ Len(idx) = n
  BY <1>0
<1>2. \A j \in 1..n : ReverseIdx(idx)[j] \in 1..n /\ idx[ReverseIdx(idx)[j]] = j
  BY <1>0, <1>1 DEF ReverseIdx, Permutes
<1>3. \A j \in 1..n : values[ReverseIdx(idx)[j]] = share[j]
  BY <1>2
<1>4. RestoreDynamicBatch(values, idx) = [i \in 1..n |-> values[ReverseIdx(idx)[i]]]
  BY <1>1 DEF RestoreDynamicBatch
<1> QED BY <1>3, <1>4

-----------------------------------------------------------------------------
(* Places in a sequence of k parts of n: the part a place is in, where in   *)
(* the part, and back.                                                      *)

Spots(k, n) == 1..(k * n)
PartOf(i, n) == ((i - 1) \div n) + 1
SpotOf(i, n) == ((i - 1) % n) + 1
Spot(c, n, x) == (c - 1) * n + x

\* Quotient and remainder.
LEMMA Divided ==
    ASSUME NEW a \in Nat, NEW d \in Nat \ {0}
    PROVE  a \div d \in Nat /\ a % d \in 0..(d - 1) /\ a = (a \div d) * d + (a % d)
OBVIOUS

\* Of q times d and a remainder, the quotient is q.
LEMMA DividedOnce ==
    ASSUME NEW q \in Nat, NEW d \in Nat \ {0}, NEW r \in 0..(d - 1)
    PROVE  (q * d + r) \div d = q /\ (q * d + r) % d = r
OBVIOUS

\* Every place in k parts of n is one place of one part.
LEMMA PlaceOf ==
    ASSUME NEW k \in Nat, NEW n \in Nat \ {0}, NEW i \in Spots(k, n)
    PROVE  /\ PartOf(i, n) \in 1..k /\ SpotOf(i, n) \in 1..n
           /\ Spot(PartOf(i, n), n, SpotOf(i, n)) = i
<1> DEFINE q == (i - 1) \div n
           r == (i - 1) % n
<1>1. i - 1 \in Nat /\ k * n \in Nat /\ i <= k * n
  BY DEF Spots
<1>2. q \in Nat /\ r \in 0..(n - 1) /\ i - 1 = q * n + r /\ q * n \in Nat
  <2>1. q \in Nat /\ r \in 0..(n - 1) /\ i - 1 = q * n + r
    BY <1>1, Divided
  <2> HIDE DEF q, r
  <2> QED BY <2>1
<1> HIDE DEF q, r
<1>3. q < k
  <2> SUFFICES ASSUME k <= q PROVE FALSE
    BY <1>2
  <2>1. k * n <= q * n
    BY <1>2, TimesMonotone
  <2>2. i <= k * n /\ i - 1 = q * n + r /\ q * n \in Nat /\ r \in Nat /\ k * n \in Nat /\ i \in Nat
    BY <1>1, <1>2 DEF Spots
  <2> QED BY <2>1, <2>2
<1>4. (q + 1) - 1 = q /\ i \in Int
  BY <1>2 DEF Spots
<1>5. i = q * n + (r + 1)
  BY <1>2, <1>4
<1>6. q + 1 \in 1..k /\ r + 1 \in 1..n
  BY <1>2, <1>3
<1> QED BY <1>4, <1>5, <1>6 DEF q, r, PartOf, SpotOf, Spot

\* And every place of a part has its own place among all.
LEMMA PlaceAt ==
    ASSUME NEW k \in Nat, NEW n \in Nat \ {0}, NEW c \in 1..k, NEW x \in 1..n
    PROVE  /\ Spot(c, n, x) \in Spots(k, n)
           /\ PartOf(Spot(c, n, x), n) = c /\ SpotOf(Spot(c, n, x), n) = x
<1>1. c - 1 \in Nat /\ x - 1 \in 0..(n - 1) /\ (c - 1) * n \in Nat
  OBVIOUS
<1>2. ((c - 1) * n + x) - 1 = (c - 1) * n + (x - 1)
  BY <1>1
<1>3. ((c - 1) * n + (x - 1)) \div n = c - 1 /\ ((c - 1) * n + (x - 1)) % n = x - 1
  BY <1>1, DividedOnce
<1>4. (c - 1) * n + n <= k * n
  <2>1. c * n <= k * n
    BY TimesMonotone
  <2>2. c * n = (c - 1) * n + n
    BY Z3
  <2> QED BY <2>1, <2>2
<1>5. (c - 1) * n + x \in 1..(k * n)
  <2>1. k * n \in Nat
    OBVIOUS
  <2> QED BY <1>1, <1>4, <2>1
<1> QED BY <1>2, <1>3, <1>5 DEF Spots, Spot, PartOf, SpotOf

-----------------------------------------------------------------------------
(* What repeat, chunk and concat do to sequences.                           *)

\* repeat, by the place of a row: row i repeats the prompt of its part.
LEMMA RepeatIs ==
    ASSUME NEW s, NEW n
    PROVE  Repeat(s, n) = [i \in Spots(Len(s), n) |-> s[PartOf(i, n)]]
BY DEF Repeat, Spots, PartOf

-----------------------------------------------------------------------------
(* The rows that are generated, and what becomes of them.                   *)

Size(b) == b.prompts * b.n
Mode(b) == IF b.kind = "validate" THEN "validate" ELSE "sample"
Modes == {"sample", "greedy", "validate", "none"}
Asked == [prompt : Nat, mode : Modes]
Replies == [prompt : Nat, mode : Modes, len : Nat]

\* A sequence of length n is a function on 1..n.
LEMMA SeqIs ==
    ASSUME NEW T, NEW u \in Seq(T), NEW n \in Nat, Len(u) = n
    PROVE  u \in [1..n -> T]
OBVIOUS

\* A batch has prompts, n samples of each, and so a size.
LEMMA BatchIs ==
    ASSUME NEW b \in Batches
    PROVE  /\ b.prompts \in Nat \ {0} /\ b.n \in Nat \ {0}
           /\ b.kind \in {"train", "remax", "validate"}
           /\ Size(b) \in Nat \ {0} /\ Spots(b.prompts, b.n) = 1..Size(b)
<1>1. /\ b.prompts \in Nat \ {0} /\ b.n \in Nat \ {0}
      /\ b.kind \in {"train", "remax", "validate"}
  BY BatchesAssumption
<1>2. b.prompts * b.n \in Nat \ {0}
  <2>1. \A x, y \in Nat \ {0} : x * y \in Nat \ {0}
    OBVIOUS
  <2> QED BY <1>1, <2>1
<1> QED BY <1>1, <1>2 DEF Size, Spots

Prompts(b, mode) == [p \in 1..b.prompts |-> [prompt |-> p, mode |-> mode]]
Samples(b) == Repeat(Prompts(b, Mode(b)), b.n)

\* repeat gives every prompt n rows in a row.
LEMMA SamplesAre ==
    ASSUME NEW b \in Batches
    PROVE  /\ Samples(b) \in [1..Size(b) -> Asked]
           /\ \A i \in 1..Size(b) :
                 /\ PartOf(i, b.n) \in 1..b.prompts
                 /\ Samples(b)[i] = [prompt |-> PartOf(i, b.n), mode |-> Mode(b)]
<1> DEFINE P == Prompts(b, Mode(b))
<1>1. /\ b.prompts \in Nat \ {0} /\ b.n \in Nat \ {0}
      /\ Spots(b.prompts, b.n) = 1..Size(b)
  BY BatchIs
<1>2. Len(P) = b.prompts /\ \A p \in 1..b.prompts : P[p] = [prompt |-> p, mode |-> Mode(b)]
  BY <1>1 DEF Prompts
<1> HIDE DEF P
<1>3. Repeat(P, b.n) = [i \in 1..Size(b) |-> P[PartOf(i, b.n)]]
  BY <1>1, <1>2, RepeatIs
<1>4. \A i \in 1..Size(b) : PartOf(i, b.n) \in 1..b.prompts
  BY <1>1, PlaceOf
<1>5. \A i \in 1..Size(b) : P[PartOf(i, b.n)] = [prompt |-> PartOf(i, b.n), mode |-> Mode(b)]
  BY <1>2, <1>4
<1>6. Mode(b) \in Modes /\ \A p \in 1..b.prompts : p \in Nat
  BY <1>1 DEF Mode, Modes
<1>7. \A i \in 1..Size(b) : P[PartOf(i, b.n)] \in Asked
  <2> SUFFICES ASSUME NEW i \in 1..Size(b)
               PROVE  P[PartOf(i, b.n)] \in Asked
    OBVIOUS
  <2> DEFINE q == PartOf(i, b.n)
  <2>1. q \in Nat /\ P[q] = [prompt |-> q, mode |-> Mode(b)]
    BY <1>4, <1>5, <1>6
  <2> HIDE DEF q
  <2>2. P[q] \in Asked
    BY <1>6, <2>1 DEF Asked
  <2> QED BY <2>2 DEF q
<1> QED BY <1>3, <1>4, <1>5, <1>7 DEF P, Samples

PadOf(b) == IF Size(b) % Workers = 0 THEN 0 ELSE Workers - (Size(b) % Workers)

Added(b) ==
    CASE b.kind = "train" -> 0 [] b.kind = "remax" -> b.prompts
      [] b.kind = "validate" -> PadOf(b)

\* The rows generated: the samples, then baselines or padding.
LEMMA GeneratedAre ==
    ASSUME NEW b \in Batches
    PROVE  /\ Added(b) \in Nat /\ Len(GenBatch(b)) = Size(b) + Added(b)
           /\ GenBatch(b) \in [1..(Size(b) + Added(b)) -> Asked]
           /\ \A i \in 1..Size(b) : GenBatch(b)[i] = Samples(b)[i]
           /\ b.kind = "remax" =>
                 \A p \in 1..b.prompts :
                    GenBatch(b)[Size(b) + p] = [prompt |-> p, mode |-> "greedy"]
<1>1. /\ b.prompts \in Nat \ {0} /\ b.n \in Nat \ {0} /\ Size(b) \in Nat \ {0}
      /\ b.kind \in {"train", "remax", "validate"}
  BY BatchIs
<1>2. Samples(b) \in [1..Size(b) -> Asked] /\ Len(Samples(b)) = Size(b)
  BY <1>1, SamplesAre
<1>3. GenBatch(b) =
        CASE b.kind = "train" -> Samples(b)
          [] b.kind = "remax" -> Samples(b) \o Prompts(b, "greedy")
          [] b.kind = "validate" -> PadToDivisor(Samples(b), Workers)
  BY DEF GenBatch, Samples, Prompts, Mode
<1>4. ASSUME NEW l \in Nat, NEW t \in [1..l -> Asked]
      PROVE  /\ Samples(b) \o t \in [1..(Size(b) + l) -> Asked]
             /\ Len(Samples(b) \o t) = Size(b) + l
             /\ \A i \in 1..Size(b) : (Samples(b) \o t)[i] = Samples(b)[i]
             /\ \A i \in 1..l : (Samples(b) \o t)[Size(b) + i] = t[i]
  <2> DEFINE s == Samples(b)
             m == Size(b)
  <2>1. s \in [1..m -> Asked] /\ m \in Nat /\ Len(s) = m
    BY <1>1, <1>2
  <2> HIDE DEF s, m
  <2>2. s \in Seq(Asked) /\ t \in Seq(Asked) /\ Len(t) = l
    BY <2>1
  <2>3. s \o t \in Seq(Asked) /\ Len(s \o t) = m + l
    BY <2>1, <2>2
  <2>4. s \o t \in [1..(m + l) -> Asked]
    <3> DEFINE u == s \o t
    <3>1. u \in Seq(Asked) /\ m + l \in Nat /\ Len(u) = m + l
      BY <2>1, <2>3
    <3> HIDE DEF u
    <3>2. u \in [1..(m + l) -> Asked]
      BY <3>1
    <3> QED BY <3>2 DEF u
  <2>5. /\ \A i \in 1..m : (s \o t)[i] = s[i]
        /\ \A i \in 1..l : (s \o t)[m + i] = t[i]
    BY <2>1, <2>2
  <2> QED BY <2>3, <2>4, <2>5 DEF s, m
<1>5. CASE b.kind = "train"
  BY <1>1, <1>2, <1>3, <1>5 DEF Added
<1>6. CASE b.kind = "remax"
  <2>1. Prompts(b, "greedy") \in [1..b.prompts -> Asked]
    BY <1>1 DEF Prompts, Asked, Modes
  <2>2. GenBatch(b) = Samples(b) \o Prompts(b, "greedy") /\ Added(b) = b.prompts
    BY <1>3, <1>6 DEF Added
  <2>3. \A p \in 1..b.prompts : Prompts(b, "greedy")[p] = [prompt |-> p, mode |-> "greedy"]
    BY DEF Prompts
  <2> DEFINE t == Prompts(b, "greedy")
  <2>4. b.prompts \in Nat /\ t \in [1..b.prompts -> Asked]
    BY <1>1, <2>1
  <2> HIDE DEF t
  <2>5. /\ Samples(b) \o t \in [1..(Size(b) + b.prompts) -> Asked]
        /\ Len(Samples(b) \o t) = Size(b) + b.prompts
        /\ \A i \in 1..Size(b) : (Samples(b) \o t)[i] = Samples(b)[i]
        /\ \A i \in 1..b.prompts : (Samples(b) \o t)[Size(b) + i] = t[i]
    BY <1>4, <2>4
  <2> QED BY <1>1, <2>2, <2>3, <2>5 DEF t
<1>7. CASE b.kind = "validate"
  <2> DEFINE pad == PadSize(Samples(b), Workers)
             t == [i \in 1..pad |-> Samples(b)[((i - 1) % Len(Samples(b))) + 1]]
  <2>1. pad = PadOf(b) /\ pad \in Nat
    BY <1>1, <1>2, SizesAssumption DEF PadSize, PadOf
  <2>2. \A i \in 1..pad : ((i - 1) % Size(b)) + 1 \in 1..Size(b)
    BY <1>1, <2>1
  <2>3. t \in [1..pad -> Asked]
    BY <1>2, <2>1, <2>2
  <2>4. GenBatch(b) = Samples(b) \o t /\ Added(b) = pad
    BY <1>3, <1>7, <2>1 DEF PadToDivisor, Added
  <2> HIDE DEF pad, t
  <2>5. /\ Samples(b) \o t \in [1..(Size(b) + pad) -> Asked]
        /\ Len(Samples(b) \o t) = Size(b) + pad
        /\ \A i \in 1..Size(b) : (Samples(b) \o t)[i] = Samples(b)[i]
    BY <1>4, <2>1, <2>3
  <2> QED BY <1>7, <2>1, <2>4, <2>5
<1> QED BY <1>1, <1>5, <1>6, <1>7

\* The outputs answer the rows of a batch one by one.
Answering(b, output) ==
    /\ output \in [1..Len(GenBatch(b)) -> Replies]
    /\ \A i \in 1..Len(GenBatch(b)) :
          /\ output[i].prompt = GenBatch(b)[i].prompt
          /\ output[i].mode = GenBatch(b)[i].mode
          /\ output[i].len \in Lengths

RowsType == [prompt : Nat, baseline : Replies, response : Replies]

\* A row has a response to its own prompt, and the baseline of that prompt.
Own(b, row) ==
    /\ row \in RowsType
    /\ row.response.prompt = row.prompt /\ row.response.mode = Mode(b)
    /\ row.response.len \in Lengths
    /\ b.kind = "remax" => /\ row.baseline.prompt = row.prompt
                           /\ row.baseline.mode = "greedy"

\* ray_trainer.py:1478-1498. The batch united with answers has the row of its
\* prompt at every place, with the answer and the baseline of that prompt.
LEMMA UnionIs ==
    ASSUME NEW b \in Batches, NEW output, Answering(b, output)
    PROVE  /\ Len(Union(b, output)) = Size(b)
           /\ DOMAIN Union(b, output) = 1..Size(b)
           /\ Union(b, output) = [i \in 1..Size(b) |-> Union(b, output)[i]]
           /\ \A i \in 1..Size(b) : /\ Own(b, Union(b, output)[i])
                                    /\ Union(b, output)[i].prompt = PartOf(i, b.n)
<1>1. /\ b.prompts \in Nat \ {0} /\ b.n \in Nat \ {0} /\ Size(b) \in Nat \ {0}
      /\ b.kind \in {"train", "remax", "validate"} /\ Spots(b.prompts, b.n) = 1..Size(b)
  BY BatchIs
<1>2. /\ Added(b) \in Nat /\ Len(GenBatch(b)) = Size(b) + Added(b)
      /\ \A i \in 1..Size(b) : GenBatch(b)[i] = Samples(b)[i]
      /\ b.kind = "remax" =>
            \A p \in 1..b.prompts :
               GenBatch(b)[Size(b) + p] = [prompt |-> p, mode |-> "greedy"]
  BY GeneratedAre
<1>3. output \in [1..(Size(b) + Added(b)) -> Replies] /\ Len(output) = Size(b) + Added(b)
  BY <1>1, <1>2 DEF Answering
<1> DEFINE samples == IF b.kind = "validate"
                        THEN Unpad(output,
                                    PadSize(Repeat([p \in 1..b.prompts |-> p], b.n), Workers))
                        ELSE SubSeq(output, 1, b.prompts * b.n)
           Baseline(p) == IF b.kind = "remax"
                            THEN SubSeq(output, b.prompts * b.n + 1, Len(output))[p]
                            ELSE NoReply
           asked == [p \in 1..b.prompts |-> [prompt |-> p, baseline |-> Baseline(p)]]
<1>4. Union(b, output) =
        [i \in 1..Len(samples) |->
            [prompt |-> Repeat(asked, b.n)[i].prompt, baseline |-> Repeat(asked, b.n)[i].baseline,
             response |-> samples[i]]]
  BY DEF Union
<1>5. samples \in [1..Size(b) -> Replies] /\ \A i \in 1..Size(b) : samples[i] = output[i]
  <2>1. samples = SubSeq(output, 1, Size(b))
    <3>1. CASE b.kind = "validate"
      <4>1. Len([p \in 1..b.prompts |-> p]) = b.prompts
        BY <1>1
      <4>2. Len(Repeat([p \in 1..b.prompts |-> p], b.n)) = Size(b)
        BY <1>1, <4>1, RepeatIs
      <4>3. PadSize(Repeat([p \in 1..b.prompts |-> p], b.n), Workers) = Added(b)
        BY <3>1, <4>2 DEF PadSize, PadOf, Added
      <4>4. Len(output) - Added(b) = Size(b)
        BY <1>1, <1>2, <1>3
      <4> QED BY <3>1, <4>3, <4>4 DEF Unpad
    <3>2. CASE b.kind # "validate"
      BY <3>2 DEF Size
    <3> QED BY <3>1, <3>2
  <2> DEFINE m == Size(b)
             a == Added(b)
  <2>2. /\ m \in Nat /\ a \in Nat /\ output \in [1..(m + a) -> Replies]
        /\ samples = SubSeq(output, 1, m)
    BY <1>1, <1>2, <1>3, <2>1
  <2> HIDE DEF samples, m, a
  <2>3. output \in Seq(Replies) /\ Len(output) = m + a
    BY <2>2
  <2>4. samples \in [1..m -> Replies] /\ \A i \in 1..m : samples[i] = output[i]
    <3>1. samples \in Seq(Replies) /\ Len(samples) = m /\ \A i \in 1..m : samples[i] = output[i]
      BY <2>2, <2>3
    <3> QED BY <2>2, <3>1, SeqIs
  <2> QED BY <2>4 DEF m
<1>6. Len(samples) = Size(b)
  BY <1>1, <1>5
<1>7. \A p \in 1..b.prompts :
         /\ Baseline(p) \in Replies
         /\ b.kind = "remax" => Baseline(p).prompt = p /\ Baseline(p).mode = "greedy"
  <2> SUFFICES ASSUME NEW p \in 1..b.prompts
               PROVE  /\ Baseline(p) \in Replies
                      /\ b.kind = "remax" => Baseline(p).prompt = p /\ Baseline(p).mode = "greedy"
    OBVIOUS
  <2>1. CASE b.kind = "remax"
    <3>1. Added(b) = b.prompts
      BY <2>1 DEF Added
    <3>2. Baseline(p) = output[Size(b) + p] /\ Size(b) + p \in 1..(Size(b) + Added(b))
      <4> DEFINE m == Size(b)
                 a == Added(b)
      <4>1. /\ m \in Nat /\ a \in Nat /\ output \in [1..(m + a) -> Replies] /\ Len(output) = m + a
            /\ p \in 1..a
        BY <1>1, <1>2, <1>3, <3>1
      <4>2. Baseline(p) = SubSeq(output, m + 1, Len(output))[p]
        BY <2>1 DEF Size
      <4> HIDE DEF m, a, Baseline
      <4>3. output \in Seq(Replies)
        BY <4>1
      <4>4. SubSeq(output, m + 1, Len(output))[p] = output[m + p] /\ m + p \in 1..(m + a)
        BY <4>1, <4>3
      <4> QED BY <4>2, <4>4 DEF m, a
    <3>3. /\ output[Size(b) + p].prompt = GenBatch(b)[Size(b) + p].prompt
          /\ output[Size(b) + p].mode = GenBatch(b)[Size(b) + p].mode
      BY <1>2, <3>2 DEF Answering
    <3>4. GenBatch(b)[Size(b) + p] = [prompt |-> p, mode |-> "greedy"]
      BY <1>2, <2>1
    <3> HIDE DEF Baseline
    <3> QED BY <1>3, <3>2, <3>3, <3>4
  <2>2. CASE b.kind # "remax"
    BY <2>2 DEF NoReply, Replies, Modes
  <2> QED BY <2>1, <2>2
<1>8. Len(asked) = b.prompts
  BY <1>1
<1>9. \A i \in 1..Size(b) :
         Repeat(asked, b.n)[i]
           = [prompt |-> PartOf(i, b.n), baseline |-> Baseline(PartOf(i, b.n))]
  <2>1. Repeat(asked, b.n) = [i \in 1..Size(b) |-> asked[PartOf(i, b.n)]]
    <3> HIDE DEF asked
    <3> QED BY <1>1, <1>8, RepeatIs
  <2>2. \A i \in 1..Size(b) : PartOf(i, b.n) \in 1..b.prompts
    BY <1>1, PlaceOf
  <2>3. \A p \in 1..b.prompts : asked[p] = [prompt |-> p, baseline |-> Baseline(p)]
    OBVIOUS
  <2> HIDE DEF asked, Baseline
  <2> QED BY <2>1, <2>2, <2>3
<1> HIDE DEF samples, asked, Baseline
<1>10. \A i \in 1..Size(b) :
          Union(b, output)[i] = [prompt |-> PartOf(i, b.n), baseline |-> Baseline(PartOf(i, b.n)),
                                 response |-> output[i]]
  <2> SUFFICES ASSUME NEW i \in 1..Size(b)
               PROVE  Union(b, output)[i] =
                         [prompt |-> PartOf(i, b.n), baseline |-> Baseline(PartOf(i, b.n)),
                                             response |-> output[i]]
    OBVIOUS
  <2>1. i \in 1..Len(samples) /\ samples[i] = output[i]
    BY <1>5, <1>6
  <2>2. /\ Repeat(asked, b.n)[i].prompt = PartOf(i, b.n)
        /\ Repeat(asked, b.n)[i].baseline = Baseline(PartOf(i, b.n))
    <3> DEFINE q == PartOf(i, b.n)
               base == Baseline(q)
               row == Repeat(asked, b.n)[i]
    <3>1. row = [prompt |-> q, baseline |-> base]
      BY <1>9
    <3> HIDE DEF q, base, row
    <3>2. row.prompt = q /\ row.baseline = base
      BY <3>1
    <3> QED BY <3>2 DEF q, base, row
  <2> QED BY <1>4, <2>1, <2>2
<1>11. ASSUME NEW i \in 1..Size(b)
       PROVE  Own(b, Union(b, output)[i]) /\ Union(b, output)[i].prompt = PartOf(i, b.n)
  <2>1. /\ PartOf(i, b.n) \in 1..b.prompts
        /\ Samples(b)[i] = [prompt |-> PartOf(i, b.n), mode |-> Mode(b)]
    BY SamplesAre
  <2>2. /\ output[i].prompt = PartOf(i, b.n) /\ output[i].mode = Mode(b)
        /\ output[i].len \in Lengths /\ output[i] \in Replies
    <3>1. i \in 1..Len(GenBatch(b)) /\ i \in 1..(Size(b) + Added(b))
      BY <1>1, <1>2
    <3> QED BY <1>2, <1>3, <2>1, <3>1 DEF Answering
  <2>3. PartOf(i, b.n) \in Nat /\ Baseline(PartOf(i, b.n)) \in Replies
    BY <1>1, <1>7, <2>1
  <2>4. b.kind = "remax" => /\ Baseline(PartOf(i, b.n)).prompt = PartOf(i, b.n)
                            /\ Baseline(PartOf(i, b.n)).mode = "greedy"
    BY <1>7, <2>1
  <2> DEFINE q == PartOf(i, b.n)
             row == Union(b, output)[i]
             base == Baseline(q)
  <2>5. row = [prompt |-> q, baseline |-> base, response |-> output[i]]
    BY <1>10
  <2>6. /\ q \in Nat /\ base \in Replies /\ output[i] \in Replies
        /\ output[i].prompt = q /\ output[i].mode = Mode(b) /\ output[i].len \in Lengths
        /\ b.kind = "remax" => base.prompt = q /\ base.mode = "greedy"
    BY <2>2, <2>3, <2>4
  <2> HIDE DEF q, row, base
  <2>7. Own(b, row) /\ row.prompt = q
    BY <2>5, <2>6 DEF Own, RowsType
  <2> QED BY <2>7 DEF q, row
<1>12. Union(b, output) = [i \in 1..Size(b) |-> Union(b, output)[i]]
  BY <1>4, <1>6
<1>13. Len(Union(b, output)) = Size(b) /\ DOMAIN Union(b, output) = 1..Size(b)
  BY <1>1, <1>12
<1> QED BY <1>11, <1>12, <1>13

-----------------------------------------------------------------------------
(* Orders and enumerations.                                                 *)

\* e goes through S, taking every element once.
Enumerates(e, S) ==
    /\ IsFiniteSet(S) /\ Cardinality(S) \in Nat
    /\ e \in [1..Cardinality(S) -> S]
    /\ \A p, q \in 1..Cardinality(S) : e[p] = e[q] => p = q
    /\ \A x \in S : \E p \in 1..Cardinality(S) : e[p] = x

\* The p-th element of S has p - 1 before it in the order R.
Sorted(S, R) ==
    [p \in 1..Cardinality(S) |->
        CHOOSE x \in S : Cardinality({y \in S : <<y, x>> \in R}) = p - 1]

Orders(R, S) ==
    /\ \A x, y \in S : <<x, y>> \in R \/ <<y, x>> \in R \/ x = y
    /\ \A x, y, z \in S : <<x, y>> \in R /\ <<y, z>> \in R => <<x, z>> \in R
    /\ \A x \in S : <<x, x>> \notin R

\* The elements of a finite set in the order R are its elements, each of them
\* once, the smaller ones first.
LEMMA SortedIs ==
    ASSUME NEW S, IsFiniteSet(S), NEW R, Orders(R, S)
    PROVE  /\ Enumerates(Sorted(S, R), S)
           /\ \A p, q \in 1..Cardinality(S) :
                 p < q => <<Sorted(S, R)[p], Sorted(S, R)[q]>> \in R
<1> DEFINE Below(x) == {y \in S : <<y, x>> \in R}
           c == Cardinality(S)
           f == [x \in S |-> Cardinality(Below(x))]
           e == Sorted(S, R)
<1>1. c \in Nat
  BY FS_CardinalityType
<1>2. \A x \in S : IsFiniteSet(Below(x)) /\ Cardinality(Below(x)) \in Nat
  BY FS_Subset, FS_CardinalityType
<1>3. ASSUME NEW x \in S, NEW y \in S, <<x, y>> \in R
      PROVE  Cardinality(Below(x)) < Cardinality(Below(y))
  <2>1. Below(x) \in SUBSET Below(y) /\ x \in Below(y) /\ x \notin Below(x)
    BY <1>3 DEF Orders
  <2>2. IsFiniteSet(Below(y))
    BY <1>2
  <2> HIDE DEF Below
  <2>3. Cardinality(Below(x)) <= Cardinality(Below(y))
        /\ (Cardinality(Below(x)) = Cardinality(Below(y)) => Below(x) = Below(y))
    BY <2>1, <2>2, FS_Subset
  <2> QED BY <2>1, <2>3, <1>2
<1>4. \A x \in S : Cardinality(Below(x)) \in 0..(c - 1)
  <2> SUFFICES ASSUME NEW x \in S PROVE Cardinality(Below(x)) \in 0..(c - 1)
    OBVIOUS
  <2>1. Below(x) \in SUBSET S /\ x \notin Below(x)
    BY DEF Orders
  <2>2. Cardinality(Below(x)) \in Nat
    BY <1>2
  <2> HIDE DEF Below
  <2>3. Cardinality(Below(x)) <= c /\ (Cardinality(Below(x)) = c => Below(x) = S)
    BY <2>1, FS_Subset
  <2> QED BY <2>1, <2>2, <2>3, <1>1
<1>5. ASSUME NEW x \in S, NEW y \in S, Cardinality(Below(x)) = Cardinality(Below(y))
      PROVE  x = y
  <2> HIDE DEF Below
  <2>1. <<x, y>> \in R \/ <<y, x>> \in R \/ x = y
    BY DEF Orders
  <2> QED BY <1>2, <1>3, <1>5, <2>1
<1>6. f \in Injection(S, 0..(c - 1))
  <2>1. f \in [S -> 0..(c - 1)]
    BY <1>4
  <2>2. ASSUME NEW x \in S, NEW y \in S, f[x] = f[y] PROVE x = y
    BY <1>5, <2>2
  <2> HIDE DEF f
  <2> QED BY <2>1, <2>2 DEF Injection, IsInjective
<1>7. f \in Surjection(S, 0..(c - 1))
  <2>0. Cardinality(S) = c
    OBVIOUS
  <2> HIDE DEF f, c
  <2>1. IsFiniteSet(0..(c - 1)) /\ Cardinality(0..(c - 1)) = c
    <3>1. c - 1 \in Int /\ 0 \in Int
      BY <1>1
    <3>2. Cardinality(0..(c - 1)) = IF 0 > c - 1 THEN 0 ELSE (c - 1) - 0 + 1
      BY <3>1, FS_Interval
    <3> QED BY <3>1, <3>2, <1>1, FS_Interval
  <2> DEFINE T == 0..(c - 1)
  <2>2. IsFiniteSet(T) /\ f \in Injection(S, T) /\ Cardinality(S) = Cardinality(T)
    BY <2>0, <2>1, <1>6
  <2> HIDE DEF T
  <2>3. f \in Surjection(S, T)
    BY <2>2, FS_Injection
  <2> QED BY <2>3 DEF T
<1>8. \A p \in 1..c : \E x \in S : Cardinality(Below(x)) = p - 1
  <2>1. \A q \in 0..(c - 1) : \E x \in S : f[x] = q
    <3> HIDE DEF f
    <3> QED BY <1>7 DEF Surjection
  <2> SUFFICES ASSUME NEW p \in 1..c PROVE \E x \in S : Cardinality(Below(x)) = p - 1
    OBVIOUS
  <2>2. p - 1 \in 0..(c - 1)
    BY <1>1
  <2> QED BY <2>1, <2>2
<1>9. e = [p \in 1..c |-> CHOOSE x \in S : Cardinality(Below(x)) = p - 1]
  BY DEF Sorted
<1>10. \A p \in 1..c : e[p] \in S /\ Cardinality(Below(e[p])) = p - 1
  BY <1>8, <1>9
<1>11. e \in [1..c -> S]
  BY <1>9, <1>10
<1> HIDE DEF e, Below, c, f
<1>12. \A p, q \in 1..c : e[p] = e[q] => p = q
  <2> SUFFICES ASSUME NEW p \in 1..c, NEW q \in 1..c, e[p] = e[q] PROVE p = q
    OBVIOUS
  <2>1. p - 1 = q - 1
    BY <1>10
  <2> QED BY <2>1, <1>1
<1>13. \A x \in S : \E p \in 1..c : e[p] = x
  <2> SUFFICES ASSUME NEW x \in S PROVE \E p \in 1..c : e[p] = x
    OBVIOUS
  <2>1. PICK p \in 1..c : p - 1 = Cardinality(Below(x))
    <3>1. /\ Cardinality(Below(x)) + 1 \in 1..c
          /\ (Cardinality(Below(x)) + 1) - 1 = Cardinality(Below(x))
      BY <1>1, <1>4, <1>2
    <3> QED BY <3>1
  <2> QED BY <1>5, <1>10, <2>1
<1>14. ASSUME NEW p \in 1..c, NEW q \in 1..c, p < q
       PROVE  <<e[p], e[q]>> \in R
  <2>1. /\ e[p] \in S /\ e[q] \in S
        /\ Cardinality(Below(e[p])) = p - 1 /\ Cardinality(Below(e[q])) = q - 1
    BY <1>10
  <2>2. e[p] # e[q] /\ <<e[q], e[p]>> \notin R
    BY <2>1, <1>1, <1>3, <1>14
  <2> QED BY <2>1, <2>2 DEF Orders
<1>15. Enumerates(e, S)
  BY <1>1, <1>11, <1>12, <1>13 DEF Enumerates, c
<1> QED BY <1>14, <1>15 DEF e, c

\* A sequence rearranged by p.
LEMMA Rearranged ==
    ASSUME NEW S, NEW e, Enumerates(e, S), NEW c, c = Cardinality(S),
           NEW p \in [1..c -> 1..c], Permutes(p, c)
    PROVE  Enumerates([i \in 1..c |-> e[p[i]]], S)
<1> DEFINE d == [i \in 1..c |-> e[p[i]]]
<1>1. /\ IsFiniteSet(S) /\ c \in Nat /\ e \in [1..c -> S]
      /\ \A i, j \in 1..c : e[i] = e[j] => i = j
      /\ \A x \in S : \E i \in 1..c : e[i] = x
  BY DEF Enumerates
<1>2. \A i, j \in 1..c : p[i] = p[j] => i = j
  BY <1>1, PermutesOnce
<1>3. d \in [1..c -> S] /\ \A i \in 1..c : d[i] = e[p[i]]
  BY <1>1
<1> HIDE DEF d
<1>4. \A i, j \in 1..c : d[i] = d[j] => i = j
  BY <1>1, <1>2, <1>3
<1>5. \A x \in S : \E i \in 1..c : d[i] = x
  <2> SUFFICES ASSUME NEW x \in S PROVE \E i \in 1..c : d[i] = x
    OBVIOUS
  <2>1. PICK j \in 1..c : e[j] = x
    BY <1>1
  <2>2. PICK i \in 1..c : p[i] = j
    BY DEF Permutes
  <2> QED BY <1>3, <2>1, <2>2
<1> QED BY <1>1, <1>3, <1>4, <1>5 DEF Enumerates, d

\* A bijection from 1..n counts.
Counts(e, n, S) ==
    /\ e \in [1..n -> S]
    /\ \A i, j \in 1..n : e[i] = e[j] => i = j
    /\ \A x \in S : \E i \in 1..n : e[i] = x

\* A set whose elements have the numbers 1..n has n of them.
LEMMA CountedBy ==
    ASSUME NEW n \in Nat, NEW e, NEW S, Counts(e, n, S)
    PROVE  IsFiniteSet(S) /\ Cardinality(S) = n /\ Enumerates(e, S)
<1>1. e \in Bijection(1..n, S)
  BY DEF Counts, Bijection, Injection, Surjection, IsInjective
<1>2. ExistsBijection(1..n, S)
  BY <1>1 DEF ExistsBijection
<1>3. IsFiniteSet(1..n) /\ Cardinality(1..n) = n
  BY FS_Interval
<1>4. IsFiniteSet(S) /\ Cardinality(S) = n
  BY <1>2, <1>3, FS_Bijection
<1> QED BY <1>4 DEF Counts, Enumerates

\* The order by workload, and by index.
LEMMA ByWorkloadIs ==
    ASSUME NEW n \in Nat, NEW w \in [1..n -> Int], NEW S \in SUBSET (1..n)
    PROVE  /\ Enumerates(ByWorkload(w, S), S)
           /\ \A p, q \in 1..Cardinality(S) : p < q =>
                 Lighter(w, ByWorkload(w, S)[p], ByWorkload(w, S)[q])
<1> DEFINE R == {r \in S \X S : Lighter(w, r[1], r[2])}
<1>1. IsFiniteSet(S)
  <2>1. IsFiniteSet(1..n)
    BY FS_Interval
  <2> QED BY <2>1, FS_Subset
<1>2. \A x, y \in S : <<x, y>> \in R <=> Lighter(w, x, y)
  OBVIOUS
<1>3. \A x \in S : {y \in S : <<y, x>> \in R} = {y \in S : Lighter(w, y, x)}
  BY <1>2
<1>4. ByWorkload(w, S) = Sorted(S, R)
  <2>1. ByWorkload(w, S) =
          [p \in 1..Cardinality(S) |->
              CHOOSE x \in S : Cardinality({y \in S : Lighter(w, y, x)}) = p - 1]
    BY DEF ByWorkload, SortedBy
  <2>2. ASSUME NEW p \in 1..Cardinality(S)
        PROVE  (CHOOSE x \in S : Cardinality({y \in S : Lighter(w, y, x)}) = p - 1)
                  = (CHOOSE x \in S : Cardinality({y \in S : <<y, x>> \in R}) = p - 1)
    <3> HIDE DEF R
    <3>1. \A x : (x \in S /\ Cardinality({y \in S : Lighter(w, y, x)}) = p - 1)
                   <=> (x \in S /\ Cardinality({y \in S : <<y, x>> \in R}) = p - 1)
      BY <1>3
    <3> QED BY <3>1
  <2> HIDE DEF R
  <2> QED BY <2>1, <2>2 DEF Sorted
<1>5. Orders(R, S)
  <2>1. \A x, y \in S : Lighter(w, x, y) \/ Lighter(w, y, x) \/ x = y
    BY DEF Lighter
  <2>2. \A x, y, z \in S : Lighter(w, x, y) /\ Lighter(w, y, z) => Lighter(w, x, z)
    BY DEF Lighter
  <2>3. \A x \in S : ~Lighter(w, x, x)
    BY DEF Lighter
  <2> HIDE DEF R
  <2> QED BY <1>2, <2>1, <2>2, <2>3 DEF Orders
<1> HIDE DEF R
<1>6. /\ Enumerates(Sorted(S, R), S)
      /\ \A p, q \in 1..Cardinality(S) : p < q => <<Sorted(S, R)[p], Sorted(S, R)[q]>> \in R
  BY <1>1, <1>5, SortedIs
<1>7. \A p \in 1..Cardinality(S) : Sorted(S, R)[p] \in S
  BY <1>6 DEF Enumerates
<1> QED BY <1>2, <1>4, <1>6, <1>7

\* Positions in increasing order.
LEMMA IncreasingIs ==
    ASSUME NEW n \in Nat, NEW S \in SUBSET (1..n)
    PROVE  Enumerates(SortedBy(S, <), S)
<1> DEFINE R == {r \in S \X S : r[1] < r[2]}
<1>1. IsFiniteSet(S)
  <2>1. IsFiniteSet(1..n)
    BY FS_Interval
  <2> QED BY <2>1, FS_Subset
<1>2. \A x, y \in S : <<x, y>> \in R <=> x < y
  OBVIOUS
<1>3. \A x \in S : {y \in S : <<y, x>> \in R} = {y \in S : y < x}
  BY <1>2
<1>4. SortedBy(S, <) = Sorted(S, R)
  <2>1. SortedBy(S, <) =
          [p \in 1..Cardinality(S) |->
              CHOOSE x \in S : Cardinality({y \in S : y < x}) = p - 1]
    BY DEF SortedBy
  <2>2. ASSUME NEW p \in 1..Cardinality(S)
        PROVE  (CHOOSE x \in S : Cardinality({y \in S : y < x}) = p - 1)
                  = (CHOOSE x \in S : Cardinality({y \in S : <<y, x>> \in R}) = p - 1)
    <3> HIDE DEF R
    <3>1. \A x : (x \in S /\ Cardinality({y \in S : y < x}) = p - 1)
                   <=> (x \in S /\ Cardinality({y \in S : <<y, x>> \in R}) = p - 1)
      BY <1>3
    <3> QED BY <3>1
  <2> HIDE DEF R
  <2> QED BY <2>1, <2>2 DEF Sorted
<1>5. Orders(R, S)
  <2> HIDE DEF R
  <2> QED BY <1>2 DEF Orders
<1> HIDE DEF R
<1> QED BY <1>1, <1>4, <1>5, SortedIs

-----------------------------------------------------------------------------
(* Every second of a sequence, forwards, and the others backwards.          *)

\* s[::2] and s[1::2] by position.
LEMMA EverySecondIs ==
    ASSUME NEW n \in Nat, NEW s, Len(s) = n
    PROVE  /\ EverySecond(s, 1) = [i \in 1..((n + 1) \div 2) |-> s[2 * i - 1]]
           /\ EverySecond(s, 2) = [i \in 1..(n \div 2) |-> s[2 * i]]
<1>1. ((n - 1) \div 2) + 1 = (n + 1) \div 2 /\ ((n - 2) \div 2) + 1 = n \div 2
  OBVIOUS
<1>2. \A i \in Int : 1 + 2 * (i - 1) = 2 * i - 1 /\ 2 + 2 * (i - 1) = 2 * i
  OBVIOUS
<1>3. /\ (n + 1) \div 2 \in Int /\ n \div 2 \in Int
  OBVIOUS
<1> QED BY <1>1, <1>2, <1>3 DEF EverySecond

\* The reversed sequence by position.
LEMMA ReverseIs ==
    ASSUME NEW n \in Nat, NEW s, Len(s) = n
    PROVE  Reverse(s) = [i \in 1..n |-> s[(n - i) + 1]]
BY DEF Reverse

\* Short rows at both ends: a rearrangement.
LEMMA ShortAtEnds ==
    ASSUME NEW S, NEW e, Enumerates(e, S)
    PROVE  Enumerates(EverySecond(e, 1) \o Reverse(EverySecond(e, 2)), S)
<1> DEFINE n == Cardinality(S)
           a == (n + 1) \div 2
           b == n \div 2
           u == EverySecond(e, 1)
           v == Reverse(EverySecond(e, 2))
           p == [i \in 1..n |-> IF i <= a THEN 2 * i - 1 ELSE 2 * ((n + 1) - i)]
<1>1. n \in Nat /\ e \in [1..n -> S] /\ Len(e) = n
  BY DEF Enumerates
<1> HIDE DEF n
<1>2. a \in Nat /\ b \in Nat /\ a + b = n /\ (a = b \/ a = b + 1)
  BY <1>1
<1>3. u = [i \in 1..a |-> e[2 * i - 1]] /\ EverySecond(e, 2) = [i \in 1..b |-> e[2 * i]]
  BY <1>1, EverySecondIs
<1> HIDE DEF a, b
<1>4. v = [i \in 1..b |-> e[2 * ((b - i) + 1)]]
  <2>1. Len(EverySecond(e, 2)) = b
    BY <1>2, <1>3
  <2>2. v = [i \in 1..b |-> EverySecond(e, 2)[(b - i) + 1]]
    BY <1>2, <2>1, ReverseIs
  <2>3. \A i \in 1..b : (b - i) + 1 \in 1..b
    BY <1>2
  <2> HIDE DEF v
  <2> QED BY <1>3, <2>2, <2>3
<1>5. u \in [1..a -> S] /\ v \in [1..b -> S]
  <2>1. \A i \in 1..a : 2 * i - 1 \in 1..n
    BY <1>1, <1>2
  <2>2. \A i \in 1..b : 2 * ((b - i) + 1) \in 1..n
    BY <1>1, <1>2
  <2> HIDE DEF u, v
  <2> QED BY <1>1, <1>3, <1>4, <2>1, <2>2
<1> HIDE DEF u, v
<1>6. /\ u \in Seq(S) /\ v \in Seq(S) /\ Len(u) = a /\ Len(v) = b
  BY <1>2, <1>5
<1>7. /\ u \o v \in Seq(S) /\ Len(u \o v) = n
      /\ \A i \in 1..n : (u \o v)[i] = IF i <= a THEN u[i] ELSE v[i - a]
  BY <1>2, <1>6
<1>8. ASSUME NEW i \in 1..n
      PROVE  /\ p[i] \in 1..n /\ (u \o v)[i] = e[p[i]]
  <2>1. CASE i <= a
    <3>1. i \in 1..a /\ 2 * i - 1 \in 1..n /\ p[i] = 2 * i - 1
      BY <1>1, <1>2, <2>1
    <3>2. u[i] = e[2 * i - 1]
      BY <1>3, <3>1
    <3> QED BY <1>7, <2>1, <3>1, <3>2
  <2>2. CASE ~(i <= a)
    <3>1. i - a \in 1..b /\ 2 * ((b - (i - a)) + 1) = 2 * ((n + 1) - i)
          /\ 2 * ((n + 1) - i) \in 1..n
      BY <1>1, <1>2, <2>2
    <3>2. v[i - a] = e[2 * ((b - (i - a)) + 1)]
      BY <1>4, <3>1
    <3> QED BY <1>7, <2>2, <3>1, <3>2
  <2> QED BY <2>1, <2>2
<1>9. p \in [1..n -> 1..n]
  <2>1. \A i \in 1..n : (IF i <= a THEN 2 * i - 1 ELSE 2 * ((n + 1) - i)) \in 1..n
    BY <1>1, <1>2
  <2> QED BY <2>1
<1>10. Permutes(p, n)
  <2> SUFFICES ASSUME NEW i \in 1..n PROVE \E j \in 1..n : p[j] = i
    BY DEF Permutes
  <2>1. CASE i % 2 = 1
    <3> DEFINE j == (i + 1) \div 2
    <3>1. j \in 1..n /\ j <= a /\ 2 * j - 1 = i
      BY <1>1, <1>2, <2>1
    <3> HIDE DEF j
    <3> QED BY <3>1
  <2>2. CASE i % 2 # 1
    <3> DEFINE j == (n + 1) - (i \div 2)
    <3>1. j \in 1..n /\ ~(j <= a) /\ 2 * ((n + 1) - j) = i
      BY <1>1, <1>2, <2>2
    <3> HIDE DEF j
    <3> QED BY <3>1
  <2> QED BY <2>1, <2>2
<1> HIDE DEF p
<1>11. u \o v = [i \in 1..n |-> e[p[i]]]
  <2> DEFINE m == u \o v
  <2>1. m \in Seq(S) /\ Len(m) = n /\ \A i \in 1..n : m[i] = e[p[i]]
    BY <1>7, <1>8
  <2> HIDE DEF m
  <2>2. m = [i \in 1..n |-> e[p[i]]]
    BY <2>1
  <2> QED BY <2>2 DEF m
<1>12. Enumerates([i \in 1..n |-> e[p[i]]], S)
  BY <1>9, <1>10, Rearranged DEF n
<1> QED BY <1>11, <1>12 DEF u, v

\* Light micro-batches at both ends: another one.
LEMMA LightAtEnds ==
    ASSUME NEW S, NEW e, Enumerates(e, S)
    PROVE  Enumerates(Reverse(EverySecond(e, 1)) \o EverySecond(e, 2), S)
<1> DEFINE n == Cardinality(S)
           a == (n + 1) \div 2
           b == n \div 2
           u == Reverse(EverySecond(e, 1))
           v == EverySecond(e, 2)
           p == [i \in 1..n |-> IF i <= a THEN 2 * ((a - i) + 1) - 1 ELSE 2 * (i - a)]
<1>1. n \in Nat /\ e \in [1..n -> S] /\ Len(e) = n
  BY DEF Enumerates
<1> HIDE DEF n
<1>2. a \in Nat /\ b \in Nat /\ a + b = n /\ (a = b \/ a = b + 1)
  BY <1>1
<1>3. EverySecond(e, 1) = [i \in 1..a |-> e[2 * i - 1]] /\ v = [i \in 1..b |-> e[2 * i]]
  BY <1>1, EverySecondIs
<1> HIDE DEF a, b
<1>4. u = [i \in 1..a |-> e[2 * ((a - i) + 1) - 1]]
  <2>1. Len(EverySecond(e, 1)) = a
    BY <1>2, <1>3
  <2>2. u = [i \in 1..a |-> EverySecond(e, 1)[(a - i) + 1]]
    BY <1>2, <2>1, ReverseIs
  <2>3. \A i \in 1..a : (a - i) + 1 \in 1..a
    BY <1>2
  <2> HIDE DEF u
  <2> QED BY <1>3, <2>2, <2>3
<1>5. u \in [1..a -> S] /\ v \in [1..b -> S]
  <2>1. \A i \in 1..a : 2 * ((a - i) + 1) - 1 \in 1..n
    BY <1>1, <1>2
  <2>2. \A i \in 1..b : 2 * i \in 1..n
    BY <1>1, <1>2
  <2> HIDE DEF u, v
  <2> QED BY <1>1, <1>3, <1>4, <2>1, <2>2
<1> HIDE DEF u, v
<1>6. /\ u \in Seq(S) /\ v \in Seq(S) /\ Len(u) = a /\ Len(v) = b
  BY <1>2, <1>5
<1>7. /\ u \o v \in Seq(S) /\ Len(u \o v) = n
      /\ \A i \in 1..n : (u \o v)[i] = IF i <= a THEN u[i] ELSE v[i - a]
  BY <1>2, <1>6
<1>8. ASSUME NEW i \in 1..n
      PROVE  /\ p[i] \in 1..n /\ (u \o v)[i] = e[p[i]]
  <2>1. CASE i <= a
    BY <1>1, <1>2, <1>4, <1>7, <2>1
  <2>2. CASE ~(i <= a)
    <3>1. i - a \in 1..b /\ 2 * (i - a) \in 1..n
      BY <1>1, <1>2, <2>2
    <3>2. v[i - a] = e[2 * (i - a)]
      BY <1>3, <3>1
    <3> QED BY <1>7, <2>2, <3>1, <3>2
  <2> QED BY <2>1, <2>2
<1>9. p \in [1..n -> 1..n]
  <2>1. \A i \in 1..n : (IF i <= a THEN 2 * ((a - i) + 1) - 1 ELSE 2 * (i - a)) \in 1..n
    BY <1>1, <1>2
  <2> QED BY <2>1
<1>10. Permutes(p, n)
  <2> SUFFICES ASSUME NEW i \in 1..n PROVE \E j \in 1..n : p[j] = i
    BY DEF Permutes
  <2>1. CASE i % 2 = 1
    <3> DEFINE j == (a + 1) - ((i + 1) \div 2)
    <3>1. j \in 1..n /\ j <= a /\ 2 * ((a - j) + 1) - 1 = i
      BY <1>1, <1>2, <2>1
    <3> HIDE DEF j
    <3> QED BY <3>1
  <2>2. CASE i % 2 # 1
    <3> DEFINE j == a + (i \div 2)
    <3>1. j \in 1..n /\ ~(j <= a) /\ 2 * (j - a) = i
      BY <1>1, <1>2, <2>2
    <3> HIDE DEF j
    <3> QED BY <3>1
  <2> QED BY <2>1, <2>2
<1> HIDE DEF p
<1>11. u \o v = [i \in 1..n |-> e[p[i]]]
  <2> DEFINE m == u \o v
  <2>1. m \in Seq(S) /\ Len(m) = n /\ \A i \in 1..n : m[i] = e[p[i]]
    BY <1>7, <1>8
  <2> HIDE DEF m
  <2>2. m = [i \in 1..n |-> e[p[i]]]
    BY <2>1
  <2> QED BY <2>2 DEF m
<1>12. Enumerates([i \in 1..n |-> e[p[i]]], S)
  BY <1>9, <1>10, Rearranged DEF n
<1> QED BY <1>11, <1>12 DEF u, v

\* seqlen_balancing.py:144-153. The solutions balancing starts from are groups
\* of neighbours, each sorted and with one row in every set.
THEOREM StartEqualSorted ==
    ASSUME NEW n \in Nat, NEW w \in [1..n -> Int], NEW k \in Nat \ {0}
    PROVE  StartEqual(w, k) \in SUBSET Solutions(k)
<1> DEFINE item == ByWorkload(w, 1..n)
<1>1. /\ item \in [1..n -> 1..n]
      /\ \A p, q \in 1..n : p < q => Lighter(w, item[p], item[q])
  <2>1. Cardinality(1..n) = n
    BY FS_Interval
  <2>2. /\ Enumerates(ByWorkload(w, 1..n), 1..n)
        /\ \A p, q \in 1..Cardinality(1..n) : p < q =>
              Lighter(w, ByWorkload(w, 1..n)[p], ByWorkload(w, 1..n)[q])
    BY ByWorkloadIs
  <2> QED BY <2>1, <2>2 DEF Enumerates
<1> HIDE DEF item
<1>2. Len(w) = n /\ DOMAIN w = 1..n
  OBVIOUS
<1>0. SUFFICES ASSUME NEW t \in 0..((n \div k) - 1), NEW s,
                    s = [i \in 1..k |-> Single(w, item[t * k + (k + 1 - i)])]
             PROVE  s \in Solutions(k)
  <2>1. ByWorkload(w, DOMAIN w) = item
    BY <1>2 DEF item
  <2>2. ASSUME NEW u \in StartEqual(w, k)
        PROVE  \E t \in 0..((n \div k) - 1) :
                  u = [i \in 1..k |-> Single(w, item[t * k + (k + 1 - i)])]
    <3>1. \E t \in 0..((Len(w) \div k) - 1) :
             u = [i \in 1..k |-> Single(w, ByWorkload(w, DOMAIN w)[t * k + (k + 1 - i)])]
      BY DEF StartEqual
    <3> QED BY <3>1, <2>1, <1>2
  <2> QED BY <2>2
<1> DEFINE at(i) == t * k + (k + 1 - i)
<1>3. \A i \in 1..k : at(i) \in 1..n
  <2>1. t * k + k <= n
    <3>1. (n \div k) \in Nat /\ (n \div k) * k <= n
      OBVIOUS
    <3>2. t \in Nat /\ t + 1 <= n \div k
      BY <1>0, <3>1
    <3> DEFINE groups == n \div k
    <3>5. t + 1 \in Nat /\ groups \in Nat /\ k \in Nat /\ t + 1 <= groups
      BY <3>1, <3>2
    <3> HIDE DEF groups
    <3>6. (t + 1) * k <= groups * k
      BY <3>5, TimesMonotone
    <3>3. (t + 1) * k <= (n \div k) * k
      BY <3>6 DEF groups
    <3>4. (t + 1) * k = t * k + k /\ t * k \in Nat
      BY <3>2, Z3
    <3> QED BY <3>1, <3>3, <3>4
  <2>2. t * k \in Nat
    BY <1>0
  <2> QED BY <2>1, <2>2
<1>4. \A i, j \in 1..k : i < j => at(j) < at(i)
  <2>1. t * k \in Int
    BY <1>0
  <2> QED BY <2>1
<1> HIDE DEF at
<1>5. \A i \in 1..k : Single(w, item[at(i)]) \in ItemSets
  BY <1>1, <1>3 DEF Single, ItemSets
<1>6. \A i, j \in 1..k : i < j => w[item[at(i)]] >= w[item[at(j)]]
  <2> SUFFICES ASSUME NEW i \in 1..k, NEW j \in 1..k, i < j
               PROVE  w[item[at(i)]] >= w[item[at(j)]]
    OBVIOUS
  <2>1. Lighter(w, item[at(j)], item[at(i)])
    BY <1>1, <1>3, <1>4
  <2>2. w[item[at(i)]] \in Int /\ w[item[at(j)]] \in Int
    BY <1>1, <1>3
  <2> QED BY <2>1, <2>2 DEF Lighter
<1>7. s \in [1..k -> ItemSets] /\ \A i \in 1..k : s[i] = Single(w, item[at(i)])
  BY <1>0, <1>5 DEF at
<1>8. Decreasing(s)
  BY <1>6, <1>7 DEF Decreasing, Single
<1> QED BY <1>7, <1>8 DEF Solutions

-----------------------------------------------------------------------------
(* The heaps balancing starts from.                                         *)

\* The c-th k neighbours in the order of the workloads, the heaviest first.
Group(w, k, c) ==
    [i \in 1..k |-> Single(w, ByWorkload(w, DOMAIN w)[Spot(c, k, (k + 1) - i)])]

\* seqlen_balancing.py:144-153. With equal_size there is one solution for each
\* of the g groups of k neighbours.
LEMMA StartEqualIs ==
    ASSUME NEW k \in Nat \ {0}, NEW g \in Nat, NEW n, n = g * k, NEW w \in [1..n -> Int]
    PROVE  /\ StartEqual(w, k) = {Group(w, k, c) : c \in 1..g}
           /\ n \in Nat /\ n = Cardinality(1..n) /\ Spots(g, k) = 1..n
           /\ Enumerates(ByWorkload(w, DOMAIN w), 1..n)
<1>1. n \in Nat /\ DOMAIN w = 1..n /\ Len(w) = n
  <2>1. g * k \in Nat
    OBVIOUS
  <2>2. n \in Nat
    BY <2>1
  <2> QED BY <2>2
<1>2. Len(w) \div k = g
  <2>1. (g * k + 0) \div k = g
    BY DividedOnce
  <2>2. g * k + 0 = n
    BY <1>1
  <2> QED BY <1>1, <2>1, <2>2
<1>3. StartEqual(w, k) = {Group(w, k, t + 1) : t \in 0..(g - 1)}
  <2>1. \A t \in 0..(g - 1) : (t + 1) - 1 = t
    OBVIOUS
  <2>2. \A t \in 0..(g - 1) :
           Group(w, k, t + 1) =
             [i \in 1..k |-> Single(w, ByWorkload(w, DOMAIN w)[t * k + (k + 1 - i)])]
    BY <2>1 DEF Group, Spot
  <2>3. StartEqual(w, k) =
          {[i \in 1..k |-> Single(w, ByWorkload(w, DOMAIN w)[t * k + (k + 1 - i)])] :
              t \in 0..(g - 1)}
    BY <1>2 DEF StartEqual
  <2> QED BY <2>2, <2>3
<1>4. {Group(w, k, t + 1) : t \in 0..(g - 1)} = {Group(w, k, c) : c \in 1..g}
  <2>1. \A t \in 0..(g - 1) : t + 1 \in 1..g
    OBVIOUS
  <2>2. \A c \in 1..g : c - 1 \in 0..(g - 1) /\ (c - 1) + 1 = c
    OBVIOUS
  <2> QED BY <2>1, <2>2
<1>5. n = Cardinality(1..n)
  <2>1. Cardinality(1..n) = IF 1 > n THEN 0 ELSE n - 1 + 1
    BY <1>1, FS_Interval
  <2> QED BY <1>1, <2>1
<1>6. Enumerates(ByWorkload(w, DOMAIN w), 1..n)
  BY <1>1, ByWorkloadIs
<1> QED BY <1>1, <1>3, <1>4, <1>5, <1>6 DEF Spots

\* A set indexed by 1..n is finite.
LEMMA FiniteImage ==
    ASSUME NEW n \in Nat, NEW f
    PROVE  IsFiniteSet({f[x] : x \in 1..n})
<1> DEFINE T == {f[x] : x \in 1..n}
           h == [x \in 1..n |-> f[x]]
<1>1. h \in Surjection(1..n, T)
  <2>1. h \in [1..n -> T]
    OBVIOUS
  <2>2. \A y \in T : \E x \in 1..n : h[x] = y
    OBVIOUS
  <2> HIDE DEF h, T
  <2> QED BY <2>1, <2>2 DEF Surjection
<1>2. IsFiniteSet(1..n)
  BY FS_Interval
<1> HIDE DEF h, T
<1>3. IsFiniteSet(T)
  BY <1>1, <1>2, FS_Surjection
<1> QED BY <1>3 DEF T

\* What holds of a heap over n rows through all its rounds.
HeapRight(h, k, n) ==
    /\ h \in SUBSET Solutions(k) /\ IsFiniteSet(h)
    /\ Separate(h) /\ RowsOf(h) = 1..n

\* Those groups hold every row once, and one row in every set.
LEMMA StartEqualRight ==
    ASSUME NEW k \in Nat \ {0}, NEW g \in Nat, NEW n, n = g * k, NEW w \in [1..n -> Int]
    PROVE  HeapRight(StartEqual(w, k), k, n) /\ \A s \in StartEqual(w, k) : Even(s)
<1> DEFINE item == ByWorkload(w, DOMAIN w)
           h == StartEqual(w, k)
<1>1. /\ h = {Group(w, k, c) : c \in 1..g} /\ n \in Nat /\ n = Cardinality(1..n)
      /\ Spots(g, k) = 1..n /\ Enumerates(item, 1..n)
  BY StartEqualIs
<1>2. /\ \A p \in 1..n : item[p] \in 1..n
      /\ \A p, q \in 1..n : item[p] = item[q] => p = q
      /\ \A x \in 1..n : \E p \in 1..n : item[p] = x
  BY <1>1 DEF Enumerates
<1>3. \A c \in 1..g : /\ DOMAIN Group(w, k, c) = 1..k
                      /\ \A i \in 1..k : Group(w, k, c)[i].items = {item[Spot(c, k, (k + 1) - i)]}
  BY DEF Group, Single
<1>4. \A i \in 1..k : (k + 1) - i \in 1..k /\ (k + 1) - ((k + 1) - i) = i
  OBVIOUS
<1> HIDE DEF item, h
<1>5. \A c \in 1..g, i \in 1..k : Spot(c, k, (k + 1) - i) \in 1..n
  BY <1>1, <1>4, PlaceAt
<1>6. h \in SUBSET Solutions(k)
  BY <1>1, StartEqualSorted DEF h
<1>7. IsFiniteSet(h)
  <2> DEFINE f == [c \in 1..g |-> Group(w, k, c)]
  <2>1. {f[c] : c \in 1..g} = {Group(w, k, c) : c \in 1..g}
    OBVIOUS
  <2> HIDE DEF f
  <2>2. IsFiniteSet({f[c] : c \in 1..g})
    BY FiniteImage
  <2> QED BY <1>1, <2>1, <2>2
<1>8. Separate(h)
  <2> SUFFICES ASSUME NEW c \in 1..g, NEW d \in 1..g, NEW i \in 1..k, NEW j \in 1..k,
                      Group(w, k, c) # Group(w, k, d) \/ i # j
               PROVE  Group(w, k, c)[i].items \cap Group(w, k, d)[j].items = {}
    BY <1>1, <1>3 DEF Separate
  <2> DEFINE p == Spot(c, k, (k + 1) - i)
             q == Spot(d, k, (k + 1) - j)
  <2>1. /\ PartOf(p, k) = c /\ SpotOf(p, k) = (k + 1) - i
        /\ PartOf(q, k) = d /\ SpotOf(q, k) = (k + 1) - j
    BY <1>4, PlaceAt
  <2>2. p # q
    <3> HIDE DEF p, q
    <3>1. c # d \/ i # j
      OBVIOUS
    <3>2. (k + 1) - i = (k + 1) - j => i = j
      BY <1>4
    <3> QED BY <2>1, <3>1, <3>2
  <2>3. item[p] # item[q]
    <3>1. p \in 1..n /\ q \in 1..n
      BY <1>5
    <3> HIDE DEF p, q
    <3> QED BY <1>2, <2>2, <3>1
  <2>4. Group(w, k, c)[i].items = {item[p]} /\ Group(w, k, d)[j].items = {item[q]}
    BY <1>3
  <2> HIDE DEF p, q
  <2> QED BY <2>3, <2>4
<1>9. RowsOf(h) = 1..n
  <2>1. \A x : x \in RowsOf(h) <=> \E c \in 1..g, i \in 1..k : x \in Group(w, k, c)[i].items
    <3>1. \A s \in h : DOMAIN s = 1..k
      BY <1>1, <1>3
    <3>2. \A x : x \in RowsOf(h) <=> \E s \in h : \E i \in 1..k : x \in s[i].items
      BY <3>1 DEF RowsOf
    <3> QED BY <1>1, <3>2
  <2>2. ASSUME NEW x \in 1..n PROVE x \in RowsOf(h)
    <3>1. PICK p \in 1..n : item[p] = x
      BY <1>2
    <3>2. PartOf(p, k) \in 1..g /\ SpotOf(p, k) \in 1..k /\ Spot(PartOf(p, k), k, SpotOf(p, k)) = p
      BY <1>1, PlaceOf
    <3> DEFINE i == (k + 1) - SpotOf(p, k)
    <3>3. i \in 1..k /\ (k + 1) - i = SpotOf(p, k)
      BY <1>4, <3>2
    <3>4. Group(w, k, PartOf(p, k))[i].items = {item[Spot(PartOf(p, k), k, (k + 1) - i)]}
      BY <1>3, <3>2, <3>3
    <3> HIDE DEF i
    <3>5. x \in Group(w, k, PartOf(p, k))[i].items
      BY <3>1, <3>2, <3>3, <3>4
    <3> QED BY <2>1, <3>2, <3>3, <3>5
  <2>3. ASSUME NEW x \in RowsOf(h) PROVE x \in 1..n
    <3>1. PICK c \in 1..g, i \in 1..k : x \in Group(w, k, c)[i].items
      BY <2>1
    <3>2. Group(w, k, c)[i].items = {item[Spot(c, k, (k + 1) - i)]}
      BY <1>3
    <3>3. item[Spot(c, k, (k + 1) - i)] \in 1..n
      BY <1>2, <1>5
    <3> QED BY <3>1, <3>2, <3>3
  <2> QED BY <2>2, <2>3
<1>10. ASSUME NEW s \in h PROVE Even(s)
  <2>1. PICK c \in 1..g : s = Group(w, k, c)
    BY <1>1
  <2>2. \A i \in 1..k : IsFiniteSet(s[i].items) /\ Cardinality(s[i].items) = 1
    <3>1. \A x : IsFiniteSet({x}) /\ Cardinality({x}) = 1
      BY FS_Singleton
    <3>2. \A i \in 1..k : s[i].items = {item[Spot(c, k, (k + 1) - i)]}
      BY <1>3, <2>1
    <3> QED BY <3>1, <3>2
  <2> QED BY <1>3, <2>1, <2>2 DEF Even
<1> QED BY <1>6, <1>7, <1>8, <1>9, <1>10 DEF HeapRight, h

\* A round keeps it.
LEMMA MergeRight ==
    ASSUME NEW k \in Nat \ {0}, NEW n, NEW h, HeapRight(h, k, n),
           NEW next \in MergesOf(h)
    PROVE  HeapRight(next, k, n) /\ ((\A s \in h : Even(s)) => \A s \in next : Even(s))
<1>1. PICK a, b \in h : \E m \in Sortings(JoinReversed(a, b)) :
         next = (h \ {a, b}) \cup {m}
  BY MergesAre
<1>2. PICK m \in Sortings(JoinReversed(a, b)) : next = (h \ {a, b}) \cup {m}
  BY <1>1
<1>3. a \in Solutions(k) /\ b \in Solutions(k) /\ IsFiniteSet(h)
  BY DEF HeapRight
<1>4. m \in Solutions(k)
  BY <1>3, JoinTyped, SortingsAre
<1>5. IsFiniteSet(h \ {a, b})
  BY <1>3, FS_Subset
<1>6. IsFiniteSet((h \ {a, b}) \cup {m})
  BY <1>5, FS_AddElement
<1>7. /\ RowsOf(next) = RowsOf(h) /\ Separate(next)
      /\ (\A s \in h : Even(s)) => \A s \in next : Even(s)
  <2>1. h \in SUBSET Solutions(k) /\ Separate(h)
    BY DEF HeapRight
  <2> QED BY <2>1, MergeKeepsRows
<1> QED BY <1>2, <1>4, <1>6, <1>7 DEF HeapRight

\* The one solution that is left.
LEMMA SolutionIs ==
    ASSUME NEW h, IsFiniteSet(h), Solved(h)
    PROVE  Solution(h) \in h /\ h = {Solution(h)}
<1>1. PICK s : h = {s}
  BY FS_Singleton DEF Solved
<1> QED BY <1>1 DEF Solution

\* There are n numbers from 1 to n.
LEMMA CountUpTo ==
    ASSUME NEW n \in Nat
    PROVE  IsFiniteSet(1..n) /\ Cardinality(1..n) = n
<1>1. 1 \in Int /\ n \in Int
  OBVIOUS
<1>2. IsFiniteSet(1..n) /\ Cardinality(1..n) = IF 1 > n THEN 0 ELSE n - 1 + 1
  BY <1>1, FS_Interval
<1> QED BY <1>2

-----------------------------------------------------------------------------
(* The order _balance_batch gives the rows.                                 *)

\* Sequences that go through k sets of the same size, which are apart, go
\* through all of them.
Through(ps, k, m, S, T) ==
    /\ DOMAIN ps = 1..k /\ Len(ps) = k
    /\ \A j \in 1..k : Enumerates(ps[j], S[j]) /\ Cardinality(S[j]) = m
    /\ \A i, j \in 1..k : i # j => S[i] \cap S[j] = {}
    /\ \A x : x \in T <=> \E j \in 1..k : x \in S[j]

\* Joining enumerations of k disjoint sets of m enumerates their union.
LEMMA ConcatEnumerates ==
    ASSUME NEW k \in Nat \ {0}, NEW m \in Nat \ {0}, NEW ps, NEW S, NEW T,
           Through(ps, k, m, S, T)
    PROVE  Enumerates(Concat(ps), T) /\ Cardinality(T) = k * m
<1> DEFINE e == [i \in Spots(k, m) |-> ps[PartOf(i, m)][SpotOf(i, m)]]
<1>0. /\ DOMAIN ps = 1..k /\ Len(ps) = k
      /\ \A j \in 1..k : Enumerates(ps[j], S[j]) /\ Cardinality(S[j]) = m
      /\ \A i, j \in 1..k : i # j => S[i] \cap S[j] = {}
      /\ \A x : x \in T <=> \E j \in 1..k : x \in S[j]
  BY DEF Through
<1>1. ASSUME NEW j \in 1..k
      PROVE  /\ ps[j] \in [1..m -> S[j]]
             /\ \A p, q \in 1..m : ps[j][p] = ps[j][q] => p = q
             /\ \A x \in S[j] : \E p \in 1..m : ps[j][p] = x
  <2>1. Enumerates(ps[j], S[j]) /\ Cardinality(S[j]) = m
    BY <1>0
  <2> QED BY <2>1 DEF Enumerates
<1>2. Len(ps[1]) = m
  <2>1. 1 \in 1..k
    OBVIOUS
  <2>2. ps[1] \in [1..m -> S[1]]
    BY <1>1, <2>1
  <2> QED BY <2>2
<1>3. Concat(ps) = e
  BY <1>0, <1>2 DEF Concat, Spots, PartOf, SpotOf
<1>4. \A i \in Spots(k, m) : /\ PartOf(i, m) \in 1..k /\ SpotOf(i, m) \in 1..m
                             /\ Spot(PartOf(i, m), m, SpotOf(i, m)) = i
  BY PlaceOf
<1>5. k * m \in Nat /\ Spots(k, m) = 1..(k * m)
  BY DEF Spots
<1>6. e \in [1..(k * m) -> T]
  <2>1. \A i \in Spots(k, m) : ps[PartOf(i, m)][SpotOf(i, m)] \in T
    <3> SUFFICES ASSUME NEW i \in Spots(k, m)
                 PROVE  ps[PartOf(i, m)][SpotOf(i, m)] \in T
      OBVIOUS
    <3>1. ps[PartOf(i, m)][SpotOf(i, m)] \in S[PartOf(i, m)]
      BY <1>1, <1>4
    <3> QED BY <1>0, <1>4, <3>1
  <2> QED BY <1>5, <2>1
<1>7. ASSUME NEW i \in 1..(k * m), NEW j \in 1..(k * m), e[i] = e[j]
      PROVE  i = j
  <2> DEFINE c == PartOf(i, m)
             d == PartOf(j, m)
             x == SpotOf(i, m)
             y == SpotOf(j, m)
  <2>1. /\ c \in 1..k /\ d \in 1..k /\ x \in 1..m /\ y \in 1..m
        /\ Spot(c, m, x) = i /\ Spot(d, m, y) = j
    BY <1>4, <1>5
  <2>2. e[i] = ps[c][x] /\ e[j] = ps[d][y]
    BY <1>5
  <2> HIDE DEF c, d, x, y, e
  <2>3. ps[c][x] \in S[c] /\ ps[d][y] \in S[d]
    <3>1. ps[c] \in [1..m -> S[c]] /\ ps[d] \in [1..m -> S[d]]
      BY <1>1, <2>1
    <3> QED BY <2>1, <3>1
  <2>4. c = d
    BY <1>0, <1>7, <2>1, <2>2, <2>3
  <2>5. x = y
    <3>1. \A p, q \in 1..m : ps[c][p] = ps[c][q] => p = q
      BY <1>1, <2>1
    <3> QED BY <1>7, <2>1, <2>2, <2>4, <3>1
  <2> QED BY <2>1, <2>4, <2>5
<1>8. ASSUME NEW t \in T PROVE \E i \in 1..(k * m) : e[i] = t
  <2>1. PICK c \in 1..k : t \in S[c]
    BY <1>0
  <2>2. PICK x \in 1..m : ps[c][x] = t
    BY <1>1, <2>1
  <2>3. /\ Spot(c, m, x) \in Spots(k, m)
        /\ PartOf(Spot(c, m, x), m) = c /\ SpotOf(Spot(c, m, x), m) = x
    BY <2>2, PlaceAt
  <2> QED BY <1>5, <2>2, <2>3
<1> HIDE DEF e
<1>10. Counts(e, k * m, T)
  BY <1>6, <1>7, <1>8 DEF Counts
<1>9. Enumerates(e, T) /\ Cardinality(T) = k * m
  BY <1>5, <1>10, CountedBy
<1> QED BY <1>3, <1>9

\* Rows by workload, short ones at both ends.
ShortEnds(w, S) ==
    EverySecond(ByWorkload(w, S), 1) \o Reverse(EverySecond(ByWorkload(w, S), 2))

Weights(w, n) == w \in [1..n -> Int]

\* ray_trainer.py:1204-1212. The order by which the batch is rearranged takes
\* every row once, and every rank gets equally many.
LEMMA OrderIs ==
    ASSUME NEW k \in Nat \ {0}, NEW n \in Nat \ {0}, NEW w, Weights(w, n),
           NEW s, HeapRight({s}, k, n), Even(s)
    PROVE  /\ Enumerates(Concat([j \in 1..k |-> ShortEnds(w, s[j].items)]), 1..n)
           /\ \A j \in 1..k : Cardinality(s[j].items) * k = n
           /\ UNION {s[j].items : j \in 1..k} = 1..n
<1> DEFINE m == Cardinality(s[1].items)
           ps == [j \in 1..k |-> ShortEnds(w, s[j].items)]
           S == [j \in 1..k |-> s[j].items]
<1>1. DOMAIN s = 1..k
  BY DEF HeapRight, Solutions
<1>2. UNION {s[j].items : j \in 1..k} = 1..n
  BY <1>1 DEF HeapRight, RowsOf
<1>3. /\ \A j \in 1..k : IsFiniteSet(s[j].items) /\ Cardinality(s[j].items) = m
      /\ m \in Nat
  <2>1. 1 \in 1..k
    OBVIOUS
  <2>2. \A j \in 1..k : IsFiniteSet(s[j].items) /\ Cardinality(s[j].items) = m
    BY <1>1, <2>1 DEF Even
  <2> QED BY <2>1, <2>2, FS_CardinalityType
<1>4. m # 0
  <2>1. PICK j \in 1..k : 1 \in s[j].items
    BY <1>2
  <2>2. Cardinality(s[j].items) # 0
    BY <1>3, <2>1, FS_EmptySet
  <2> QED BY <1>3, <2>2
<1>5. \A i, j \in 1..k : i # j => s[i].items \cap s[j].items = {}
  BY <1>1 DEF HeapRight, Separate
<1>6. \A j \in 1..k : Enumerates(ShortEnds(w, s[j].items), s[j].items)
  <2> SUFFICES ASSUME NEW j \in 1..k PROVE Enumerates(ShortEnds(w, s[j].items), s[j].items)
    OBVIOUS
  <2>1. s[j].items \in SUBSET (1..n)
    BY <1>2
  <2>2. Enumerates(ByWorkload(w, s[j].items), s[j].items)
    BY <2>1, ByWorkloadIs DEF Weights
  <2> QED BY <2>2, ShortAtEnds DEF ShortEnds
<1>7. DOMAIN ps = 1..k /\ Len(ps) = k /\ \A j \in 1..k : ps[j] = ShortEnds(w, s[j].items)
  OBVIOUS
<1>8. \A j \in 1..k : S[j] = s[j].items
  OBVIOUS
<1> HIDE DEF m, ps, S
<1>9. Through(ps, k, m, S, 1..n)
  <2>1. \A j \in 1..k : Enumerates(ps[j], S[j]) /\ Cardinality(S[j]) = m
    BY <1>3, <1>6, <1>7, <1>8
  <2>2. \A i, j \in 1..k : i # j => S[i] \cap S[j] = {}
    BY <1>5, <1>8
  <2>3. \A x : x \in 1..n <=> \E j \in 1..k : x \in S[j]
    BY <1>2, <1>8
  <2> QED BY <1>7, <2>1, <2>2, <2>3 DEF Through
<1>10. Enumerates(Concat(ps), 1..n) /\ Cardinality(1..n) = k * m
  BY <1>3, <1>4, <1>9, ConcatEnumerates
<1>11. Cardinality(1..n) = n
  BY CountUpTo
<1>12. m * k = n
  BY <1>3, <1>10, <1>11
<1> QED BY <1>2, <1>3, <1>10, <1>12 DEF ps

-----------------------------------------------------------------------------
(* Every prompt keeps its n rows.                                           *)

OfPrompt(r, p) == {i \in DOMAIN r : r[i].prompt = p}

RowsRight(b, r) ==
    /\ r = [i \in 1..Size(b) |-> r[i]] /\ Len(r) = Size(b)
    /\ \A i \in 1..Size(b) : Own(b, r[i])
    /\ \A p \in 1..b.prompts : Cardinality(OfPrompt(r, p)) = b.n

\* Every prompt then has n rows, each with its own answer.
LEMMA UnionRight ==
    ASSUME NEW b \in Batches, NEW output, Answering(b, output)
    PROVE  RowsRight(b, Union(b, output))
<1> DEFINE r == Union(b, output)
<1>1. /\ Len(r) = Size(b) /\ DOMAIN r = 1..Size(b) /\ r = [i \in 1..Size(b) |-> r[i]]
      /\ \A i \in 1..Size(b) : Own(b, r[i]) /\ r[i].prompt = PartOf(i, b.n)
  BY UnionIs
<1>2. b.prompts \in Nat \ {0} /\ b.n \in Nat \ {0} /\ Spots(b.prompts, b.n) = 1..Size(b)
  BY BatchIs
<1> HIDE DEF r
<1>3. ASSUME NEW p \in 1..b.prompts PROVE Cardinality(OfPrompt(r, p)) = b.n
  <2> DEFINE e == [x \in 1..b.n |-> Spot(p, b.n, x)]
             S == OfPrompt(r, p)
  <2>0. \A x \in 1..b.n : e[x] = Spot(p, b.n, x)
    OBVIOUS
  <2>1. \A x \in 1..b.n : /\ Spot(p, b.n, x) \in 1..Size(b)
                          /\ PartOf(Spot(p, b.n, x), b.n) = p
                          /\ SpotOf(Spot(p, b.n, x), b.n) = x
    <3> SUFFICES ASSUME NEW x \in 1..b.n
                 PROVE  /\ Spot(p, b.n, x) \in Spots(b.prompts, b.n)
                        /\ PartOf(Spot(p, b.n, x), b.n) = p
                        /\ SpotOf(Spot(p, b.n, x), b.n) = x
      BY <1>2
    <3>1. b.prompts \in Nat /\ b.n \in Nat \ {0}
      BY <1>2
    <3> QED BY <3>1, PlaceAt
  <2>2. \A i : i \in S <=> i \in 1..Size(b) /\ PartOf(i, b.n) = p
    BY <1>1 DEF OfPrompt
  <2> HIDE DEF S
  <2>3. e \in [1..b.n -> S]
    BY <2>1, <2>2
  <2> HIDE DEF e
  <2>4. \A x, y \in 1..b.n : e[x] = e[y] => x = y
    BY <2>0, <2>1
  <2>5. ASSUME NEW i \in S PROVE \E x \in 1..b.n : e[x] = i
    <3>1. i \in Spots(b.prompts, b.n) /\ PartOf(i, b.n) = p
      BY <1>2, <2>2
    <3>2. SpotOf(i, b.n) \in 1..b.n /\ Spot(PartOf(i, b.n), b.n, SpotOf(i, b.n)) = i
      BY <1>2, <3>1, PlaceOf
    <3> QED BY <2>0, <3>1, <3>2
  <2>6. b.n \in Nat
    BY <1>2
  <2>8. Counts(e, b.n, S)
    BY <2>3, <2>4, <2>5 DEF Counts
  <2>7. Cardinality(S) = b.n
    BY <2>6, <2>8, CountedBy
  <2> QED BY <2>7 DEF S
<1> QED BY <1>1, <1>3 DEF RowsRight, r

\* However the rows are rearranged.
LEMMA ReorderRight ==
    ASSUME NEW b \in Batches, NEW r, RowsRight(b, r), NEW order,
           Enumerates(order, 1..Size(b))
    PROVE  RowsRight(b, [i \in 1..Size(b) |-> r[order[i]]])
<1> DEFINE q == [i \in 1..Size(b) |-> r[order[i]]]
           n == Size(b)
<1>1. n \in Nat /\ b.n \in Nat \ {0}
  BY BatchIs
<1>2. /\ DOMAIN q = 1..n /\ Len(q) = n /\ q = [i \in 1..n |-> q[i]]
      /\ \A i \in 1..n : q[i] = r[order[i]]
  BY <1>1
<1>3. Cardinality(1..n) = n
  BY <1>1, CountUpTo
<1>4. /\ order \in [1..n -> 1..n]
      /\ \A i, j \in 1..n : order[i] = order[j] => i = j
      /\ \A x \in 1..n : \E i \in 1..n : order[i] = x
  BY <1>3 DEF Enumerates
<1> HIDE DEF q, n
<1>5. /\ DOMAIN r = 1..n
      /\ \A i \in 1..n : Own(b, r[i])
      /\ \A p \in 1..b.prompts : Cardinality(OfPrompt(r, p)) = b.n
  BY <1>1 DEF RowsRight, n
<1>6. \A i \in 1..n : Own(b, q[i])
  BY <1>2, <1>4, <1>5
<1>7. ASSUME NEW p \in 1..b.prompts PROVE Cardinality(OfPrompt(q, p)) = b.n
  <2> DEFINE S == OfPrompt(q, p)
             T == OfPrompt(r, p)
             f == [i \in S |-> order[i]]
  <2>1. \A i : i \in S <=> i \in 1..n /\ r[order[i]].prompt = p
    BY <1>2 DEF OfPrompt
  <2>2. \A i : i \in T <=> i \in 1..n /\ r[i].prompt = p
    BY <1>5 DEF OfPrompt
  <2> HIDE DEF S, T
  <2>3. f \in [S -> T]
    BY <1>4, <2>1, <2>2
  <2>4. \A i, j \in S : f[i] = f[j] => i = j
    BY <1>4, <2>1
  <2>5. \A x \in T : \E i \in S : f[i] = x
    BY <1>4, <2>1, <2>2
  <2>6. f \in Bijection(S, T)
    <3> HIDE DEF f
    <3> QED BY <2>3, <2>4, <2>5 DEF Bijection, Injection, Surjection, IsInjective
  <2>7. IsFiniteSet(S)
    <3>1. IsFiniteSet(1..n) /\ S \in SUBSET (1..n)
      BY <1>1, <2>1, CountUpTo
    <3> QED BY <3>1, FS_Subset
  <2> HIDE DEF f
  <2>8. ExistsBijection(S, T)
    BY <2>6 DEF ExistsBijection
  <2>9. Cardinality(T) = Cardinality(S)
    BY <2>7, <2>8, FS_Bijection
  <2>10. Cardinality(T) = b.n
    BY <1>5 DEF T
  <2> QED BY <2>9, <2>10 DEF S
<1> QED BY <1>2, <1>6, <1>7 DEF RowsRight, q, n

-----------------------------------------------------------------------------
(* Every row gets its own response.                                         *)

\* Without a remainder.
LEMMA Divides ==
    ASSUME NEW a \in Nat \ {0}, NEW d \in Nat \ {0}, a % d = 0
    PROVE  a \div d \in Nat \ {0} /\ a = (a \div d) * d /\ a = d * (a \div d)
<1> DEFINE q == a \div d
           r == a % d
<1>1. q \in Nat /\ a = q * d + r /\ r = 0
  <2>1. a \in Nat
    OBVIOUS
  <2> QED BY <2>1, Divided
<1> HIDE DEF q, r
<1>2. q * d \in Nat
  BY <1>1
<1>3. a = q * d
  BY <1>1, <1>2
<1>4. q # 0
  BY <1>3
<1>5. q * d = d * q
  BY <1>1
<1> QED BY <1>1, <1>3, <1>4, <1>5 DEF q

\* And from the product.
LEMMA Divided0 ==
    ASSUME NEW q \in Nat, NEW d \in Nat \ {0}
    PROVE  (d * q) \div d = q
<1>1. (q * d + 0) \div d = q
  BY DividedOnce
<1>2. q * d + 0 = d * q
  OBVIOUS
<1> QED BY <1>1, <1>2

\* What the workers have answers what was sent to them.
RolloutRight(b, s, r) ==
    \E g \in Nat \ {0} :
       /\ Len(GenBatch(b)) = Workers * g
       /\ s = Chunk(GenBatch(b), Workers)
       /\ r \in [1..Workers -> [1..g -> Replies]]
       /\ \A c \in 1..Workers, i \in 1..g : r[c][i] # NoReply =>
             /\ r[c][i].prompt = s[c][i].prompt /\ r[c][i].mode = s[c][i].mode
             /\ r[c][i].len \in Lengths

\* agent_loop.py:1102-1117. What a worker is sent, by the place in the batch.
LEMMA SentIs ==
    ASSUME NEW b \in Batches, NEW g \in Nat \ {0}, Len(GenBatch(b)) = Workers * g
    PROVE  /\ Chunk(GenBatch(b), Workers) =
                [c \in 1..Workers |-> [i \in 1..g |-> GenBatch(b)[Spot(c, g, i)]]]
           /\ \A c \in 1..Workers, i \in 1..g : /\ Spot(c, g, i) \in 1..Len(GenBatch(b))
                                                /\ GenBatch(b)[Spot(c, g, i)] \in Asked
<1>1. Workers \in Nat \ {0}
  BY SizesAssumption
<1>2. Chunk(GenBatch(b), Workers) =
        [c \in 1..Workers |-> [i \in 1..g |-> GenBatch(b)[Spot(c, g, i)]]]
  <2>1. Len(GenBatch(b)) \div Workers = g
    BY <1>1, Divided0
  <2> QED BY <2>1 DEF Chunk, Spot
<1>3. GenBatch(b) \in [1..Len(GenBatch(b)) -> Asked]
  BY GeneratedAre
<1>4. ASSUME NEW c \in 1..Workers, NEW i \in 1..g
      PROVE  /\ Spot(c, g, i) \in 1..Len(GenBatch(b))
             /\ GenBatch(b)[Spot(c, g, i)] \in Asked
  <2>1. Spot(c, g, i) \in Spots(Workers, g)
    BY <1>1, PlaceAt
  <2>2. Spot(c, g, i) \in 1..Len(GenBatch(b))
    BY <2>1 DEF Spots
  <2> QED BY <1>3, <2>2
<1> QED BY <1>2, <1>4

\* agent_loop.py:1112-1117. When every rollout has ended, the outputs of the
\* workers, one worker after the other, answer the generation batch row by row.
LEMMA CollectAnswers ==
    ASSUME NEW b \in Batches, NEW s, NEW r, RolloutRight(b, s, r),
           \A c \in 1..Workers : \A i \in DOMAIN r[c] : r[c][i] # NoReply
    PROVE  Answering(b, Concat(r))
<1>0. Workers \in Nat \ {0}
  BY SizesAssumption
<1>1. PICK g \in Nat \ {0} :
       /\ Len(GenBatch(b)) = Workers * g
       /\ s = Chunk(GenBatch(b), Workers)
       /\ r \in [1..Workers -> [1..g -> Replies]]
       /\ \A c \in 1..Workers, i \in 1..g : r[c][i] # NoReply =>
             /\ r[c][i].prompt = s[c][i].prompt /\ r[c][i].mode = s[c][i].mode
             /\ r[c][i].len \in Lengths
  BY DEF RolloutRight
<1>2. s = [c \in 1..Workers |-> [i \in 1..g |-> GenBatch(b)[Spot(c, g, i)]]]
  BY <1>1, SentIs
<1>3. ASSUME NEW c \in 1..Workers, NEW i \in 1..g
      PROVE  /\ r[c][i] \in Replies
             /\ r[c][i].prompt = GenBatch(b)[Spot(c, g, i)].prompt
             /\ r[c][i].mode = GenBatch(b)[Spot(c, g, i)].mode
             /\ r[c][i].len \in Lengths
  <2>1. r[c] \in [1..g -> Replies] /\ s[c][i] = GenBatch(b)[Spot(c, g, i)]
    BY <1>1, <1>2
  <2>2. r[c][i] # NoReply /\ r[c][i] \in Replies
    BY <2>1
  <2> QED BY <1>1, <2>1, <2>2
<1> DEFINE o == Concat(r)
           n == Len(GenBatch(b))
<1>4. o = [i \in 1..n |-> r[PartOf(i, g)][SpotOf(i, g)]]
  <2>1. Len(r) = Workers
    BY <1>0, <1>1
  <2>2. 1 \in 1..Workers
    BY <1>0
  <2>3. r[1] \in [1..g -> Replies]
    BY <1>1, <2>2
  <2>4. Len(r[1]) = g
    BY <2>3
  <2> QED BY <1>1, <2>1, <2>4 DEF Concat, PartOf, SpotOf
<1>5. ASSUME NEW i \in 1..n
      PROVE  /\ o[i] \in Replies
             /\ o[i].prompt = GenBatch(b)[i].prompt
             /\ o[i].mode = GenBatch(b)[i].mode
             /\ o[i].len \in Lengths
  <2> DEFINE c == PartOf(i, g)
             x == SpotOf(i, g)
  <2>1. i \in Spots(Workers, g) /\ Workers \in Nat
    BY <1>0, <1>1 DEF Spots
  <2>2. c \in 1..Workers /\ x \in 1..g /\ Spot(c, g, x) = i
    BY <2>1, PlaceOf
  <2>3. o[i] = r[c][x]
    BY <1>4
  <2> HIDE DEF c, x, o, n
  <2> QED BY <1>3, <2>2, <2>3
<1>6. o \in [1..n -> Replies]
  <2>1. \A i \in 1..n : r[PartOf(i, g)][SpotOf(i, g)] \in Replies
    BY <1>4, <1>5
  <2> HIDE DEF o, n
  <2> QED BY <1>4, <2>1
<1> HIDE DEF o
<1> QED BY <1>5, <1>6 DEF Answering, o

\* The rows have a length, and so a workload.
LEMMA WorkIs ==
    ASSUME NEW r, NEW n \in Nat, DOMAIN r = 1..n, Len(r) = n,
           \A i \in 1..n : r[i].response.len \in Nat
    PROVE  [i \in 1..Len(r) |-> CalculateWorkload(r[i].response.len)] \in [1..n -> Nat]
<1>1. \A l \in Nat : CalculateWorkload(l) \in Nat
  <2> SUFFICES ASSUME NEW l \in Nat PROVE CalculateWorkload(l) \in Nat
    OBVIOUS
  <2>1. l * l \in Nat /\ 24576 * l \in Nat
    OBVIOUS
  <2> QED BY <2>1 DEF CalculateWorkload
<1> QED BY <1>1

\* The rows of a batch have a length and a workload.
LEMMA RowsWork ==
    ASSUME NEW b \in Batches, NEW r, RowsRight(b, r)
    PROVE  /\ DOMAIN r = 1..Size(b) /\ Len(r) = Size(b) /\ Size(b) \in Nat \ {0}
           /\ \A i \in 1..Size(b) : r[i].response.len \in Nat \ {0}
           /\ [i \in 1..Len(r) |-> CalculateWorkload(r[i].response.len)] \in [1..Size(b) -> Nat]
<1>1. DOMAIN r = 1..Size(b) /\ Len(r) = Size(b) /\ Size(b) \in Nat \ {0}
  BY BatchIs DEF RowsRight
<1>2. \A i \in 1..Size(b) : r[i].response.len \in Nat \ {0}
  BY SizesAssumption DEF RowsRight, Own
<1>3. [i \in 1..Len(r) |-> CalculateWorkload(r[i].response.len)] \in [1..Size(b) -> Nat]
  BY <1>1, <1>2, WorkIs
<1> QED BY <1>1, <1>2, <1>3

Balanced(b, h) ==
    /\ \E g \in Nat \ {0} : Size(b) = g * Ranks
    /\ HeapRight(h, Ranks, Size(b)) /\ \A s \in h : Even(s)

OwnInvariant ==
    /\ batch \in Batches
    /\ phase \in {"submit", "rollout", "balance", "compute", "done", "failed"}
    /\ phase = "rollout" => RolloutRight(batch, sent, reply)
    /\ phase \in {"balance", "compute", "done"} => RowsRight(batch, rows)
    /\ phase = "balance" => Balanced(batch, heap)

\* The invariant holds at the start,
LEMMA OwnInit == Init => OwnInvariant
BY DEF Init, OwnInvariant

\* when the batch is split over the workers,
LEMMA OwnSubmit ==
    ASSUME OwnInvariant, Submit
    PROVE  OwnInvariant'
<1>1. batch \in Batches /\ batch' = batch
  BY DEF OwnInvariant, Submit, vars
<1>2. CASE Len(GenBatch(batch)) % Workers # 0
  BY <1>1, <1>2 DEF OwnInvariant, Submit, Fails
<1>3. CASE Len(GenBatch(batch)) % Workers = 0
  <2>1. /\ phase' = "rollout" /\ sent' = Chunk(GenBatch(batch), Workers)
        /\ reply' = [c \in 1..Workers |-> [i \in 1..Len(sent'[c]) |-> NoReply]]
    BY <1>3 DEF Submit
  <2> DEFINE n == Len(GenBatch(batch))
             g == n \div Workers
  <2>2. n \in Nat \ {0}
    <3>1. Size(batch) \in Nat \ {0} /\ Added(batch) \in Nat /\ n = Size(batch) + Added(batch)
      BY <1>1, BatchIs, GeneratedAre
    <3> HIDE DEF n
    <3> QED BY <3>1
  <2>3. g \in Nat \ {0} /\ n = Workers * g
    <3>1. Workers \in Nat \ {0} /\ n % Workers = 0
      BY <1>3, SizesAssumption
    <3> HIDE DEF n
    <3> QED BY <2>2, <3>1, Divides
  <2> HIDE DEF n, g
  <2>4. sent' = [c \in 1..Workers |-> [i \in 1..g |-> GenBatch(batch)[Spot(c, g, i)]]]
    BY <1>1, <2>1, <2>3, SentIs DEF n
  <2>5. \A c \in 1..Workers : Len(sent'[c]) = g
    BY <2>3, <2>4
  <2>6. reply' = [c \in 1..Workers |-> [i \in 1..g |-> NoReply]]
    BY <2>1, <2>5
  <2>7. NoReply \in Replies
    BY DEF NoReply, Replies, Modes
  <2>8. RolloutRight(batch, sent', reply')
    <3>1. reply' \in [1..Workers -> [1..g -> Replies]]
      BY <2>6, <2>7
    <3>2. \A c \in 1..Workers, i \in 1..g : reply'[c][i] = NoReply
      BY <2>6
    <3> QED BY <2>1, <2>3, <3>1, <3>2 DEF RolloutRight, n
  <2> QED BY <1>1, <2>1, <2>8 DEF OwnInvariant
<1> QED BY <1>2, <1>3

\* when one rollout ends, whichever it is,
LEMMA OwnRolloutEnds ==
    ASSUME OwnInvariant, NEW c \in 1..Workers, NEW i \in DOMAIN reply[c], RolloutEnds(c, i)
    PROVE  OwnInvariant'
<1>1. /\ batch \in Batches /\ batch' = batch /\ phase = "rollout" /\ phase' = "rollout"
      /\ sent' = sent /\ RolloutRight(batch, sent, reply)
  BY DEF OwnInvariant, RolloutEnds
<1>2. PICK l \in Lengths :
         reply' = [reply EXCEPT ![c][i] =
                     [prompt |-> sent[c][i].prompt, mode |-> sent[c][i].mode, len |-> l]]
  BY DEF RolloutEnds
<1>3. PICK g \in Nat \ {0} :
       /\ Len(GenBatch(batch)) = Workers * g
       /\ sent = Chunk(GenBatch(batch), Workers)
       /\ reply \in [1..Workers -> [1..g -> Replies]]
       /\ \A d \in 1..Workers, x \in 1..g : reply[d][x] # NoReply =>
             /\ reply[d][x].prompt = sent[d][x].prompt /\ reply[d][x].mode = sent[d][x].mode
             /\ reply[d][x].len \in Lengths
  BY <1>1 DEF RolloutRight
<1>4. i \in 1..g
  BY <1>3
<1>5. sent[c][i] \in Asked
  <2>1. sent = [d \in 1..Workers |-> [x \in 1..g |-> GenBatch(batch)[Spot(d, g, x)]]]
    BY <1>1, <1>3, SentIs
  <2>2. GenBatch(batch)[Spot(c, g, i)] \in Asked
    BY <1>1, <1>3, <1>4, SentIs
  <2> QED BY <1>4, <2>1, <2>2
<1> DEFINE new == [prompt |-> sent[c][i].prompt, mode |-> sent[c][i].mode, len |-> l]
<1>6. new \in Replies /\ new.prompt = sent[c][i].prompt /\ new.mode = sent[c][i].mode /\ new.len = l
  BY <1>5, SizesAssumption DEF Asked, Replies
<1>7. reply' = [reply EXCEPT ![c][i] = new]
  BY <1>2
<1> HIDE DEF new
<1>8. reply' \in [1..Workers -> [1..g -> Replies]]
  BY <1>3, <1>4, <1>6, <1>7
<1>9. \A d \in 1..Workers, x \in 1..g :
         reply'[d][x] = IF d = c /\ x = i THEN new ELSE reply[d][x]
  BY <1>3, <1>4, <1>7
<1>10. \A d \in 1..Workers, x \in 1..g : reply'[d][x] # NoReply =>
             /\ reply'[d][x].prompt = sent[d][x].prompt /\ reply'[d][x].mode = sent[d][x].mode
             /\ reply'[d][x].len \in Lengths
  BY <1>3, <1>6, <1>9
<1>11. RolloutRight(batch, sent, reply')
  BY <1>3, <1>8, <1>10 DEF RolloutRight
<1> QED BY <1>1, <1>11 DEF OwnInvariant

\* when the outputs are put together and the balancing begins,
LEMMA OwnCollect ==
    ASSUME OwnInvariant, Collect
    PROVE  OwnInvariant'
<1>1. /\ batch \in Batches /\ batch' = batch /\ phase = "rollout"
      /\ RolloutRight(batch, sent, reply) /\ Answered
      /\ rows' = Union(batch, Concat(reply))
  BY DEF OwnInvariant, Collect
<1>2. Answering(batch, Concat(reply))
  BY <1>1, CollectAnswers DEF Answered
<1>3. RowsRight(batch, rows')
  BY <1>1, <1>2, UnionRight
<1>4. CASE batch.kind = "validate"
  <2>1. phase' = "done"
    BY <1>4 DEF Collect
  <2> QED BY <1>1, <1>3, <2>1 DEF OwnInvariant
<1>5. CASE batch.kind # "validate" /\ Len(rows') % Ranks # 0
  <2>1. phase' = "failed"
    BY <1>5 DEF Collect, Fails
  <2> QED BY <1>1, <2>1 DEF OwnInvariant
<1>6. CASE batch.kind # "validate" /\ ~(Len(rows') % Ranks # 0)
  <2> DEFINE w == [i \in 1..Len(rows') |-> CalculateWorkload(rows'[i].response.len)]
  <2>1. phase' = "balance" /\ heap' = StartEqual(w, Ranks)
    BY <1>6 DEF Collect
  <2>2. w \in [1..Size(batch) -> Nat] /\ Len(rows') = Size(batch) /\ Size(batch) \in Nat \ {0}
    BY <1>1, <1>3, RowsWork
  <2>0. w \in [1..Size(batch) -> Int]
    BY <2>2
  <2> HIDE DEF w
  <2> DEFINE n == Size(batch)
             g == n \div Ranks
  <2>3. g \in Nat \ {0} /\ n = g * Ranks
    <3>1. Ranks \in Nat \ {0} /\ n \in Nat \ {0} /\ n % Ranks = 0
      BY <1>6, <2>2, SizesAssumption
    <3> HIDE DEF n
    <3> QED BY <3>1, Divides
  <2> HIDE DEF g
  <2>4. HeapRight(heap', Ranks, Size(batch)) /\ \A s \in heap' : Even(s)
    BY <2>0, <2>1, <2>3, StartEqualRight, SizesAssumption
  <2>5. Balanced(batch, heap')
    BY <2>3, <2>4 DEF Balanced
  <2> QED BY <1>1, <1>3, <2>1, <2>5 DEF OwnInvariant
<1> QED BY <1>4, <1>5, <1>6

\* after every round of the balancing,
LEMMA OwnBalanceMerge ==
    ASSUME OwnInvariant, BalanceMerge
    PROVE  OwnInvariant'
<1>1. /\ batch \in Batches /\ batch' = batch /\ phase = "balance" /\ phase' = "balance"
      /\ rows' = rows /\ heap' \in MergesOf(heap) /\ Balanced(batch, heap) /\ RowsRight(batch, rows)
  BY DEF OwnInvariant, BalanceMerge
<1>2. HeapRight(heap', Ranks, Size(batch)) /\ \A s \in heap' : Even(s)
  BY <1>1, MergeRight, SizesAssumption DEF Balanced
<1> QED BY <1>1, <1>2 DEF OwnInvariant, Balanced

\* The order of the solution.
LEMMA ReorderOrder ==
    ASSUME OwnInvariant, Reorder
    PROVE  /\ HeapRight({Solution(heap)}, Ranks, Size(batch)) /\ Even(Solution(heap))
           /\ Enumerates(Concat([j \in 1..Ranks |-> Ordered(Solution(heap)[j].items)]),
                         1..Size(batch))
           /\ \A j \in 1..Ranks : Cardinality(Solution(heap)[j].items) * Ranks = Size(batch)
           /\ UNION {Solution(heap)[j].items : j \in 1..Ranks} = 1..Size(batch)
<1>1. /\ batch \in Batches /\ phase = "balance" /\ Solved(heap)
      /\ Balanced(batch, heap) /\ RowsRight(batch, rows)
  BY DEF OwnInvariant, Reorder
<1>2. Solution(heap) \in heap /\ heap = {Solution(heap)}
  BY <1>1, SolutionIs DEF Balanced, HeapRight
<1> DEFINE s == Solution(heap)
           n == Size(batch)
<1>3. HeapRight({s}, Ranks, n) /\ Even(s) /\ n \in Nat \ {0} /\ Ranks \in Nat \ {0}
  BY <1>1, <1>2, BatchIs, SizesAssumption DEF Balanced
<1>4. Weights(Work, n)
  <2>1. Work \in [1..n -> Nat]
    BY <1>1, RowsWork DEF Work
  <2> QED BY <2>1 DEF Weights
<1>5. \A j \in 1..Ranks : Ordered(s[j].items) = ShortEnds(Work, s[j].items)
  BY DEF Ordered, ShortEnds
<1> HIDE DEF s, n
<1>6. /\ Enumerates(Concat([j \in 1..Ranks |-> ShortEnds(Work, s[j].items)]), 1..n)
      /\ \A j \in 1..Ranks : Cardinality(s[j].items) * Ranks = n
      /\ UNION {s[j].items : j \in 1..Ranks} = 1..n
  BY <1>3, <1>4, OrderIs
<1>7. [j \in 1..Ranks |-> Ordered(s[j].items)] = [j \in 1..Ranks |-> ShortEnds(Work, s[j].items)]
  BY <1>5
<1> QED BY <1>3, <1>6, <1>7 DEF s, n

\* after the rows are rearranged,
LEMMA OwnReorder ==
    ASSUME OwnInvariant, Reorder
    PROVE  OwnInvariant'
<1> DEFINE order == Concat([j \in 1..Ranks |-> Ordered(Solution(heap)[j].items)])
<1>1. /\ batch \in Batches /\ batch' = batch /\ phase' = "compute" /\ RowsRight(batch, rows)
      /\ rows' = [i \in 1..Len(rows) |-> rows[order[i]]]
  BY DEF OwnInvariant, Reorder
<1>2. Enumerates(order, 1..Size(batch))
  BY ReorderOrder
<1>3. Len(rows) = Size(batch)
  BY <1>1, RowsWork
<1> HIDE DEF order
<1>4. RowsRight(batch, rows')
  BY <1>1, <1>2, <1>3, ReorderRight
<1> QED BY <1>1, <1>4 DEF OwnInvariant

\* and so after every step.
LEMMA OwnNext == OwnInvariant /\ [Next]_vars => OwnInvariant'
<1> SUFFICES ASSUME OwnInvariant, [Next]_vars PROVE OwnInvariant'
  OBVIOUS
<1>1. CASE Submit
  BY <1>1, OwnSubmit
<1>2. CASE Collect
  BY <1>2, OwnCollect
<1>3. CASE BalanceMerge
  BY <1>3, OwnBalanceMerge
<1>4. CASE Reorder
  BY <1>4, OwnReorder
<1>5. CASE Gather
  BY <1>5 DEF OwnInvariant, Gather
<1>6. CASE NextBatch
  BY <1>6 DEF OwnInvariant, NextBatch
<1>7. CASE Stopped
  BY <1>7 DEF OwnInvariant, Stopped, vars, rollout, balance
<1>8. ASSUME NEW c \in 1..Workers, NEW i \in DOMAIN reply[c], RolloutEnds(c, i)
      PROVE  OwnInvariant'
  BY <1>8, OwnRolloutEnds
<1>9. ASSUME NEW c \in 1..Workers, NEW i \in DOMAIN reply[c], RolloutRaises(c, i)
      PROVE  OwnInvariant'
  BY <1>9 DEF OwnInvariant, RolloutRaises, Fails
<1>10. ASSUME NEW j \in 1..Ranks,
              \/ TooLong(j) \/ CountMicroBatches(j) \/ AllReduce(j) \/ MicroMerge(j)
              \/ Compute(j)
       PROVE  OwnInvariant'
  <2>1. phase = "compute" /\ batch' = batch /\ rows' = rows
    BY <1>10 DEF TooLong, CountMicroBatches, AllReduce, MicroMerge, Compute
  <2>2. phase' = "compute" \/ phase' = "failed"
    <3>1. CASE Compute(j)
      BY <2>1, <3>1 DEF Compute, Fails
    <3> QED BY <1>10, <2>1, <3>1 DEF TooLong, CountMicroBatches, AllReduce, MicroMerge, Fails
  <2> QED BY <2>1, <2>2 DEF OwnInvariant
<1>11. CASE UNCHANGED vars
  BY <1>11 DEF OwnInvariant, vars, rollout, balance
<1> QED BY <1>1, <1>2, <1>3, <1>4, <1>5, <1>6, <1>7, <1>8, <1>9, <1>10, <1>11 DEF Next

\* The rows are right in every state that can be reached.
THEOREM OwnInvariantHolds == Spec => []OwnInvariant
<1>1. Init => OwnInvariant
  BY OwnInit
<1>2. OwnInvariant /\ [Next]_vars => OwnInvariant'
  BY OwnNext
<1> QED BY <1>1, <1>2, PTL DEF Spec

\* ray_trainer.py:1478-1498, agent_loop.py:1112-1117. From the end of the rollout
\* on every row has the response to its own prompt, whatever the number of
\* workers, the batch, its padding and the order in which rollouts ended.
THEOREM ResponsesOwn == Spec => []OwnResponse
<1>1. OwnInvariant => OwnResponse
  <2> SUFFICES ASSUME OwnInvariant, phase \in {"balance", "compute", "done"}
               PROVE  /\ \A p \in 1..batch.prompts :
                            Cardinality({i \in DOMAIN rows : rows[i].prompt = p}) = batch.n
                      /\ Len(rows) = batch.prompts * batch.n
                      /\ \A i \in DOMAIN rows :
                            /\ rows[i].response.prompt = rows[i].prompt
                            /\ rows[i].response.mode = Mode(batch)
                            /\ batch.kind = "remax" =>
                                  /\ rows[i].baseline.prompt = rows[i].prompt
                                  /\ rows[i].baseline.mode = "greedy"
    BY DEF OwnResponse, Mode
  <2>1. RowsRight(batch, rows)
    BY DEF OwnInvariant
  <2>2. DOMAIN rows = 1..Size(batch)
    BY <2>1 DEF RowsRight
  <2> QED BY <2>1, <2>2 DEF RowsRight, OfPrompt, Own, Size
<1> QED BY <1>1, OwnInvariantHolds, PTL

-----------------------------------------------------------------------------
(* Induction, in the form of a set without a least element.                 *)

\* A set of numbers that no number enters first is empty.
LEMMA NoLeast ==
    ASSUME NEW Bad \in SUBSET Nat, 0 \notin Bad,
           \A n \in Nat : n \notin Bad => n + 1 \notin Bad
    PROVE  Bad = {}
<1> SUFFICES ASSUME Bad # {} PROVE FALSE
  OBVIOUS
<1>1. PICK m \in Bad : \A y \in Bad : ~ (<<y, m>> \in OpToRel(<, Nat))
  BY NatLessThanWellFounded, WFMin
<1>2. m # 0 /\ m - 1 \in Nat /\ m - 1 \notin Bad
  <2>1. m # 0 /\ m - 1 \in Nat
    OBVIOUS
  <2>2. m - 1 \in Bad => <<m - 1, m>> \in OpToRel(<, Nat)
    BY <2>1 DEF OpToRel
  <2> QED BY <1>1, <2>1, <2>2
<1> QED BY <1>2

\* A finite sequence of numbers has a largest one.
LEMMA LargestOf ==
    ASSUME NEW n \in Nat \ {0}, NEW f, \A i \in 1..n : f[i] \in Int
    PROVE  \E i \in 1..n : \A j \in 1..n : f[j] <= f[i]
<1> DEFINE Has(m) == \E i \in 1..m : \A j \in 1..m : f[j] <= f[i]
           Bad == {m \in Nat : m \in 1..n /\ ~Has(m)}
<1>1. ASSUME NEW m \in Nat, m \notin Bad PROVE m + 1 \notin Bad
  <2> SUFFICES ASSUME m + 1 \in 1..n PROVE Has(m + 1)
    OBVIOUS
  <2>1. CASE m = 0
    <3>1. 1 \in 1..(m + 1) /\ \A j \in 1..(m + 1) : j = 1
      BY <2>1
    <3>2. f[1] \in Int
      OBVIOUS
    <3> QED BY <3>1, <3>2
  <2>2. CASE m # 0
    <3>1. m \in 1..n /\ Has(m)
      BY <1>1, <2>2
    <3>2. PICK i \in 1..m : \A j \in 1..m : f[j] <= f[i]
      BY <3>1
    <3>3. \A j \in 1..(m + 1) : j \in 1..m \/ j = m + 1
      OBVIOUS
    <3>4. i \in 1..n /\ i \in 1..(m + 1) /\ m + 1 \in 1..(m + 1) /\ \A j \in 1..m : j \in 1..n
      BY <3>1
    <3>5. f[i] \in Int /\ f[m + 1] \in Int /\ \A j \in 1..m : f[j] \in Int
      BY <3>4
    <3>6. CASE f[i] <= f[m + 1]
      <4>1. \A j \in 1..m : f[j] <= f[m + 1]
        BY <3>2, <3>5, <3>6
      <4>2. \A j \in 1..(m + 1) : f[j] <= f[m + 1]
        BY <3>3, <3>5, <4>1
      <4> QED BY <3>4, <4>2
    <3>7. CASE ~(f[i] <= f[m + 1])
      <4>1. f[m + 1] <= f[i]
        BY <3>5, <3>7
      <4>2. \A j \in 1..(m + 1) : f[j] <= f[i]
        BY <3>2, <3>3, <4>1
      <4> QED BY <3>4, <4>2
    <3> QED BY <3>6, <3>7
  <2> QED BY <2>1, <2>2
<1>2. Bad \in SUBSET Nat /\ 0 \notin Bad
  OBVIOUS
<1>3. Bad = {}
  <2> HIDE DEF Bad
  <2> QED BY <1>1, <1>2, NoLeast
<1>4. n \in 1..n /\ n \notin Bad
  BY <1>3
<1> QED BY <1>4

\* So that the largest of a set of numbers is one of them.
LEMMA MaxIs ==
    ASSUME NEW n \in Nat \ {0}, NEW f, \A i \in 1..n : f[i] \in Int
    PROVE  /\ \E i \in 1..n : Max({f[j] : j \in 1..n}) = f[i]
           /\ \A i \in 1..n : f[i] <= Max({f[j] : j \in 1..n})
<1>1. PICK i \in 1..n : \A j \in 1..n : f[j] <= f[i]
  BY LargestOf
<1> DEFINE S == {f[j] : j \in 1..n}
<1>2. \E x \in S : \A y \in S : x >= y
  <2>1. f[i] \in S /\ \A y \in S : f[i] >= y
    <3>1. \A j \in 1..n : f[i] >= f[j]
      BY <1>1
    <3> QED BY <3>1
  <2> QED BY <2>1
<1>3. Max(S) \in S /\ \A y \in S : Max(S) >= y
  <2> HIDE DEF S
  <2> QED BY <1>2 DEF Max
<1>4. PICK k \in 1..n : Max(S) = f[k]
  BY <1>3
<1>5. \A j \in 1..n : f[j] \in S
  OBVIOUS
<1> DEFINE x == Max(S)
<1>6. \A j \in 1..n : x >= f[j]
  <2> HIDE DEF S
  <2> QED BY <1>3, <1>5
<1>7. x = f[k] /\ f[k] \in Int
  BY <1>4
<1> HIDE DEF x, S
<1>8. \A j \in 1..n : f[j] <= x
  BY <1>6, <1>7
<1> QED BY <1>7, <1>8 DEF x, S

\* The smallest of a set of numbers is one of them.
LEMMA MinIs ==
    ASSUME NEW S \in SUBSET Nat, S # {}
    PROVE  Min(S) \in S
<1>1. PICK m \in S : \A y \in S : ~ (<<y, m>> \in OpToRel(<, Nat))
  BY NatLessThanWellFounded, WFMin
<1>2. \A y \in S : m <= y
  <2> SUFFICES ASSUME NEW y \in S, y < m PROVE FALSE
    OBVIOUS
  <2>1. y \in Nat /\ m \in Nat
    OBVIOUS
  <2>2. <<y, m>> \in OpToRel(<, Nat)
    BY <2>1 DEF OpToRel
  <2> QED BY <1>1, <2>2
<1> QED BY <1>2 DEF Min

\* Running totals exist.
Adding(c, n, g) == g = [i \in 0..n |-> IF i = 0 THEN 0 ELSE g[i - 1] + c[i]]

\* A sequence of positive numbers has running totals, which grow with it.
LEMMA RunningTotal ==
    ASSUME NEW n \in Nat, NEW c, \A i \in 1..n : c[i] \in Nat \ {0}
    PROVE  /\ \E g : Adding(c, n, g)
           /\ \A g : Adding(c, n, g) => g[n] \in Nat /\ g[n] >= n
<1> DEFINE Right(g, m) ==
              /\ g = [i \in 0..n |-> g[i]]
              /\ \A i \in 0..m : g[i] = IF i = 0 THEN 0 ELSE g[i - 1] + c[i]
           Bad == {m \in Nat : m \in 0..n /\ ~ \E g : Right(g, m)}
<1>1. 0 \notin Bad /\ Bad \in SUBSET Nat
  <2>1. Right([i \in 0..n |-> 0], 0)
    OBVIOUS
  <2> QED BY <2>1
<1>2. ASSUME NEW m \in Nat, m \notin Bad PROVE m + 1 \notin Bad
  <2> SUFFICES ASSUME m + 1 \in 0..n PROVE \E g : Right(g, m + 1)
    OBVIOUS
  <2>1. m \in 0..n
    OBVIOUS
  <2>2. PICK g : Right(g, m)
    BY <1>2, <2>1
  <2> DEFINE h == [i \in 0..n |-> IF i = m + 1 THEN g[m] + c[m + 1] ELSE g[i]]
  <2>3. \A i \in 0..n : h[i] = IF i = m + 1 THEN g[m] + c[m + 1] ELSE g[i]
    OBVIOUS
  <2>4. h = [i \in 0..n |-> h[i]]
    OBVIOUS
  <2> HIDE DEF h
  <2>5. ASSUME NEW i \in 0..(m + 1) PROVE h[i] = IF i = 0 THEN 0 ELSE h[i - 1] + c[i]
    <3>1. i \in 0..n /\ (i # 0 => i - 1 \in 0..n /\ i - 1 # m + 1)
      BY <2>1
    <3>2. CASE i = m + 1
      <4>1. i # 0 /\ i - 1 = m
        BY <3>2
      <4>2. h[i] = g[m] + c[i] /\ h[m] = g[m]
        <5>1. m # m + 1
          OBVIOUS
        <5> QED BY <2>1, <2>3, <3>1, <3>2, <5>1
      <4> QED BY <4>1, <4>2
    <3>3. CASE i # m + 1
      <4>1. i \in 0..m
        BY <3>3
      <4> QED BY <2>2, <2>3, <3>1, <3>3, <4>1
    <3> QED BY <3>2, <3>3
  <2>6. Right(h, m + 1)
    BY <2>4, <2>5
  <2> QED BY <2>6
<1>3. Bad = {}
  <2> HIDE DEF Bad
  <2> QED BY <1>1, <1>2, NoLeast
<1>4. PICK g : Right(g, n)
  BY <1>3
<1>5. Adding(c, n, g)
  BY <1>4 DEF Adding
<1>6. ASSUME NEW t, Adding(c, n, t) PROVE t[n] \in Nat /\ t[n] >= n
  <2> DEFINE Wrong == {m \in Nat : m \in 0..n /\ ~(t[m] \in Nat /\ t[m] >= m)}
  <2>1. \A i \in 0..n : t[i] = IF i = 0 THEN 0 ELSE t[i - 1] + c[i]
    BY <1>6 DEF Adding
  <2>2. Wrong \in SUBSET Nat /\ 0 \notin Wrong
    BY <2>1
  <2>3. ASSUME NEW m \in Nat, m \notin Wrong PROVE m + 1 \notin Wrong
    <3> SUFFICES ASSUME m + 1 \in 0..n PROVE t[m + 1] \in Nat /\ t[m + 1] >= m + 1
      OBVIOUS
    <3>1. t[m] \in Nat /\ t[m] >= m
      BY <2>3
    <3>2. m + 1 \in 1..n /\ (m + 1) - 1 = m /\ m + 1 # 0
      OBVIOUS
    <3>3. t[m + 1] = t[m] + c[m + 1]
      BY <2>1, <3>2
    <3>4. c[m + 1] \in Nat \ {0}
      BY <3>2
    <3> QED BY <3>1, <3>3, <3>4
  <2>4. Wrong = {}
    <3> HIDE DEF Wrong
    <3> QED BY <2>2, <2>3, NoLeast
  <2> QED BY <2>4
<1> QED BY <1>5, <1>6

-----------------------------------------------------------------------------
(* Sums over finite sets, in whatever order they are taken.                 *)

Taken(T) == CHOOSE x \in T : TRUE

Total(w, S) == SumFunctionOnSet(w, S)

\* g gives the sum of every subset of S.
Sums(w, S, g) ==
    g = [T \in SUBSET S |-> IF T = {} THEN 0 ELSE w[Taken(T)] + g[T \ {Taken(T)}]]

\* The sum of the library is the one that counts down an element at a time.
LEMMA TotalIs ==
    ASSUME NEW w, NEW S
    PROVE  Total(w, S) = (CHOOSE g : Sums(w, S, g))[S]
BY DEF Total, Sums, Taken, SumFunctionOnSet, FoldFunctionOnSet, MapThenFoldSet

\* A set that is not empty has the element the sum takes out.
LEMMA TakenIs ==
    ASSUME NEW T, T # {}
    PROVE  Taken(T) \in T
BY DEF Taken

\* One element less.
LEMMA OneLess ==
    ASSUME NEW T, IsFiniteSet(T), NEW x \in T
    PROVE  /\ IsFiniteSet(T \ {x}) /\ Cardinality(T) \in Nat \ {0}
           /\ Cardinality(T \ {x}) = Cardinality(T) - 1
<1>1. Cardinality(T) \in Nat /\ Cardinality(T) # 0
  BY FS_CardinalityType, FS_EmptySet
<1>2. IsFiniteSet(T \ {x}) /\ Cardinality(T \ {x}) = Cardinality(T) - 1
  BY FS_RemoveElement
<1> QED BY <1>1, <1>2

\* Over a finite set such a sum exists.
LEMMA SumsExist ==
    ASSUME NEW w, NEW S, IsFiniteSet(S), \A x \in S : w[x] \in Int
    PROVE  \E g : Sums(w, S, g) /\ g \in [SUBSET S -> Int]
<1> DEFINE n == Cardinality(S)
           Step(g, T) == IF T = {} THEN 0 ELSE w[Taken(T)] + g[T \ {Taken(T)}]
           Right(g, m) == /\ g \in [SUBSET S -> Int]
                          /\ \A T \in SUBSET S : Cardinality(T) <= m => g[T] = Step(g, T)
           Bad == {m \in Nat : ~ \E g : Right(g, m)}
<1>1. \A T \in SUBSET S : /\ IsFiniteSet(T) /\ Cardinality(T) \in Nat /\ Cardinality(T) <= n
                          /\ Cardinality(T) = 0 => T = {}
  <2> SUFFICES ASSUME NEW T \in SUBSET S
               PROVE  /\ IsFiniteSet(T) /\ Cardinality(T) \in Nat /\ Cardinality(T) <= n
                      /\ Cardinality(T) = 0 => T = {}
    OBVIOUS
  <2>1. IsFiniteSet(T) /\ Cardinality(T) <= n
    BY FS_Subset
  <2> QED BY <2>1, FS_CardinalityType, FS_EmptySet
<1>2. ASSUME NEW T \in SUBSET S, T # {}
      PROVE  /\ Taken(T) \in S /\ T \ {Taken(T)} \in SUBSET S
             /\ Cardinality(T \ {Taken(T)}) = Cardinality(T) - 1
  <2>1. Taken(T) \in T
    BY <1>2, TakenIs
  <2>2. Cardinality(T \ {Taken(T)}) = Cardinality(T) - 1
    BY <1>1, <2>1, OneLess
  <2> QED BY <2>1, <2>2
<1>3. 0 \notin Bad /\ Bad \in SUBSET Nat
  <2>1. Right([T \in SUBSET S |-> 0], 0)
    <3> DEFINE g == [T \in SUBSET S |-> 0]
    <3>1. g \in [SUBSET S -> Int] /\ \A T \in SUBSET S : g[T] = 0
      OBVIOUS
    <3> HIDE DEF g
    <3>2. \A T \in SUBSET S : Cardinality(T) <= 0 => T = {}
      BY <1>1
    <3>3. \A T \in SUBSET S : Cardinality(T) <= 0 => g[T] = Step(g, T)
      BY <3>1, <3>2
    <3>4. Right(g, 0)
      BY <3>1, <3>3
    <3> QED BY <3>4 DEF g
  <2> HIDE DEF Right
  <2> QED BY <2>1
<1>4. ASSUME NEW m \in Nat, m \notin Bad PROVE m + 1 \notin Bad
  <2>1. PICK g : Right(g, m)
    <3> HIDE DEF Right
    <3> QED BY <1>4
  <2> DEFINE h == [T \in SUBSET S |-> IF Cardinality(T) = m + 1 THEN Step(g, T) ELSE g[T]]
  <2>2. \A T \in SUBSET S : Step(g, T) \in Int
    <3> SUFFICES ASSUME NEW T \in SUBSET S, T # {} PROVE w[Taken(T)] + g[T \ {Taken(T)}] \in Int
      OBVIOUS
    <3>1. w[Taken(T)] \in Int /\ g[T \ {Taken(T)}] \in Int
      BY <1>2, <2>1
    <3> QED BY <3>1
  <2>3. h \in [SUBSET S -> Int]
    <3> HIDE DEF Step
    <3> QED BY <2>1, <2>2
  <2>4. \A T \in SUBSET S : h[T] = IF Cardinality(T) = m + 1 THEN Step(g, T) ELSE g[T]
    <3> HIDE DEF Step
    <3> QED OBVIOUS
  <2> HIDE DEF h
  <2>5. ASSUME NEW T \in SUBSET S, Cardinality(T) <= m + 1 PROVE h[T] = Step(h, T)
    <3>1. Step(g, T) = Step(h, T)
      <4>1. CASE T = {}
        BY <4>1
      <4>2. CASE T # {}
        <5>1. /\ T \ {Taken(T)} \in SUBSET S
              /\ Cardinality(T \ {Taken(T)}) = Cardinality(T) - 1 /\ Cardinality(T) \in Nat
          BY <1>1, <1>2, <4>2
        <5>2. Cardinality(T \ {Taken(T)}) # m + 1
          BY <2>5, <5>1
        <5>3. h[T \ {Taken(T)}] = g[T \ {Taken(T)}]
          BY <2>4, <5>1, <5>2
        <5> QED BY <4>2, <5>3
      <4> QED BY <4>1, <4>2
    <3>2. h[T] = Step(g, T)
      <4>1. CASE Cardinality(T) = m + 1
        BY <2>4, <4>1
      <4>2. CASE Cardinality(T) # m + 1
        <5>1. Cardinality(T) <= m
          BY <1>1, <2>5, <4>2
        <5>2. g[T] = Step(g, T)
          BY <2>1, <5>1
        <5> HIDE DEF Step
        <5> QED BY <2>4, <4>2, <5>2
      <4> QED BY <4>1, <4>2
    <3> QED BY <3>1, <3>2
  <2>6. Right(h, m + 1)
    BY <2>3, <2>5
  <2> HIDE DEF Right
  <2> QED BY <2>6
<1>5. Bad = {}
  <2> HIDE DEF Bad
  <2> QED BY <1>3, <1>4, NoLeast
<1>6. n \in Nat
  BY FS_CardinalityType
<1>7. PICK g : Right(g, n)
  <2> HIDE DEF Right, n
  <2> QED BY <1>5, <1>6
<1>8. \A T \in SUBSET S : g[T] = Step(g, T)
  BY <1>1, <1>7
<1>9. g = [T \in SUBSET S |-> Step(g, T)]
  <2> HIDE DEF Step
  <2> QED BY <1>7, <1>8
<1> QED BY <1>7, <1>9 DEF Sums

\* There is only one such sum.
LEMMA SumsAgree ==
    ASSUME NEW w, NEW S, IsFiniteSet(S), NEW g, Sums(w, S, g),
           NEW T \in SUBSET S, NEW h, Sums(w, T, h)
    PROVE  g[T] = h[T]
<1> DEFINE Bad == {m \in Nat : \E U \in SUBSET T : Cardinality(U) = m /\ g[U] # h[U]}
<1>1. \A U \in SUBSET T :
         /\ g[U] = IF U = {} THEN 0 ELSE w[Taken(U)] + g[U \ {Taken(U)}]
         /\ h[U] = IF U = {} THEN 0 ELSE w[Taken(U)] + h[U \ {Taken(U)}]
  BY DEF Sums
<1>2. \A U \in SUBSET T : IsFiniteSet(U) /\ Cardinality(U) \in Nat
  BY FS_Subset, FS_CardinalityType
<1>3. 0 \notin Bad /\ Bad \in SUBSET Nat
  <2>1. \A U \in SUBSET T : Cardinality(U) = 0 => U = {}
    BY <1>2, FS_EmptySet
  <2> QED BY <1>1, <2>1
<1>4. ASSUME NEW m \in Nat, m \notin Bad PROVE m + 1 \notin Bad
  <2> SUFFICES ASSUME NEW U \in SUBSET T, Cardinality(U) = m + 1 PROVE g[U] = h[U]
    OBVIOUS
  <2>1. CASE U = {}
    BY <1>1, <2>1
  <2>2. CASE U # {}
    <3>1. Taken(U) \in U
      BY <2>2, TakenIs
    <3>2. Cardinality(U \ {Taken(U)}) = Cardinality(U) - 1
      BY <1>2, <3>1, OneLess
    <3>3. U \ {Taken(U)} \in SUBSET T /\ Cardinality(U \ {Taken(U)}) = m
      BY <3>2
    <3>4. g[U \ {Taken(U)}] = h[U \ {Taken(U)}]
      BY <1>4, <3>3
    <3> QED BY <1>1, <2>2, <3>4
  <2> QED BY <2>1, <2>2
<1>5. Bad = {}
  <2> HIDE DEF Bad
  <2> QED BY <1>3, <1>4, NoLeast
<1>6. Cardinality(T) \in Nat /\ T \in SUBSET T
  BY <1>2
<1> QED BY <1>5, <1>6

\* The sum of a set, by the element it is begun with.
LEMMA TotalStep ==
    ASSUME NEW w, NEW S, IsFiniteSet(S), \A x \in S : w[x] \in Int
    PROVE  /\ Total(w, S) \in Int
           /\ S = {} => Total(w, S) = 0
           /\ S # {} => Total(w, S) = w[Taken(S)] + Total(w, S \ {Taken(S)})
<1> DEFINE g == CHOOSE f : Sums(w, S, f)
           R == S \ {Taken(S)}
           h == CHOOSE f : Sums(w, R, f)
<1>1. PICK f : Sums(w, S, f) /\ f \in [SUBSET S -> Int]
  BY SumsExist
<1>2. Sums(w, S, g)
  BY <1>1
<1>3. IsFiniteSet(R) /\ \A x \in R : w[x] \in Int
  BY FS_Subset
<1>4. Sums(w, R, h)
  <2>1. \E u : Sums(w, R, u)
    <3> HIDE DEF R, h
    <3>1. \E u : Sums(w, R, u) /\ u \in [SUBSET R -> Int]
      BY <1>3, SumsExist
    <3> QED BY <3>1
  <2> HIDE DEF R
  <2> QED BY <2>1
<1> HIDE DEF g, h
<1>5. Total(w, S) = g[S] /\ Total(w, R) = h[R]
  BY TotalIs DEF g, h
<1>6. g[S] = f[S] /\ f[S] \in Int
  <2>1. S \in SUBSET S
    OBVIOUS
  <2>2. g[S] = f[S]
    BY <1>1, <1>2, <2>1, SumsAgree
  <2> QED BY <1>1, <2>1, <2>2
<1>7. g[R] = h[R]
  <2>1. R \in SUBSET S
    OBVIOUS
  <2> HIDE DEF R
  <2> QED BY <1>2, <1>4, <2>1, SumsAgree
<1>8. g[S] = IF S = {} THEN 0 ELSE w[Taken(S)] + g[R]
  BY <1>2 DEF Sums
<1> QED BY <1>5, <1>6, <1>7, <1>8

\* And by any other.
LEMMA TotalWithout ==
    ASSUME NEW w, NEW S, IsFiniteSet(S), \A x \in S : w[x] \in Int, NEW x \in S
    PROVE  Total(w, S) = w[x] + Total(w, S \ {x})
<1> DEFINE Bad == {m \in Nat : \E T \in SUBSET S : \E y \in T :
                      Cardinality(T) = m /\ Total(w, T) # w[y] + Total(w, T \ {y})}
<1>1. \A T \in SUBSET S : IsFiniteSet(T) /\ Cardinality(T) \in Nat
  BY FS_Subset, FS_CardinalityType
<1>2. ASSUME NEW T \in SUBSET S
      PROVE  /\ Total(w, T) \in Int
             /\ T # {} => Total(w, T) = w[Taken(T)] + Total(w, T \ {Taken(T)})
  <2>1. IsFiniteSet(T) /\ \A y \in T : w[y] \in Int
    BY <1>1
  <2> QED BY <2>1, TotalStep
<1>3. 0 \notin Bad /\ Bad \in SUBSET Nat
  <2>1. \A T \in SUBSET S : Cardinality(T) = 0 => T = {}
    BY <1>1, FS_EmptySet
  <2> QED BY <2>1
<1>4. ASSUME NEW m \in Nat, m \notin Bad PROVE m + 1 \notin Bad
  <2> SUFFICES ASSUME NEW T \in SUBSET S, NEW y \in T, Cardinality(T) = m + 1
               PROVE  Total(w, T) = w[y] + Total(w, T \ {y})
    OBVIOUS
  <2> DEFINE a == Taken(T)
  <2>1. a \in T
    BY TakenIs
  <2>2. Total(w, T) = w[a] + Total(w, T \ {a})
    BY <1>2
  <2> HIDE DEF a
  <2>3. CASE a = y
    BY <2>2, <2>3
  <2>4. CASE a # y
    <3> DEFINE A == T \ {a}
               Y == T \ {y}
    <3>1. /\ A \in SUBSET S /\ Y \in SUBSET S /\ y \in A /\ a \in Y
          /\ A \ {y} = Y \ {a} /\ A \ {y} \in SUBSET S
      BY <2>1, <2>4
    <3>2. Cardinality(A) = m /\ Cardinality(Y) = m
      <4>1. IsFiniteSet(T)
        BY <1>1
      <4>2. Cardinality(A) = Cardinality(T) - 1 /\ Cardinality(Y) = Cardinality(T) - 1
        BY <2>1, <4>1, OneLess
      <4> QED BY <4>2
    <3>3. Total(w, T) = w[a] + Total(w, A)
      BY <2>2
    <3> HIDE DEF A, Y
    <3>4. Total(w, A) = w[y] + Total(w, A \ {y}) /\ Total(w, Y) = w[a] + Total(w, Y \ {a})
      BY <1>4, <3>1, <3>2
    <3>5. /\ w[a] \in Int /\ w[y] \in Int /\ Total(w, A \ {y}) \in Int
      BY <1>2, <2>1, <3>1
    <3>6. Total(w, T) = w[y] + Total(w, Y)
      <4> DEFINE p == Total(w, T)
                 q == Total(w, A)
                 r == Total(w, Y)
                 s == Total(w, A \ {y})
                 u == w[a]
                 v == w[y]
      <4>1. p = u + q /\ q = v + s /\ r = u + s /\ u \in Int /\ v \in Int /\ s \in Int
        BY <3>1, <3>3, <3>4, <3>5
      <4> HIDE DEF p, q, r, s, u, v
      <4>2. p = v + r
        BY <4>1
      <4> QED BY <4>2 DEF p, r, v
    <3> QED BY <3>6 DEF Y
  <2> QED BY <2>3, <2>4
<1>5. Bad = {}
  <2> HIDE DEF Bad
  <2> QED BY <1>3, <1>4, NoLeast
<1>6. Cardinality(S) \in Nat /\ S \in SUBSET S
  BY <1>1
<1> QED BY <1>5, <1>6

\* Sets that are apart add up.
LEMMA TotalUnion ==
    ASSUME NEW w, NEW A, NEW B, IsFiniteSet(A), IsFiniteSet(B), A \cap B = {},
           \A x \in A \cup B : w[x] \in Int
    PROVE  Total(w, A \cup B) = Total(w, A) + Total(w, B)
<1> DEFINE Bad == {m \in Nat : \E T \in SUBSET B :
                      Cardinality(T) = m /\ Total(w, A \cup T) # Total(w, A) + Total(w, T)}
<1>1. \A T \in SUBSET B : IsFiniteSet(T) /\ Cardinality(T) \in Nat
  BY FS_Subset, FS_CardinalityType
<1>2. Total(w, A) \in Int
  BY TotalStep
<1>3. 0 \notin Bad /\ Bad \in SUBSET Nat
  <2>1. \A T \in SUBSET B : Cardinality(T) = 0 => T = {}
    BY <1>1, FS_EmptySet
  <2>2. Total(w, {}) = 0
    BY FS_EmptySet, TotalStep
  <2>3. A \cup {} = A
    OBVIOUS
  <2>4. Total(w, A \cup {}) = Total(w, A) + Total(w, {})
    BY <1>2, <2>2, <2>3
  <2> QED BY <2>1, <2>4
<1>4. ASSUME NEW m \in Nat, m \notin Bad PROVE m + 1 \notin Bad
  <2> SUFFICES ASSUME NEW T \in SUBSET B, Cardinality(T) = m + 1
               PROVE  Total(w, A \cup T) = Total(w, A) + Total(w, T)
    OBVIOUS
  <2>0. T # {}
    <3>1. Cardinality(T) # 0
      OBVIOUS
    <3> QED BY <3>1, FS_EmptySet
  <2>1. PICK y \in T : TRUE
    BY <2>0
  <2> DEFINE U == A \cup T
             V == T \ {y}
  <2>2. IsFiniteSet(U) /\ (\A x \in U : w[x] \in Int) /\ y \in U
    BY <1>1, FS_Union
  <2>3. IsFiniteSet(T) /\ (\A x \in T : w[x] \in Int)
    BY <1>1
  <2>4. Total(w, T) = w[y] + Total(w, V)
    BY <2>3, TotalWithout
  <2>5. U \ {y} = A \cup V /\ V \in SUBSET B
    OBVIOUS
  <2>6. Cardinality(V) = m
    <3>1. Cardinality(V) = Cardinality(T) - 1
      BY <2>3, OneLess
    <3> QED BY <3>1
  <2>7. IsFiniteSet(V) /\ \A x \in V : w[x] \in Int
    BY <1>1, <2>5
  <2> HIDE DEF U, V
  <2>8. Total(w, U) = w[y] + Total(w, U \ {y})
    BY <2>2, TotalWithout
  <2>9. Total(w, A \cup V) = Total(w, A) + Total(w, V)
    BY <1>4, <2>5, <2>6
  <2>10. Total(w, V) \in Int /\ w[y] \in Int
    BY <2>3, <2>7, TotalStep
  <2>11. Total(w, U) = Total(w, A) + Total(w, T)
    <3> DEFINE p == Total(w, U)
               q == Total(w, A)
               r == Total(w, T)
               s == Total(w, V)
               u == Total(w, A \cup V)
               v == w[y]
    <3>1. p = v + u /\ u = q + s /\ r = v + s /\ q \in Int /\ v \in Int /\ s \in Int
      BY <1>2, <2>4, <2>5, <2>8, <2>9, <2>10
    <3> HIDE DEF p, q, r, s, u, v
    <3>2. p = q + r
      BY <3>1
    <3> QED BY <3>2 DEF p, q, r
  <2> QED BY <2>11 DEF U
<1>5. Bad = {}
  <2> HIDE DEF Bad
  <2> QED BY <1>3, <1>4, NoLeast
<1>6. Cardinality(B) \in Nat /\ B \in SUBSET B
  BY <1>1
<1> QED BY <1>5, <1>6

\* A sequence that goes through a set adds up to the sum of the set.
LEMMA TotalAlong ==
    ASSUME NEW n \in Nat, NEW e, NEW S, Counts(e, n, S), NEW w, \A x \in S : w[x] \in Int
    PROVE  SumFunction([i \in 1..n |-> w[e[i]]]) = Total(w, S)
<1> DEFINE f == [i \in 1..n |-> w[e[i]]]
           E(p) == {e[i] : i \in 1..p}
           Bad == {m \in Nat : m \in 0..n /\ Total(f, 1..m) # Total(w, E(m))}
<1>1. /\ \A i \in 1..n : e[i] \in S
      /\ \A i, j \in 1..n : e[i] = e[j] => i = j
      /\ \A x \in S : \E i \in 1..n : e[i] = x
  BY DEF Counts
<1>2. IsFiniteSet(S)
  BY CountedBy
<1>3. /\ DOMAIN f = 1..n /\ \A i \in 1..n : f[i] = w[e[i]] /\ f[i] \in Int
  BY <1>1
<1> HIDE DEF f
<1>4. ASSUME NEW m \in 0..n
      PROVE  /\ IsFiniteSet(1..m) /\ (\A i \in 1..m : f[i] \in Int)
             /\ IsFiniteSet(E(m)) /\ (\A x \in E(m) : w[x] \in Int)
  <2>1. \A i \in 1..m : i \in 1..n
    OBVIOUS
  <2>2. E(m) \in SUBSET S
    BY <1>1, <2>1
  <2>3. IsFiniteSet(E(m)) /\ (\A x \in E(m) : w[x] \in Int)
    <3> HIDE DEF E
    <3> QED BY <1>2, <2>2, FS_Subset
  <2> QED BY <1>3, <2>1, <2>3, CountUpTo
<1>5. 0 \notin Bad /\ Bad \in SUBSET Nat
  <2>1. 1..0 = {} /\ E(0) = {}
    OBVIOUS
  <2>2. Total(f, {}) = 0 /\ Total(w, {}) = 0
    BY FS_EmptySet, TotalStep
  <2> HIDE DEF E
  <2> QED BY <2>1, <2>2
<1>6. ASSUME NEW m \in Nat, m \notin Bad PROVE m + 1 \notin Bad
  <2> SUFFICES ASSUME m + 1 \in 0..n PROVE Total(f, 1..(m + 1)) = Total(w, E(m + 1))
    OBVIOUS
  <2>1. m \in 0..n /\ m + 1 \in 1..n /\ m + 1 \in 1..(m + 1)
    OBVIOUS
  <2>2. Total(f, 1..m) = Total(w, E(m))
    BY <1>6, <2>1
  <2>3. (1..(m + 1)) \ {m + 1} = 1..m
    OBVIOUS
  <2>4. Total(f, 1..(m + 1)) = f[m + 1] + Total(f, 1..m)
    <3> DEFINE U == 1..(m + 1)
    <3>1. IsFiniteSet(U) /\ (\A i \in U : f[i] \in Int) /\ m + 1 \in U
      BY <1>4, <2>1
    <3>2. Total(f, U) = f[m + 1] + Total(f, U \ {m + 1})
      <4> HIDE DEF U
      <4> QED BY <3>1, TotalWithout
    <3> QED BY <2>3, <3>2
  <2>5. Total(w, E(m + 1)) = w[e[m + 1]] + Total(w, E(m))
    <3> DEFINE U == E(m + 1)
               x == e[m + 1]
    <3>1. IsFiniteSet(U) /\ (\A y \in U : w[y] \in Int)
      <4> HIDE DEF E
      <4> QED BY <1>4
    <3>2. x \in U
      BY <2>1
    <3>3. U \ {x} = E(m)
      <4>1. \A i \in 1..(m + 1) : i \in 1..m \/ i = m + 1
        OBVIOUS
      <4>2. \A i \in 1..m : i \in 1..n /\ i # m + 1 /\ i \in 1..(m + 1)
        OBVIOUS
      <4>3. \A i \in 1..m : e[i] # e[m + 1]
        BY <1>1, <2>1, <4>2
      <4> QED BY <4>1, <4>2, <4>3
    <3> HIDE DEF U, x, E
    <3>4. Total(w, U) = w[x] + Total(w, U \ {x})
      BY <3>1, <3>2, TotalWithout
    <3> QED BY <3>3, <3>4 DEF U, x
  <2>6. f[m + 1] = w[e[m + 1]]
    BY <1>3, <2>1
  <2> HIDE DEF E
  <2> QED BY <2>2, <2>4, <2>5, <2>6
<1>7. Bad = {}
  <2> HIDE DEF Bad
  <2> QED BY <1>5, <1>6, NoLeast
<1>8. E(n) = S
  BY <1>1
<1>9. n \in 0..n
  OBVIOUS
<1>10. Total(f, 1..n) = Total(w, S)
  <2> HIDE DEF E
  <2> QED BY <1>7, <1>8, <1>9
<1>11. SumFunction(f) = Total(f, 1..n)
  BY <1>3 DEF SumFunction, Total
<1> QED BY <1>10, <1>11 DEF f

-----------------------------------------------------------------------------
(* Sequences one after the other.                                           *)

Flat(s, f) ==
    f = [i \in 1..Len(s) |-> IF i = 1 THEN s[i] ELSE f[i - 1] \o s[i]]

\* FlattenSeq joins its parts one after the other.
LEMMA FlattenIs ==
    ASSUME NEW s, Len(s) \in Nat \ {0}
    PROVE  \E f : /\ FlattenSeq(s) = f[Len(s)] /\ f[1] = s[1]
                  /\ \A i \in 1..Len(s) : i # 1 => f[i] = f[i - 1] \o s[i]
<1> DEFINE k == Len(s)
<1>0. k \in Nat \ {0} /\ Len(s) = k
  OBVIOUS
<1> HIDE DEF k
<1> DEFINE Step(g, i) == IF i = 1 THEN s[i] ELSE g[i - 1] \o s[i]
           Right(g, m) == /\ g = [i \in 1..k |-> g[i]]
                          /\ \A i \in 1..m : g[i] = Step(g, i)
           Bad == {m \in Nat : m \in 0..k /\ ~ \E g : Right(g, m)}
<1>1. 0 \notin Bad /\ Bad \in SUBSET Nat
  <2>1. Right([i \in 1..k |-> 0], 0)
    OBVIOUS
  <2> QED BY <2>1
<1>2. ASSUME NEW m \in Nat, m \notin Bad PROVE m + 1 \notin Bad
  <2> SUFFICES ASSUME m + 1 \in 0..k PROVE \E g : Right(g, m + 1)
    OBVIOUS
  <2>1. m \in 0..k /\ m + 1 \in 1..k
    BY <1>0
  <2>2. PICK g : Right(g, m)
    BY <1>2, <2>1
  <2> DEFINE new == Step(g, m + 1)
             h == [i \in 1..k |-> IF i = m + 1 THEN new ELSE g[i]]
  <2>3. h = [i \in 1..k |-> h[i]] /\ \A i \in 1..k : h[i] = IF i = m + 1 THEN new ELSE g[i]
    OBVIOUS
  <2> HIDE DEF h
  <2>4. ASSUME NEW i \in 1..(m + 1) PROVE h[i] = Step(h, i)
    <3>1. i \in 1..k /\ (i # 1 => i - 1 \in 1..k /\ i - 1 # m + 1)
      BY <1>0, <2>1
    <3>2. Step(h, i) = Step(g, i)
      BY <2>3, <3>1
    <3>3. CASE i = m + 1
      BY <2>3, <3>1, <3>2, <3>3
    <3>4. CASE i # m + 1
      <4>1. i \in 1..m
        BY <3>4
      <4>2. g[i] = Step(g, i)
        BY <2>2, <4>1
      <4> HIDE DEF Step
      <4> QED BY <2>3, <3>1, <3>2, <3>4, <4>2
    <3> QED BY <3>3, <3>4
  <2>5. Right(h, m + 1)
    BY <2>3, <2>4
  <2> HIDE DEF Right
  <2> QED BY <2>5
<1>3. Bad = {}
  <2> HIDE DEF Bad
  <2> QED BY <1>1, <1>2, NoLeast
<1>4. PICK g : Right(g, k)
  BY <1>0, <1>3
<1>5. Flat(s, g)
  BY <1>0, <1>4 DEF Flat
<1> DEFINE f == CHOOSE u : Flat(s, u)
<1>6. Flat(s, f)
  BY <1>5
<1>7. FlattenSeq(s) = f[k]
  BY <1>0 DEF FlattenSeq, Flat
<1> HIDE DEF f
<1>8. \A i \in 1..k : f[i] = IF i = 1 THEN s[i] ELSE f[i - 1] \o s[i]
  BY <1>0, <1>6 DEF Flat
<1>9. 1 \in 1..k
  BY <1>0
<1> QED BY <1>7, <1>8, <1>9 DEF k

\* Two sequences that go through two sets that are apart.
LEMMA JoinedEnumerates ==
    ASSUME NEW u, NEW v, NEW A, NEW B, Enumerates(u, A), Enumerates(v, B), A \cap B = {}
    PROVE  Enumerates(u \o v, A \cup B)
<1> DEFINE a == Cardinality(A)
           b == Cardinality(B)
           T == A \cup B
           s == u \o v
<1>1. /\ a \in Nat /\ u \in [1..a -> A] /\ (\A p, q \in 1..a : u[p] = u[q] => p = q)
      /\ \A x \in A : \E p \in 1..a : u[p] = x
  BY DEF Enumerates
<1>2. /\ b \in Nat /\ v \in [1..b -> B] /\ (\A p, q \in 1..b : v[p] = v[q] => p = q)
      /\ \A x \in B : \E p \in 1..b : v[p] = x
  BY DEF Enumerates
<1> HIDE DEF a, b
<1>3. u \in [1..a -> T] /\ v \in [1..b -> T]
  BY <1>1, <1>2
<1>4. \A x : x \in T <=> x \in A \/ x \in B
  OBVIOUS
<1> HIDE DEF T
<1>5. /\ u \in Seq(T) /\ v \in Seq(T) /\ Len(u) = a /\ Len(v) = b
  BY <1>1, <1>2, <1>3
<1>6. /\ s \in Seq(T) /\ Len(s) = a + b
      /\ \A i \in 1..(a + b) : s[i] = IF i <= a THEN u[i] ELSE v[i - a]
  BY <1>1, <1>2, <1>5
<1> HIDE DEF s
<1>7. s \in [1..(a + b) -> T]
  BY <1>6
<1>8. \A i \in 1..(a + b) : i <= a => i \in 1..a /\ s[i] = u[i] /\ s[i] \in A
  BY <1>1, <1>2, <1>6
<1>9. \A i \in 1..(a + b) : ~(i <= a) => i - a \in 1..b /\ s[i] = v[i - a] /\ s[i] \in B
  <2> SUFFICES ASSUME NEW i \in 1..(a + b), ~(i <= a)
               PROVE  i - a \in 1..b /\ s[i] = v[i - a] /\ s[i] \in B
    OBVIOUS
  <2>1. i - a \in 1..b
    BY <1>1, <1>2
  <2> QED BY <1>2, <1>6, <2>1
<1>10. ASSUME NEW i \in 1..(a + b), NEW j \in 1..(a + b), s[i] = s[j] PROVE i = j
  <2>1. CASE i <= a /\ j <= a
    BY <1>1, <1>8, <1>10, <2>1
  <2>2. CASE ~(i <= a) /\ ~(j <= a)
    <3>1. i - a = j - a
      BY <1>2, <1>9, <1>10, <2>2
    <3> QED BY <1>1, <1>2, <3>1
  <2>3. CASE i <= a /\ ~(j <= a)
    BY <1>8, <1>9, <1>10, <2>3
  <2>4. CASE ~(i <= a) /\ j <= a
    BY <1>8, <1>9, <1>10, <2>4
  <2> QED BY <2>1, <2>2, <2>3, <2>4
<1>11. ASSUME NEW x \in T PROVE \E i \in 1..(a + b) : s[i] = x
  <2>1. CASE x \in A
    <3>1. PICK p \in 1..a : u[p] = x
      BY <1>1, <2>1
    <3>2. p \in 1..(a + b) /\ p <= a
      BY <1>1, <1>2
    <3> QED BY <1>8, <3>1, <3>2
  <2>2. CASE x \in B
    <3>1. PICK p \in 1..b : v[p] = x
      BY <1>2, <2>2
    <3>2. p + a \in 1..(a + b) /\ ~(p + a <= a) /\ (p + a) - a = p
      BY <1>1, <1>2
    <3> QED BY <1>9, <3>1, <3>2
  <2> QED BY <1>4, <2>1, <2>2
<1>12. Counts(s, a + b, T)
  BY <1>7, <1>10, <1>11 DEF Counts
<1>13. a + b \in Nat
  BY <1>1, <1>2
<1>14. Enumerates(s, T)
  BY <1>12, <1>13, CountedBy
<1> QED BY <1>14 DEF s, T

\* Any number of them.
LEMMA FlattenEnumerates ==
    ASSUME NEW k \in Nat \ {0}, NEW s, Len(s) = k, NEW S,
           \A j \in 1..k : Enumerates(s[j], S[j]),
           \A i, j \in 1..k : i # j => S[i] \cap S[j] = {}
    PROVE  Enumerates(FlattenSeq(s), UNION {S[j] : j \in 1..k})
<1>1. PICK f : /\ FlattenSeq(s) = f[k] /\ f[1] = s[1]
               /\ \A i \in 1..k : i # 1 => f[i] = f[i - 1] \o s[i]
  <2>1. Len(s) \in Nat \ {0}
    OBVIOUS
  <2> QED BY <2>1, FlattenIs
<1> DEFINE U(m) == UNION {S[j] : j \in 1..m}
           Bad == {m \in Nat : m \in 1..k /\ ~Enumerates(f[m], U(m))}
<1>2. 0 \notin Bad /\ Bad \in SUBSET Nat
  OBVIOUS
<1>3. ASSUME NEW m \in Nat, m \notin Bad PROVE m + 1 \notin Bad
  <2> SUFFICES ASSUME m + 1 \in 1..k PROVE Enumerates(f[m + 1], U(m + 1))
    OBVIOUS
  <2>1. CASE m = 0
    <3>1. U(1) = S[1]
      <4>1. 1..1 = {1}
        OBVIOUS
      <4> QED BY <4>1
    <3>2. Enumerates(s[1], S[1])
      OBVIOUS
    <3> HIDE DEF U
    <3> QED BY <1>1, <2>1, <3>1, <3>2
  <2>2. CASE m # 0
    <3>1. m \in 1..k /\ (m + 1) - 1 = m /\ m + 1 # 1
      BY <2>2
    <3>2. Enumerates(f[m], U(m))
      BY <1>3, <3>1
    <3>3. f[m + 1] = f[m] \o s[m + 1]
      BY <1>1, <3>1
    <3>4. U(m + 1) = U(m) \cup S[m + 1]
      <4>1. \A j : j \in 1..(m + 1) <=> j \in 1..m \/ j = m + 1
        OBVIOUS
      <4> QED BY <4>1
    <3>5. U(m) \cap S[m + 1] = {}
      <4>1. \A j \in 1..m : j \in 1..k /\ j # m + 1
        OBVIOUS
      <4> QED BY <4>1
    <3>6. Enumerates(s[m + 1], S[m + 1])
      OBVIOUS
    <3> HIDE DEF U
    <3>7. Enumerates(f[m] \o s[m + 1], U(m) \cup S[m + 1])
      BY <3>2, <3>5, <3>6, JoinedEnumerates
    <3> QED BY <3>3, <3>4, <3>7
  <2> QED BY <2>1, <2>2
<1>4. Bad = {}
  <2> HIDE DEF Bad
  <2> QED BY <1>2, <1>3, NoLeast
<1>5. k \in 1..k
  OBVIOUS
<1>6. Enumerates(f[k], U(k))
  <2> HIDE DEF U
  <2> QED BY <1>4, <1>5
<1> QED BY <1>1, <1>6

\* The first a positions, and the n after them.
LEMMA PositionsJoined ==
    ASSUME NEW a \in Nat, NEW n \in Nat
    PROVE  [i \in 1..a |-> i] \o [i \in 1..n |-> a + i] = [i \in 1..(a + n) |-> i]
<1> DEFINE u == [i \in 1..a |-> i]
           v == [i \in 1..n |-> a + i]
           T == Nat
<1>1. u \in Seq(T) /\ v \in Seq(T) /\ Len(u) = a /\ Len(v) = n
  OBVIOUS
<1>2. (\A i \in 1..a : u[i] = i) /\ \A i \in 1..n : v[i] = a + i
  OBVIOUS
<1> HIDE DEF u, v, T
<1> DEFINE t == u \o v
<1>3. /\ t \in Seq(T) /\ Len(t) = a + n
      /\ \A i \in 1..(a + n) : t[i] = IF i <= a THEN u[i] ELSE v[i - a]
  BY <1>1
<1>4. ASSUME NEW i \in 1..(a + n) PROVE t[i] = i
  <2>1. CASE i <= a
    BY <1>2, <1>3, <2>1
  <2>2. CASE ~(i <= a)
    <3>1. i - a \in 1..n /\ a + (i - a) = i
      BY <2>2
    <3> QED BY <1>2, <1>3, <2>2, <3>1
  <2> QED BY <2>1, <2>2
<1> HIDE DEF t
<1>5. t = [i \in 1..(a + n) |-> i]
  BY <1>3, <1>4
<1> QED BY <1>5 DEF t, u, v

\* The positions of k parts of n, one part after the other.
LEMMA FlattenShares ==
    ASSUME NEW k \in Nat \ {0}, NEW n \in Nat \ {0}, NEW s, Len(s) = k,
           \A j \in 1..k : s[j] = [i \in 1..n |-> Spot(j, n, i)]
    PROVE  FlattenSeq(s) = [i \in 1..(k * n) |-> i]
<1>1. PICK f : /\ FlattenSeq(s) = f[k] /\ f[1] = s[1]
               /\ \A i \in 1..k : i # 1 => f[i] = f[i - 1] \o s[i]
  <2>1. Len(s) \in Nat \ {0}
    OBVIOUS
  <2> QED BY <2>1, FlattenIs
<1> DEFINE Id(m) == [i \in 1..m |-> i]
           Bad == {m \in Nat : m \in 1..k /\ f[m] # Id(m * n)}
<1>2. 0 \notin Bad /\ Bad \in SUBSET Nat
  OBVIOUS
<1>3. ASSUME NEW m \in Nat, m \notin Bad PROVE m + 1 \notin Bad
  <2> SUFFICES ASSUME m + 1 \in 1..k PROVE f[m + 1] = Id((m + 1) * n)
    OBVIOUS
  <2>1. CASE m = 0
    <3>1. s[1] = [i \in 1..n |-> Spot(1, n, i)]
      OBVIOUS
    <3>2. \A i \in 1..n : Spot(1, n, i) = i
      BY DEF Spot
    <3>3. (0 + 1) * n = n /\ 0 + 1 = 1
      OBVIOUS
    <3>4. s[1] = Id(n)
      BY <3>1, <3>2
    <3> HIDE DEF Id
    <3> QED BY <1>1, <2>1, <3>3, <3>4
  <2>2. CASE m # 0
    <3>1. m \in 1..k /\ (m + 1) - 1 = m /\ m + 1 # 1
      BY <2>2
    <3>2. f[m] = Id(m * n)
      BY <1>3, <3>1
    <3>3. f[m + 1] = f[m] \o s[m + 1]
      BY <1>1, <3>1
    <3> DEFINE a == m * n
    <3>4. a \in Nat /\ (m + 1) * n = a + n
      <4>1. (m + 1) * n = m * n + n
        BY Z3
      <4> QED BY <4>1
    <3>5. s[m + 1] = [i \in 1..n |-> a + i]
      BY <3>1 DEF Spot
    <3> HIDE DEF a
    <3>6. Id(a) \o [i \in 1..n |-> a + i] = Id(a + n)
      BY <3>4, PositionsJoined
    <3> HIDE DEF Id
    <3> QED BY <3>2, <3>3, <3>4, <3>5, <3>6 DEF a
  <2> QED BY <2>1, <2>2
<1>4. Bad = {}
  <2> HIDE DEF Bad
  <2> QED BY <1>2, <1>3, NoLeast
<1>5. k \in 1..k
  OBVIOUS
<1>6. f[k] = Id(k * n)
  <2> HIDE DEF Id
  <2> QED BY <1>4, <1>5
<1> QED BY <1>1, <1>6

-----------------------------------------------------------------------------
(* Reordering the rows changes their indices, not the sorted workloads.     *)

UpTo(u, n, c) == {q \in 1..n : u[q] <= c}

Nondecreasing(u, n) == Weights(u, n) /\ \A p, q \in 1..n : p < q => u[p] <= u[q]

\* Of two ascending sequences with as many numbers up to every bound neither
\* is below the other at any place.
LEMMA NotBelow ==
    ASSUME NEW n \in Nat, NEW u, NEW v, Nondecreasing(u, n), Nondecreasing(v, n),
           \A c \in Int : Cardinality(UpTo(u, n, c)) = Cardinality(UpTo(v, n, c)),
           NEW p \in 1..n
    PROVE  u[p] >= v[p]
<1> SUFFICES ASSUME u[p] < v[p] PROVE FALSE
  BY DEF Nondecreasing, Weights
<1> DEFINE c == u[p]
           A == UpTo(u, n, c)
           B == UpTo(v, n, c)
<1>1. \A q \in 1..n : u[q] \in Int /\ v[q] \in Int
  BY DEF Nondecreasing, Weights
<1>2. 1..p \in SUBSET A
  <2> SUFFICES ASSUME NEW q \in 1..p PROVE q \in 1..n /\ u[q] <= u[p]
    BY DEF UpTo
  <2>1. q \in 1..n
    OBVIOUS
  <2>2. q = p \/ q < p
    OBVIOUS
  <2> QED BY <1>1, <2>1, <2>2 DEF Nondecreasing
<1>3. B \in SUBSET (1..(p - 1))
  <2> SUFFICES ASSUME NEW q \in 1..n, v[q] <= u[p] PROVE q \in 1..(p - 1)
    BY DEF UpTo
  <2>1. v[q] < v[p]
    BY <1>1
  <2>2. ~(p < q) /\ q # p
    BY <1>1, <2>1 DEF Nondecreasing
  <2> QED BY <2>2
<1>4. IsFiniteSet(A)
  <2>1. A \in SUBSET (1..n)
    BY DEF UpTo
  <2> HIDE DEF A
  <2> QED BY <2>1, CountUpTo, FS_Subset
<1>5. p \in Nat /\ p - 1 \in Nat
  OBVIOUS
<1>6. /\ IsFiniteSet(1..p) /\ Cardinality(1..p) = p
      /\ IsFiniteSet(1..(p - 1)) /\ Cardinality(1..(p - 1)) = p - 1
  BY <1>5, CountUpTo
<1>7. Cardinality(A) = Cardinality(B)
  BY <1>1
<1> HIDE DEF A, B
<1>8. p <= Cardinality(A)
  BY <1>2, <1>4, <1>6, FS_Subset
<1>9. Cardinality(B) <= p - 1 /\ IsFiniteSet(B)
  <2> DEFINE R == 1..(p - 1)
  <2>1. IsFiniteSet(R) /\ B \in SUBSET R /\ Cardinality(R) = p - 1
    BY <1>3, <1>6
  <2> HIDE DEF R
  <2>2. Cardinality(B) <= Cardinality(R) /\ IsFiniteSet(B)
    BY <2>1, FS_Subset
  <2> QED BY <2>1, <2>2
<1>10. Cardinality(A) \in Nat
  BY <1>4, FS_CardinalityType
<1> QED BY <1>5, <1>7, <1>8, <1>9, <1>10

\* A rearrangement has as many numbers up to a bound.
LEMMA CountBelow ==
    ASSUME NEW n \in Nat, NEW w, NEW e, Counts(e, n, 1..n), NEW c
    PROVE  Cardinality(UpTo([q \in 1..n |-> w[e[q]]], n, c)) = Cardinality(UpTo(w, n, c))
<1> DEFINE S == UpTo([q \in 1..n |-> w[e[q]]], n, c)
           T == UpTo(w, n, c)
           f == [q \in S |-> e[q]]
<1>1. /\ \A i \in 1..n : e[i] \in 1..n
      /\ \A i, j \in 1..n : e[i] = e[j] => i = j
      /\ \A x \in 1..n : \E i \in 1..n : e[i] = x
  BY DEF Counts
<1>2. \A q : q \in S <=> q \in 1..n /\ w[e[q]] <= c
  BY DEF UpTo
<1>3. \A q : q \in T <=> q \in 1..n /\ w[q] <= c
  BY DEF UpTo
<1> HIDE DEF S, T
<1>4. f \in [S -> T]
  BY <1>1, <1>2, <1>3
<1>5. \A i, j \in S : f[i] = f[j] => i = j
  BY <1>1, <1>2
<1>6. \A x \in T : \E i \in S : f[i] = x
  <2> SUFFICES ASSUME NEW x \in T PROVE \E i \in S : f[i] = x
    OBVIOUS
  <2>1. x \in 1..n /\ w[x] <= c
    BY <1>3
  <2>2. PICK i \in 1..n : e[i] = x
    BY <1>1, <2>1
  <2>3. i \in S
    BY <1>2, <2>1, <2>2
  <2> QED BY <2>2, <2>3
<1>7. IsFiniteSet(S)
  <2>1. IsFiniteSet(1..n) /\ S \in SUBSET (1..n)
    BY <1>2, CountUpTo
  <2> QED BY <2>1, FS_Subset
<1> HIDE DEF f
<1>8. f \in Bijection(S, T)
  BY <1>4, <1>5, <1>6 DEF Bijection, Injection, Surjection, IsInjective
<1>9. ExistsBijection(S, T)
  BY <1>8 DEF ExistsBijection
<1>10. Cardinality(T) = Cardinality(S)
  BY <1>7, <1>9, FS_Bijection
<1> QED BY <1>10 DEF S, T

\* The workloads in order.
InOrder(w, n) == [q \in 1..n |-> w[ByWorkload(w, DOMAIN w)[q]]]

\* The workloads in order ascend.
LEMMA InOrderIs ==
    ASSUME NEW n \in Nat, NEW w, Weights(w, n)
    PROVE  /\ Counts(ByWorkload(w, DOMAIN w), n, 1..n)
           /\ Nondecreasing(InOrder(w, n), n)
<1> DEFINE item == ByWorkload(w, DOMAIN w)
<1>1. w \in [1..n -> Int] /\ DOMAIN w = 1..n /\ Cardinality(1..n) = n
  BY CountUpTo DEF Weights
<1>2. /\ Enumerates(item, 1..n)
      /\ \A p, q \in 1..n : p < q => Lighter(w, item[p], item[q])
  BY <1>1, ByWorkloadIs
<1> HIDE DEF item
<1>3. Counts(item, n, 1..n)
  BY <1>1, <1>2 DEF Enumerates, Counts
<1>4. \A q \in 1..n : item[q] \in 1..n /\ w[item[q]] \in Int
  BY <1>1, <1>3 DEF Counts
<1>5. InOrder(w, n) = [q \in 1..n |-> w[item[q]]]
  BY DEF InOrder, item
<1>6. \A p, q \in 1..n : p < q => w[item[p]] <= w[item[q]]
  BY <1>2, <1>4 DEF Lighter
<1>7. Nondecreasing(InOrder(w, n), n)
  BY <1>4, <1>5, <1>6 DEF Nondecreasing, Weights
<1> QED BY <1>3, <1>7 DEF item

\* Rearranged rows have the same workloads in order.
LEMMA SameOrder ==
    ASSUME NEW n \in Nat, NEW w, NEW v, Weights(w, n), Weights(v, n),
           NEW order, Counts(order, n, 1..n), \A i \in 1..n : v[i] = w[order[i]]
    PROVE  InOrder(v, n) = InOrder(w, n)
<1> DEFINE a == InOrder(w, n)
           b == InOrder(v, n)
<1>1. Nondecreasing(a, n) /\ Nondecreasing(b, n)
  BY InOrderIs
<1>2. v = [i \in 1..n |-> w[order[i]]]
  BY DEF Weights
<1>3. ASSUME NEW c \in Int
      PROVE  Cardinality(UpTo(a, n, c)) = Cardinality(UpTo(b, n, c))
  <2>1. Cardinality(UpTo(a, n, c)) = Cardinality(UpTo(w, n, c))
    BY InOrderIs, CountBelow DEF InOrder
  <2>2. Cardinality(UpTo(b, n, c)) = Cardinality(UpTo(v, n, c))
    BY InOrderIs, CountBelow DEF InOrder
  <2>3. Cardinality(UpTo(v, n, c)) = Cardinality(UpTo(w, n, c))
    BY <1>2, CountBelow
  <2> QED BY <2>1, <2>2, <2>3
<1>4. a = [q \in 1..n |-> a[q]] /\ b = [q \in 1..n |-> b[q]]
  BY DEF InOrder
<1> HIDE DEF a, b
<1>5. \A q \in 1..n : a[q] >= b[q]
  BY <1>1, <1>3, NotBelow
<1>6. \A q \in 1..n : b[q] >= a[q]
  BY <1>1, <1>3, NotBelow
<1>7. \A q \in 1..n : a[q] \in Int /\ b[q] \in Int
  BY <1>1 DEF Nondecreasing, Weights
<1>8. \A q \in 1..n : a[q] = b[q]
  BY <1>5, <1>6, <1>7
<1>9. a = b
  BY <1>4, <1>8
<1> QED BY <1>9 DEF a, b

\* The groups, again.
LEMMA GroupsAre ==
    ASSUME NEW k \in Nat \ {0}, NEW g \in Nat \ {0}, NEW n, n = g * k,
           NEW w, Weights(w, n)
    PROVE  /\ StartEqual(w, k) = {Group(w, k, c) : c \in 1..g}
           /\ n \in Nat /\ Spots(g, k) = 1..n
<1>1. g \in Nat /\ w \in [1..n -> Int]
  BY DEF Weights
<1> QED BY <1>1, StartEqualIs

\* There are n rows in g groups of k; v has the workloads of w in another order.
Groups(n, g, k) == n = g * k

Reordered(order, n, w, v) ==
    /\ Weights(w, n) /\ Weights(v, n) /\ Counts(order, n, 1..n)
    /\ \A i \in 1..n : v[i] = w[order[i]]

\* The groups balancing starts from have the same sums whatever the order of the
\* rows.
LEMMA SpreadsStay ==
    ASSUME NEW k \in Nat \ {0}, NEW g \in Nat \ {0}, NEW n, Groups(n, g, k),
           NEW w, NEW v, NEW order, Reordered(order, n, w, v),
           NEW s \in StartEqual(w, k)
    PROVE  \E t \in StartEqual(v, k) : Spread(t) = Spread(s)
<1>0. /\ n = g * k /\ Weights(w, n) /\ Weights(v, n) /\ Counts(order, n, 1..n)
      /\ \A i \in 1..n : v[i] = w[order[i]]
  BY DEF Groups, Reordered
<1>1. /\ n \in Nat /\ Spots(g, k) = 1..n /\ StartEqual(w, k) = {Group(w, k, c) : c \in 1..g}
      /\ StartEqual(v, k) = {Group(v, k, c) : c \in 1..g}
  <2>1. ASSUME NEW x, Weights(x, n), n = g * k
        PROVE  /\ n \in Nat /\ Spots(g, k) = 1..n
               /\ StartEqual(x, k) = {Group(x, k, c) : c \in 1..g}
    BY <2>1, GroupsAre
  <2> QED BY <1>0, <2>1
<1>2. InOrder(v, n) = InOrder(w, n)
  BY <1>0, <1>1, SameOrder
<1>3. PICK c \in 1..g : s = Group(w, k, c)
  BY <1>1
<1>4. ASSUME NEW x, NEW i \in 1..k, x = w \/ x = v
      PROVE  Group(x, k, c)[i].sum = InOrder(x, n)[Spot(c, k, (k + 1) - i)]
  <2>1. (k + 1) - i \in 1..k
    OBVIOUS
  <2>2. Spot(c, k, (k + 1) - i) \in Spots(g, k)
    BY <2>1, PlaceAt
  <2>3. Group(x, k, c)[i].sum = x[ByWorkload(x, DOMAIN x)[Spot(c, k, (k + 1) - i)]]
    BY DEF Group, Single
  <2> QED BY <1>1, <2>2, <2>3 DEF InOrder
<1>5. 1 \in 1..k /\ k \in 1..k
  OBVIOUS
<1>6. \A i \in 1..k : Group(v, k, c)[i].sum = Group(w, k, c)[i].sum
  <2> SUFFICES ASSUME NEW i \in 1..k PROVE Group(v, k, c)[i].sum = Group(w, k, c)[i].sum
    OBVIOUS
  <2>1. Group(v, k, c)[i].sum = InOrder(v, n)[Spot(c, k, (k + 1) - i)]
    BY <1>4
  <2>2. Group(w, k, c)[i].sum = InOrder(w, n)[Spot(c, k, (k + 1) - i)]
    BY <1>4
  <2> QED BY <1>2, <2>1, <2>2
<1>7. Len(Group(v, k, c)) = k /\ Len(Group(w, k, c)) = k
  BY DEF Group
<1>8. Spread(Group(v, k, c)) = Spread(Group(w, k, c))
  BY <1>5, <1>6, <1>7 DEF Spread
<1> QED BY <1>1, <1>3, <1>8

-----------------------------------------------------------------------------
(* The micro-batches of a rank.                                             *)

\* The sets of a solution know their sums.
Summed(w, s) == \A i \in DOMAIN s : s[i].sum = Total(w, s[i].items)

\* What holds of the heap of a rank through all its rounds.
MicroHeap(h, k, n, w, M) ==
    /\ HeapRight(h, k, n) /\ h # {}
    /\ \A s \in h : Summed(w, s) /\ Spread(s) <= M

\* The rows of a heap are rows.
LEMMA RowsIn ==
    ASSUME NEW k, NEW n \in Nat, NEW h, HeapRight(h, k, n), NEW s \in h, NEW i \in 1..k
    PROVE  /\ DOMAIN s = 1..k /\ s[i] \in ItemSets /\ s[i].items \in SUBSET (1..n)
           /\ IsFiniteSet(s[i].items)
<1>1. DOMAIN s = 1..k /\ s[i] \in ItemSets
  BY DEF HeapRight, Solutions
<1>2. s[i].items \in SUBSET (1..n)
  <2>1. s[i].items \in SUBSET RowsOf(h)
    <3> SUFFICES ASSUME NEW x \in s[i].items PROVE x \in RowsOf(h)
      OBVIOUS
    <3>1. i \in DOMAIN s
      BY <1>1
    <3> QED BY <3>1 DEF RowsOf
  <2> QED BY <2>1 DEF HeapRight
<1>3. IsFiniteSet(s[i].items)
  BY <1>2, CountUpTo, FS_Subset
<1> QED BY <1>1, <1>2, <1>3

\* seqlen_balancing.py:154-156. Without equal_size there is a solution for every
\* row; each of them spreads by the workload of its row.
LEMMA StartUnevenRight ==
    ASSUME NEW k \in Nat \ {0}, NEW n \in Nat \ {0}, NEW w \in [1..n -> Nat],
           NEW M \in Int, \A i \in 1..n : w[i] <= M
    PROVE  MicroHeap(StartUneven(w, k), k, n, w, M)
<1> DEFINE One(x) == [i \in 1..k |-> IF i = 1 THEN Single(w, x) ELSE NoItems]
           h == StartUneven(w, k)
<1>1. h = {One(x) : x \in 1..n}
  BY DEF StartUneven
<1>2. \A x \in 1..n : /\ DOMAIN One(x) = 1..k /\ Len(One(x)) = k
                      /\ \A i \in 1..k : One(x)[i] = IF i = 1 THEN Single(w, x) ELSE NoItems
  OBVIOUS
<1>3. \A x \in 1..n : /\ Single(w, x) \in ItemSets /\ Single(w, x).items = {x}
                      /\ Single(w, x).sum = w[x] /\ w[x] \in Nat
  BY DEF Single, ItemSets
<1>4. NoItems \in ItemSets /\ NoItems.items = {} /\ NoItems.sum = 0
  BY DEF NoItems, ItemSets
<1>5. ASSUME NEW x \in 1..n
      PROVE  /\ One(x) \in Solutions(k) /\ Summed(w, One(x)) /\ Spread(One(x)) <= M
             /\ \A i \in 1..k : One(x)[i].items = IF i = 1 THEN {x} ELSE {}
  <2> DEFINE s == One(x)
  <2>1. /\ DOMAIN s = 1..k /\ Len(s) = k /\ s = [i \in 1..k |-> s[i]]
        /\ \A i \in 1..k : s[i] = IF i = 1 THEN Single(w, x) ELSE NoItems
    BY <1>2
  <2> HIDE DEF s
  <2>2. s \in [1..k -> ItemSets]
    BY <1>3, <1>4, <2>1
  <2>3. Decreasing(s)
    <3> SUFFICES ASSUME NEW i \in 1..k, NEW j \in 1..k, i < j PROVE s[i].sum >= s[j].sum
      BY <2>1 DEF Decreasing
    <3>1. j # 1 /\ s[j].sum = 0
      BY <1>4, <2>1
    <3>2. s[i].sum \in Nat
      BY <1>3, <1>4, <2>1
    <3> QED BY <3>1, <3>2
  <2>4. Summed(w, s)
    <3> SUFFICES ASSUME NEW i \in 1..k PROVE s[i].sum = Total(w, s[i].items)
      BY <2>1 DEF Summed
    <3>1. Total(w, {}) = 0
      BY FS_EmptySet, TotalStep
    <3>2. Total(w, {x}) = w[x]
      <4>1. IsFiniteSet({x}) /\ (\A y \in {x} : w[y] \in Int) /\ x \in {x}
        <5>1. \A y : IsFiniteSet({y})
          BY FS_Singleton
        <5>2. w[x] \in Int
          BY <1>3
        <5> QED BY <5>1, <5>2
      <4>2. Total(w, {x}) = w[x] + Total(w, {x} \ {x})
        <5> DEFINE U == {x}
        <5> HIDE DEF U
        <5>1. Total(w, U) = w[x] + Total(w, U \ {x})
          BY <4>1, TotalWithout DEF U
        <5> QED BY <5>1 DEF U
      <4>3. {x} \ {x} = {}
        OBVIOUS
      <4>4. w[x] + 0 = w[x]
        BY <1>3
      <4> QED BY <3>1, <4>2, <4>3, <4>4
    <3> QED BY <1>3, <1>4, <2>1, <3>1, <3>2
  <2>5. Spread(s) <= M
    <3>1. 1 \in 1..k /\ k \in 1..k
      OBVIOUS
    <3>2. s[1].sum = w[x] /\ (k = 1 \/ s[k].sum = 0)
      BY <1>3, <1>4, <2>1, <3>1
    <3>3. w[x] \in Nat /\ w[x] <= M
      BY <1>3
    <3> QED BY <2>1, <3>2, <3>3 DEF Spread
  <2>6. \A i \in 1..k : s[i].items = IF i = 1 THEN {x} ELSE {}
    BY <1>3, <1>4, <2>1
  <2> QED BY <2>1, <2>2, <2>3, <2>4, <2>5, <2>6 DEF Solutions, s
<1>6. IsFiniteSet(h)
  <2> DEFINE f == [x \in 1..n |-> One(x)]
  <2>1. {f[x] : x \in 1..n} = {One(x) : x \in 1..n}
    OBVIOUS
  <2> HIDE DEF f, One, h
  <2>2. IsFiniteSet({f[x] : x \in 1..n})
    BY FiniteImage
  <2> QED BY <1>1, <2>1, <2>2
<1>7. \A x \in 1..n : DOMAIN One(x) = 1..k
  BY <1>2
<1>10. 1 \in 1..k /\ 1 \in 1..n
  OBVIOUS
<1> HIDE DEF One, h
<1>8. Separate(h)
  <2> SUFFICES ASSUME NEW x \in 1..n, NEW y \in 1..n, NEW i \in 1..k, NEW j \in 1..k,
                      One(x) # One(y) \/ i # j
               PROVE  One(x)[i].items \cap One(y)[j].items = {}
    BY <1>1, <1>7 DEF Separate
  <2>1. /\ One(x)[i].items = IF i = 1 THEN {x} ELSE {}
        /\ One(y)[j].items = IF j = 1 THEN {y} ELSE {}
    BY <1>5
  <2> QED BY <2>1
<1>9. RowsOf(h) = 1..n
  <2>1. \A x : x \in RowsOf(h) <=> \E y \in 1..n : \E i \in 1..k : x \in One(y)[i].items
    BY <1>1, <1>7 DEF RowsOf
  <2>2. ASSUME NEW x \in RowsOf(h) PROVE x \in 1..n
    <3>1. PICK y \in 1..n, i \in 1..k : x \in One(y)[i].items
      BY <2>1
    <3>2. One(y)[i].items = IF i = 1 THEN {y} ELSE {}
      BY <1>5
    <3> QED BY <3>1, <3>2
  <2>3. ASSUME NEW x \in 1..n PROVE x \in RowsOf(h)
    <3>1. One(x)[1].items = {x}
      BY <1>5, <1>10
    <3> QED BY <1>10, <2>1, <3>1
  <2> QED BY <2>2, <2>3
<1>11. h # {}
  BY <1>1, <1>10
<1>12. ASSUME NEW s \in h PROVE s \in Solutions(k) /\ Summed(w, s) /\ Spread(s) <= M
  <2>1. PICK x \in 1..n : s = One(x)
    BY <1>1
  <2> QED BY <1>5, <2>1
<1> QED BY <1>6, <1>8, <1>9, <1>11, <1>12 DEF HeapRight, MicroHeap, h

\* A round keeps it.
LEMMA MicroHeapMerges ==
    ASSUME NEW k \in Nat \ {0}, NEW n \in Nat, NEW w, Weights(w, n), NEW M \in Int,
           NEW h, MicroHeap(h, k, n, w, M), NEW next \in MergesOf(h)
    PROVE  MicroHeap(next, k, n, w, M)
<1>1. PICK a, b \in h : \E m \in Sortings(JoinReversed(a, b)) :
         a # b /\ next = (h \ {a, b}) \cup {m}
  BY MergesAre
<1>2. PICK m \in Sortings(JoinReversed(a, b)) : next = (h \ {a, b}) \cup {m}
  BY <1>1
<1>3. HeapRight(h, k, n) /\ a \in Solutions(k) /\ b \in Solutions(k)
  BY DEF MicroHeap, HeapRight
<1>4. HeapRight(next, k, n)
  BY <1>3, MergeRight
<1>5. \A s \in next : Spread(s) <= M
  <2>1. h \in SUBSET Solutions(k) /\ \A s \in h : Spread(s) <= M
    BY DEF MicroHeap, HeapRight
  <2> QED BY <2>1, MergeKeepsSpread
<1> DEFINE s == JoinReversed(a, b)
<1>6. s \in [1..k -> ItemSets] /\ \A i \in 1..k : s[i] = Join(a[i], b[k + 1 - i])
  BY <1>3, JoinTyped
<1> HIDE DEF s
<1>7. PICK p \in [1..k -> 1..k] : \A i \in 1..k : m[i] = s[p[i]]
  BY <1>2, <1>6, SortingsAre DEF s
<1>8. m \in Solutions(k)
  BY <1>2, <1>6, SortingsAre DEF s
<1>9. Summed(w, m)
  <2> SUFFICES ASSUME NEW i \in 1..k PROVE m[i].sum = Total(w, m[i].items)
    BY <1>8 DEF Summed, Solutions
  <2> DEFINE x == p[i]
             y == k + 1 - x
             A == a[x].items
             B == b[y].items
  <2>1. x \in 1..k /\ y \in 1..k
    <3>1. p[i] \in 1..k /\ \A q \in 1..k : k + 1 - q \in 1..k
      OBVIOUS
    <3> QED BY <3>1
  <2>2. m[i].items = A \cup B /\ m[i].sum = a[x].sum + b[y].sum
    <3>1. m[i] = Join(a[x], b[y])
      BY <1>6, <1>7, <2>1
    <3> HIDE DEF x, y
    <3> QED BY <3>1 DEF Join
  <2> HIDE DEF x, y
  <2>3. DOMAIN a = 1..k /\ DOMAIN b = 1..k
    BY <1>3, <2>1, RowsIn
  <2>4. A \in SUBSET (1..n) /\ B \in SUBSET (1..n) /\ IsFiniteSet(A) /\ IsFiniteSet(B)
    BY <1>3, <2>1, RowsIn
  <2>5. A \cap B = {}
    BY <1>1, <1>3, <2>1, <2>3 DEF HeapRight, Separate
  <2>6. a[x].sum = Total(w, A) /\ b[y].sum = Total(w, B)
    BY <2>1, <2>3 DEF MicroHeap, Summed
  <2>7. \A z \in A \cup B : w[z] \in Int
    BY <2>4 DEF Weights
  <2> HIDE DEF A, B
  <2>8. Total(w, A \cup B) = Total(w, A) + Total(w, B)
    BY <2>4, <2>5, <2>7, TotalUnion
  <2> QED BY <2>2, <2>6, <2>8
<1>10. \A t \in next : Summed(w, t)
  <2>1. \A t \in h : Summed(w, t)
    BY DEF MicroHeap
  <2> QED BY <1>2, <1>9, <2>1
<1> QED BY <1>2, <1>4, <1>5, <1>10 DEF MicroHeap

\* Sets of rows by weight, then by their first row.
Heavier(a, b) == a.sum > b.sum \/ (a.sum = b.sum /\ First(a) > First(b))

OrderedSets(sets) ==
    [p \in 1..Cardinality(sets) |->
        CHOOSE x \in sets : Cardinality({y \in sets : Heavier(y, x)}) = p - 1]

LightEnds(e) == Reverse(EverySecond(e, 1)) \o EverySecond(e, 2)

\* seqlen_balancing.py:451-468. The micro-batches of a solution, in the terms
\* used here.
LEMMA MicroBatchesIs ==
    ASSUME NEW s
    PROVE  MicroBatches(s) =
             [i \in 1..Len(LightEnds(OrderedSets({s[j] : j \in 1..Len(s)}))) |->
                SortedBy(LightEnds(OrderedSets({s[j] : j \in 1..Len(s)}))[i].items, <)]
BY DEF MicroBatches, SortedBy, Heavier, OrderedSets, LightEnds

\* Sets that are apart have an order by weight and first row.
LEMMA HeavierOrders ==
    ASSUME NEW sets \in SUBSET ItemSets, IsFiniteSet(sets),
           \A a \in sets : a.items # {} /\ a.items \in SUBSET Nat,
           \A a, b \in sets : a # b => a.items \cap b.items = {}
    PROVE  Enumerates(OrderedSets(sets), sets)
<1> DEFINE R == {r \in sets \X sets : Heavier(r[1], r[2])}
<1>1. \A x, y \in sets : <<x, y>> \in R <=> Heavier(x, y)
  OBVIOUS
<1> HIDE DEF R
<1>2. OrderedSets(sets) = Sorted(sets, R)
  <2>1. \A x \in sets : {y \in sets : <<y, x>> \in R} = {y \in sets : Heavier(y, x)}
    BY <1>1
  <2>2. ASSUME NEW p \in 1..Cardinality(sets)
        PROVE  (CHOOSE x \in sets : Cardinality({y \in sets : Heavier(y, x)}) = p - 1)
                  = (CHOOSE x \in sets : Cardinality({y \in sets : <<y, x>> \in R}) = p - 1)
    <3>1. \A x : (x \in sets /\ Cardinality({y \in sets : Heavier(y, x)}) = p - 1)
                   <=> (x \in sets /\ Cardinality({y \in sets : <<y, x>> \in R}) = p - 1)
      BY <2>1
    <3> QED BY <3>1
  <2> HIDE DEF R
  <2>3. Sorted(sets, R)
          = [p \in 1..Cardinality(sets) |->
               CHOOSE x \in sets : Cardinality({y \in sets : <<y, x>> \in R}) = p - 1]
    BY DEF Sorted
  <2>4. OrderedSets(sets)
          = [p \in 1..Cardinality(sets) |->
               CHOOSE x \in sets : Cardinality({y \in sets : Heavier(y, x)}) = p - 1]
    BY DEF OrderedSets
  <2> QED BY <2>2, <2>3, <2>4
<1>3. \A a \in sets : a.sum \in Int
  BY DEF ItemSets
<1>4. \A a \in sets : First(a) \in a.items /\ First(a) \in Nat
  <2> SUFFICES ASSUME NEW a \in sets PROVE First(a) \in a.items /\ First(a) \in Nat
    OBVIOUS
  <2>1. a.items # {} /\ a.items \in SUBSET Nat
    OBVIOUS
  <2>2. Min(a.items) \in a.items
    BY <2>1, MinIs
  <2> QED BY <2>1, <2>2 DEF First
<1>5. \A a, b \in sets : First(a) = First(b) => a = b
  BY <1>4
<1>6. Orders(R, sets)
  <2>1. \A x, y \in sets : Heavier(x, y) \/ Heavier(y, x) \/ x = y
    <3> SUFFICES ASSUME NEW x \in sets, NEW y \in sets, x # y
                 PROVE  Heavier(x, y) \/ Heavier(y, x)
      OBVIOUS
    <3>1. /\ First(x) # First(y) /\ First(x) \in Nat /\ First(y) \in Nat
          /\ x.sum \in Int /\ y.sum \in Int
      BY <1>3, <1>4, <1>5
    <3> QED BY <3>1 DEF Heavier
  <2>2. ASSUME NEW x \in sets, NEW y \in sets, NEW z \in sets, Heavier(x, y), Heavier(y, z)
        PROVE  Heavier(x, z)
    <3>1. /\ First(x) \in Nat /\ First(y) \in Nat /\ First(z) \in Nat
          /\ x.sum \in Int /\ y.sum \in Int /\ z.sum \in Int
      BY <1>3, <1>4
    <3> QED BY <2>2, <3>1 DEF Heavier
  <2>3. \A x \in sets : ~Heavier(x, x)
    <3> SUFFICES ASSUME NEW x \in sets, Heavier(x, x) PROVE FALSE
      OBVIOUS
    <3>1. First(x) \in Nat /\ x.sum \in Int
      BY <1>3, <1>4
    <3> QED BY <3>1 DEF Heavier
  <2> QED BY <1>1, <2>1, <2>2, <2>3 DEF Orders
<1>7. Enumerates(Sorted(sets, R), sets)
  BY <1>6, SortedIs
<1> QED BY <1>2, <1>7

\* Of a solution without an empty set, the micro-batches.
MicroRight(m, k, n, w, M) ==
    /\ Len(m) = k
    /\ \A a \in 1..k : m[a] # <<>>
    /\ \A a, b \in 1..k :
          SumFunction([i \in DOMAIN m[a] |-> w[m[a][i]]])
            - SumFunction([i \in DOMAIN m[b] |-> w[m[b][i]]]) <= M
    /\ Enumerates(FlattenSeq(m), 1..n)

\* They take every row of the rank once, and differ by no more than the
\* heaviest row.
LEMMA MicroBatchesRight ==
    ASSUME NEW k \in Nat \ {0}, NEW n \in Nat \ {0}, NEW w, Weights(w, n), NEW M \in Int,
           NEW s, MicroHeap({s}, k, n, w, M), \A i \in 1..k : s[i].items # {}
    PROVE  MicroRight(MicroBatches(s), k, n, w, M) /\ DOMAIN MicroBatches(s) = 1..k
<1> DEFINE sets == {s[j] : j \in 1..k}
           e == LightEnds(OrderedSets(sets))
           m == MicroBatches(s)
<1>1. HeapRight({s}, k, n) /\ s \in {s} /\ Summed(w, s) /\ Spread(s) <= M
  BY DEF MicroHeap
<1>2. /\ DOMAIN s = 1..k /\ s \in [1..k -> ItemSets] /\ Decreasing(s)
      /\ s \in Solutions(k)
  BY <1>1 DEF HeapRight, Solutions
<1>3. Len(s) = k
  BY <1>2
<1>4. ASSUME NEW j \in 1..k
      PROVE  s[j].items \in SUBSET (1..n) /\ s[j].sum = Total(w, s[j].items) /\ s[j].sum \in Int
  <2>1. s[j].items \in SUBSET (1..n)
    BY <1>1, RowsIn
  <2>2. s[j].sum = Total(w, s[j].items) /\ s[j].sum \in Int
    BY <1>1, <1>2 DEF Summed, ItemSets
  <2> QED BY <2>1, <2>2
<1>5. \A i, j \in 1..k : i # j => s[i].items \cap s[j].items = {}
  BY <1>1, <1>2 DEF HeapRight, Separate
<1>6. Counts(s, k, sets)
  <2>1. \A i, j \in 1..k : s[i] = s[j] => i = j
    BY <1>5
  <2>2. s \in [1..k -> sets]
    BY <1>2
  <2> QED BY <2>1, <2>2 DEF Counts
<1>7. IsFiniteSet(sets) /\ Cardinality(sets) = k
  <2> HIDE DEF sets
  <2> QED BY <1>6, CountedBy
<1>8. Enumerates(OrderedSets(sets), sets)
  <2>1. sets \in SUBSET ItemSets
    BY <1>2
  <2>2. \A a \in sets : a.items # {} /\ a.items \in SUBSET Nat
    BY <1>4
  <2>3. \A a, b \in sets : a # b => a.items \cap b.items = {}
    BY <1>5
  <2> HIDE DEF sets
  <2> QED BY <1>7, <2>1, <2>2, <2>3, HeavierOrders
<1>9. Enumerates(e, sets)
  <2> HIDE DEF sets
  <2> QED BY <1>8, LightAtEnds DEF LightEnds
<1>10. /\ e \in [1..k -> sets] /\ Len(e) = k
       /\ \A i, j \in 1..k : e[i] = e[j] => i = j
       /\ \A x \in sets : \E i \in 1..k : e[i] = x
  <2> HIDE DEF sets, e
  <2> QED BY <1>7, <1>9 DEF Enumerates
<1>11. m = [i \in 1..k |-> SortedBy(e[i].items, <)]
  <2>1. {s[j] : j \in 1..Len(s)} = sets
    BY <1>3
  <2>2. m = [i \in 1..Len(e) |-> SortedBy(e[i].items, <)]
    BY <2>1, MicroBatchesIs
  <2> QED BY <1>10, <2>2
<1> HIDE DEF m, e
<1>12. ASSUME NEW a \in 1..k
       PROVE  \E j \in 1..k : e[a] = s[j]
  <2>1. e[a] \in sets
    BY <1>10
  <2> QED BY <2>1
<1>13. DOMAIN m = 1..k /\ Len(m) = k
  <2>1. DOMAIN m = 1..k
    BY <1>11
  <2>2. m = [i \in 1..k |-> m[i]]
    BY <1>11
  <2>3. Len(m) = k
    BY <2>2
  <2> QED BY <2>1, <2>3
<1>14. ASSUME NEW a \in 1..k
       PROVE  Enumerates(m[a], e[a].items) /\ e[a].items # {} /\ e[a].items \in SUBSET (1..n)
  <2>1. PICK j \in 1..k : e[a] = s[j]
    BY <1>12
  <2>2. e[a].items # {} /\ e[a].items \in SUBSET (1..n)
    BY <1>4, <2>1
  <2>3. m[a] = SortedBy(e[a].items, <)
    BY <1>11
  <2>4. Enumerates(SortedBy(e[a].items, <), e[a].items)
    BY <2>2, IncreasingIs
  <2> QED BY <2>2, <2>3, <2>4
<1>15. ASSUME NEW a \in 1..k PROVE m[a] # <<>>
  <2>1. Enumerates(m[a], e[a].items) /\ e[a].items # {}
    BY <1>14
  <2>2. PICK x \in e[a].items : TRUE
    BY <2>1
  <2>3. DOMAIN m[a] # {}
    BY <2>1, <2>2 DEF Enumerates
  <2> QED BY <2>3
<1>16. ASSUME NEW a \in 1..k
       PROVE  SumFunction([i \in DOMAIN m[a] |-> w[m[a][i]]]) = e[a].sum
  <2> DEFINE A == e[a].items
             c == Cardinality(A)
  <2>1. Enumerates(m[a], A) /\ A \in SUBSET (1..n)
    BY <1>14
  <2> HIDE DEF A
  <2>2. Counts(m[a], c, A) /\ c \in Nat /\ DOMAIN m[a] = 1..c
    BY <2>1 DEF Enumerates, Counts
  <2>3. \A x \in A : w[x] \in Int
    BY <2>1 DEF Weights
  <2> HIDE DEF c
  <2>4. SumFunction([i \in 1..c |-> w[m[a][i]]]) = Total(w, A)
    BY <2>2, <2>3, TotalAlong
  <2>5. PICK j \in 1..k : e[a] = s[j]
    BY <1>12
  <2>6. Total(w, A) = e[a].sum
    BY <1>4, <2>5 DEF A
  <2> QED BY <2>2, <2>4, <2>6
<1>17. ASSUME NEW a \in 1..k, NEW b \in 1..k
       PROVE  e[a].sum - e[b].sum <= M
  <2>1. PICK i \in 1..k : e[a] = s[i]
    BY <1>12
  <2>2. PICK j \in 1..k : e[b] = s[j]
    BY <1>12
  <2>3. 1 \in 1..k /\ k \in 1..k
    OBVIOUS
  <2>4. s[i].sum <= s[1].sum
    <3>1. i = 1 \/ 1 < i
      OBVIOUS
    <3> QED BY <1>2, <1>4, <2>3, <3>1 DEF Decreasing
  <2>5. s[j].sum >= s[k].sum
    <3>1. j = k \/ j < k
      OBVIOUS
    <3> QED BY <1>2, <1>4, <2>3, <3>1 DEF Decreasing
  <2>6. s[1].sum - s[k].sum <= M
    BY <1>1, <1>3 DEF Spread
  <2>7. /\ s[i].sum \in Int /\ s[j].sum \in Int /\ s[1].sum \in Int /\ s[k].sum \in Int
    BY <1>4, <2>3
  <2>8. s[i].sum - s[j].sum <= M
    BY <2>4, <2>5, <2>6, <2>7, Between
  <2> QED BY <2>1, <2>2, <2>8
<1>18. Enumerates(FlattenSeq(m), 1..n)
  <2> DEFINE S == [j \in 1..k |-> e[j].items]
  <2>1. \A j \in 1..k : Enumerates(m[j], S[j])
    BY <1>14
  <2>2. \A i, j \in 1..k : i # j => S[i] \cap S[j] = {}
    <3> SUFFICES ASSUME NEW i \in 1..k, NEW j \in 1..k, i # j
                 PROVE  e[i].items \cap e[j].items = {}
      OBVIOUS
    <3>0. i \in 1..k /\ j \in 1..k /\ i # j
      OBVIOUS
    <3>1. PICK x \in 1..k : e[i] = s[x]
      BY <1>12
    <3>2. PICK y \in 1..k : e[j] = s[y]
      BY <1>12
    <3>3. x # y
      <4> SUFFICES ASSUME x = y PROVE FALSE
        OBVIOUS
      <4>1. e[i] = e[j]
        BY <3>1, <3>2
      <4> QED BY <1>10, <3>0, <4>1
    <3> QED BY <1>5, <3>1, <3>2, <3>3
  <2>3. UNION {S[j] : j \in 1..k} = 1..n
    <3>2. ASSUME NEW x \in 1..n PROVE \E j \in 1..k : x \in e[j].items
      <4>1. \A x1 \in RowsOf({s}) : \E j \in DOMAIN s : x1 \in s[j].items
        BY DEF RowsOf
      <4>2. RowsOf({s}) = 1..n
        BY <1>1 DEF HeapRight
      <4>3. PICK j \in 1..k : x \in s[j].items
        BY <1>2, <4>1, <4>2
      <4>4. s[j] \in sets
        OBVIOUS
      <4>5. PICK i \in 1..k : e[i] = s[j]
        <5> HIDE DEF sets
        <5> QED BY <1>10, <4>4
      <4> QED BY <4>3, <4>5
    <3>3. \A j \in 1..k : e[j].items \in SUBSET (1..n)
      BY <1>14
    <3> QED BY <3>2, <3>3
  <2> HIDE DEF S
  <2>4. Enumerates(FlattenSeq(m), UNION {S[j] : j \in 1..k})
    BY <1>13, <2>1, <2>2, FlattenEnumerates
  <2> QED BY <2>3, <2>4
<1>19. \A a, b \in 1..k :
          SumFunction([i \in DOMAIN m[a] |-> w[m[a][i]]])
            - SumFunction([i \in DOMAIN m[b] |-> w[m[b][i]]]) <= M
  BY <1>16, <1>17
<1> QED BY <1>13, <1>15, <1>18, <1>19 DEF MicroRight, m

-----------------------------------------------------------------------------
(* The balance of the ranks.                                                *)

\* No solution of the heap spreads wider than one of the first groups.
NoWider(h, w, k) == \E s0 \in StartEqual(w, k) : \A s \in h : Spread(s) <= Spread(s0)

\* The spread of a solution is a number.
LEMMA SpreadTyped ==
    ASSUME NEW k \in Nat \ {0}, NEW s \in Solutions(k)
    PROVE  Spread(s) \in Int
<1>1. 1 \in 1..k /\ k \in 1..k /\ Len(s) = k
  BY DEF Solutions
<1>2. s[1].sum \in Int /\ s[k].sum \in Int
  BY <1>1 DEF Solutions, ItemSets
<1> QED BY <1>1, <1>2 DEF Spread

\* Of the groups balancing starts from, one spreads widest.
LEMMA WidestGroup ==
    ASSUME NEW k \in Nat \ {0}, NEW g \in Nat \ {0}, NEW n, n = g * k,
           NEW w, Weights(w, n)
    PROVE  /\ NoWider(StartEqual(w, k), w, k)
           /\ \A s \in StartEqual(w, k) : Spread(s) \in Int
<1>1. StartEqual(w, k) = {Group(w, k, c) : c \in 1..g}
  <2>1. ASSUME NEW x, Weights(x, n)
        PROVE  /\ StartEqual(x, k) = {Group(x, k, c) : c \in 1..g}
               /\ n \in Nat /\ Spots(g, k) = 1..n
    BY <2>1, GroupsAre
  <2> QED BY <2>1
<1>2. \A s \in StartEqual(w, k) : Spread(s) \in Int
  <2>1. w \in [1..n -> Int] /\ g \in Nat
    BY DEF Weights
  <2>2. HeapRight(StartEqual(w, k), k, n)
    BY <2>1, StartEqualRight
  <2> QED BY <2>2, SpreadTyped DEF HeapRight
<1> DEFINE f == [c \in 1..g |-> Spread(Group(w, k, c))]
<1>3. \A c \in 1..g : f[c] = Spread(Group(w, k, c)) /\ f[c] \in Int
  BY <1>1, <1>2
<1> HIDE DEF f
<1>4. PICK c \in 1..g : \A d \in 1..g : f[d] <= f[c]
  BY <1>3, LargestOf
<1>5. \A d \in 1..g : Spread(Group(w, k, d)) <= Spread(Group(w, k, c))
  BY <1>3, <1>4
<1>6. NoWider(StartEqual(w, k), w, k)
  <2>1. Group(w, k, c) \in StartEqual(w, k)
    BY <1>1
  <2>2. \A s \in StartEqual(w, k) : Spread(s) <= Spread(Group(w, k, c))
    BY <1>1, <1>5
  <2> QED BY <2>1, <2>2 DEF NoWider
<1> QED BY <1>2, <1>6

\* A round keeps to it.
LEMMA MergeNoWider ==
    ASSUME NEW k \in Nat \ {0}, NEW g \in Nat \ {0}, NEW n, n = g * k,
           NEW w, Weights(w, n), NEW h \in SUBSET Solutions(k), NoWider(h, w, k),
           NEW next \in MergesOf(h)
    PROVE  NoWider(next, w, k)
<1>1. PICK s0 \in StartEqual(w, k) : \A s \in h : Spread(s) <= Spread(s0)
  BY DEF NoWider
<1>2. Spread(s0) \in Int
  BY <1>1, WidestGroup
<1> DEFINE B == Spread(s0)
<1>3. B \in Int /\ \A s \in h : Spread(s) <= B
  BY <1>1, <1>2
<1> HIDE DEF B
<1>4. \A s \in next : Spread(s) <= B
  BY <1>3, MergeKeepsSpread
<1> QED BY <1>1, <1>4 DEF B, NoWider

\* The workloads of rows.
Loads(r) == [i \in 1..Len(r) |-> CalculateWorkload(r[i].response.len)]

PartsRight(r, p) ==
    /\ \E s \in StartEqual(Loads(r), Ranks) : Spread(p) <= Spread(s)
    /\ \A j \in 1..Ranks : Cardinality(p[j].items) * Ranks = Len(r)
    /\ UNION {p[j].items : j \in 1..Ranks} = DOMAIN r

BalanceInvariant ==
    /\ phase = "balance" => NoWider(heap, Loads(rows), Ranks)
    /\ phase = "compute" => PartsRight(rows, parts)

\* The workloads of a right batch are numbers.
LEMMA LoadsAre ==
    ASSUME NEW b \in Batches, NEW r, RowsRight(b, r)
    PROVE  Weights(Loads(r), Size(b))
<1>1. Loads(r) \in [1..Size(b) -> Nat]
  BY RowsWork DEF Loads
<1> QED BY <1>1 DEF Weights

\* The first groups spread no wider than the widest of them,
LEMMA CollectBalanced ==
    ASSUME OwnInvariant, OwnInvariant', Collect
    PROVE  BalanceInvariant'
<1> SUFFICES ASSUME phase' = "balance"
             PROVE  NoWider(heap', Loads(rows'), Ranks)
  BY DEF BalanceInvariant, Collect, Fails
<1>1. /\ batch' \in Batches /\ RowsRight(batch', rows') /\ Balanced(batch', heap')
      /\ heap' = StartEqual(Loads(rows'), Ranks)
  BY DEF OwnInvariant, Collect, Fails, Loads
<1>2. PICK g \in Nat \ {0} : Size(batch') = g * Ranks
  BY <1>1 DEF Balanced
<1>3. Weights(Loads(rows'), Size(batch')) /\ Ranks \in Nat \ {0}
  BY <1>1, LoadsAre, SizesAssumption
<1> QED BY <1>1, <1>2, <1>3, WidestGroup

\* and so does every heap that comes of them.
LEMMA MergeBalanced ==
    ASSUME OwnInvariant, BalanceInvariant, BalanceMerge
    PROVE  BalanceInvariant'
<1>1. /\ phase = "balance" /\ phase' = "balance" /\ rows' = rows /\ heap' \in MergesOf(heap)
      /\ batch \in Batches /\ RowsRight(batch, rows) /\ Balanced(batch, heap)
      /\ NoWider(heap, Loads(rows), Ranks)
  BY DEF OwnInvariant, BalanceInvariant, BalanceMerge
<1>2. PICK g \in Nat \ {0} : Size(batch) = g * Ranks
  BY <1>1 DEF Balanced
<1>3. Weights(Loads(rows), Size(batch)) /\ Ranks \in Nat \ {0} /\ heap \in SUBSET Solutions(Ranks)
  BY <1>1, LoadsAre, SizesAssumption DEF Balanced, HeapRight
<1>4. NoWider(heap', Loads(rows), Ranks)
  BY <1>1, <1>2, <1>3, MergeNoWider
<1> QED BY <1>1, <1>4 DEF BalanceInvariant

\* After the reordering the solution is as wide, and the groups too.
LEMMA ReorderBalanced ==
    ASSUME OwnInvariant, BalanceInvariant, Reorder
    PROVE  BalanceInvariant'
<1> DEFINE order == Concat([j \in 1..Ranks |-> Ordered(Solution(heap)[j].items)])
           n == Size(batch)
<1>1. /\ phase = "balance" /\ phase' = "compute" /\ Solved(heap)
      /\ batch \in Batches /\ RowsRight(batch, rows) /\ Balanced(batch, heap)
      /\ NoWider(heap, Loads(rows), Ranks)
      /\ parts' = Solution(heap) /\ rows' = [i \in 1..Len(rows) |-> rows[order[i]]]
  BY DEF OwnInvariant, BalanceInvariant, Reorder
<1>2. /\ Enumerates(order, 1..n)
      /\ \A j \in 1..Ranks : Cardinality(Solution(heap)[j].items) * Ranks = n
      /\ UNION {Solution(heap)[j].items : j \in 1..Ranks} = 1..n
  BY ReorderOrder
<1> HIDE DEF order
<1>3. Len(rows) = n /\ RowsRight(batch, rows') /\ n \in Nat \ {0}
  <2>1. Len(rows) = n /\ n \in Nat \ {0}
    BY <1>1, RowsWork
  <2>2. RowsRight(batch, rows')
    BY <1>1, <1>2, <2>1, ReorderRight
  <2> QED BY <2>1, <2>2
<1>4. DOMAIN rows' = 1..n /\ Len(rows') = n
  BY <1>1, <1>3, RowsWork
<1>5. PICK g \in Nat \ {0} : n = g * Ranks
  BY <1>1 DEF Balanced
<1>6. Weights(Loads(rows), n) /\ Weights(Loads(rows'), n) /\ Ranks \in Nat \ {0}
  BY <1>1, <1>3, LoadsAre, SizesAssumption
<1>7. Solution(heap) \in heap
  BY <1>1, SolutionIs DEF Balanced, HeapRight
<1>8. PICK s0 \in StartEqual(Loads(rows), Ranks) : \A s \in heap : Spread(s) <= Spread(s0)
  BY <1>1 DEF NoWider
<1>9. Counts(order, n, 1..n)
  <2>1. Cardinality(1..n) = n
    BY <1>3, CountUpTo
  <2> QED BY <1>2, <2>1 DEF Enumerates, Counts
<1>10. \A i \in 1..n : Loads(rows')[i] = Loads(rows)[order[i]]
  <2> SUFFICES ASSUME NEW i \in 1..n PROVE Loads(rows')[i] = Loads(rows)[order[i]]
    OBVIOUS
  <2>1. order[i] \in 1..n
    BY <1>9 DEF Counts
  <2>2. rows'[i] = rows[order[i]]
    BY <1>1, <1>3
  <2> QED BY <1>3, <1>4, <2>1, <2>2 DEF Loads
<1> HIDE DEF n
<1>11. \E t \in StartEqual(Loads(rows'), Ranks) : Spread(t) = Spread(s0)
  <2> DEFINE w == Loads(rows)
             v == Loads(rows')
  <2>1. /\ Weights(w, n) /\ Weights(v, n) /\ Counts(order, n, 1..n)
        /\ \A i \in 1..n : v[i] = w[order[i]]
    BY <1>6, <1>9, <1>10
  <2>2. s0 \in StartEqual(w, Ranks) /\ Ranks \in Nat \ {0} /\ n = g * Ranks
    BY <1>5, <1>6, <1>8
  <2> HIDE DEF w, v
  <2>3. Groups(n, g, Ranks) /\ Reordered(order, n, w, v)
    BY <2>1, <2>2 DEF Groups, Reordered
  <2>4. \E t \in StartEqual(v, Ranks) : Spread(t) = Spread(s0)
    BY <2>2, <2>3, SpreadsStay
  <2> QED BY <2>4 DEF v
<1>12. PartsRight(rows', parts')
  BY <1>1, <1>2, <1>4, <1>7, <1>8, <1>11 DEF PartsRight
<1> QED BY <1>1, <1>12 DEF BalanceInvariant

\* What is known of the balance is kept by every step.
LEMMA BalanceNext ==
    OwnInvariant /\ OwnInvariant' /\ BalanceInvariant /\ [Next]_vars => BalanceInvariant'
<1> SUFFICES ASSUME OwnInvariant, OwnInvariant', BalanceInvariant, [Next]_vars
             PROVE  BalanceInvariant'
  OBVIOUS
<1>1. CASE Submit
  BY <1>1 DEF BalanceInvariant, Submit, Fails
<1>2. CASE Collect
  BY <1>2, CollectBalanced
<1>3. CASE BalanceMerge
  BY <1>3, MergeBalanced
<1>4. CASE Reorder
  BY <1>4, ReorderBalanced
<1>5. CASE Gather
  BY <1>5 DEF BalanceInvariant, Gather
<1>6. CASE NextBatch
  BY <1>6 DEF BalanceInvariant, NextBatch
<1>7. CASE Stopped
  BY <1>7 DEF BalanceInvariant, Stopped, vars, rollout, balance
<1>8. ASSUME NEW c \in 1..Workers, NEW i \in DOMAIN reply[c], phase = "rollout",
             RolloutEnds(c, i) \/ RolloutRaises(c, i)
      PROVE  BalanceInvariant'
  BY <1>8 DEF BalanceInvariant, RolloutEnds, RolloutRaises, Fails
<1>9. ASSUME NEW j \in 1..Ranks,
             \/ TooLong(j) \/ CountMicroBatches(j) \/ AllReduce(j) \/ MicroMerge(j)
             \/ Compute(j)
      PROVE  BalanceInvariant'
  <2>1. phase = "compute" /\ rows' = rows /\ parts' = parts
    BY <1>9 DEF TooLong, CountMicroBatches, AllReduce, MicroMerge, Compute, balance
  <2>2. phase' = "compute" \/ phase' = "failed"
    <3>1. CASE Compute(j)
      BY <2>1, <3>1 DEF Compute, Fails
    <3> QED BY <1>9, <2>1, <3>1 DEF TooLong, CountMicroBatches, AllReduce, MicroMerge, Fails
  <2> QED BY <2>1, <2>2 DEF BalanceInvariant
<1>10. CASE UNCHANGED vars
  BY <1>10 DEF BalanceInvariant, vars, rollout, balance
<1> QED BY <1>1, <1>2, <1>3, <1>4, <1>5, <1>6, <1>7, <1>8, <1>9, <1>10 DEF Next

-----------------------------------------------------------------------------
(* The ranks.                                                               *)

\* The rows of a rank and their workloads.
ShareOf(j, g) == [i \in 1..g |-> Spot(j, g, i)]
LoadOf(r, j, g) == [i \in 1..g |-> Loads(r)[Spot(j, g, i)]]

Most(c) == Max({c[r] : r \in 1..Ranks})
Heaviest(w, g) == Max({w[i] : i \in 1..g})

\* What holds of a rank, with its count c, heap h, micro-batches m and answer l.
RankRight(g, s, w, c, h, m, l) ==
    /\ h # {} \/ m # <<>> => \A r \in 1..Ranks : c[r] # 0
    /\ h # {} => m = <<>> /\ MicroHeap(h, Most(c), g, w, Heaviest(w, g))
    /\ m # <<>> => /\ MicroRight(m, Most(c), g, w, Heaviest(w, g))
                   /\ DOMAIN m = 1..Most(c) /\ l = s

\* What holds of the ranks, each of them with a g-th part of the rows.
RanksRight(g, r, c, h, m, l) ==
    /\ c \in [1..Ranks -> 0..g] /\ h = [j \in 1..Ranks |-> h[j]]
    /\ m = [j \in 1..Ranks |-> m[j]] /\ l = [j \in 1..Ranks |-> l[j]]
    /\ \A j \in 1..Ranks :
          RankRight(g, ShareOf(j, g), LoadOf(r, j, g), c, h[j], m[j], l[j])

Shared(b, r, g) == Size(b) = g * Ranks /\ RowsRight(b, r)

Computing(b, r, c, h, m, l) ==
    \E g \in Nat \ {0} : Shared(b, r, g) /\ RanksRight(g, r, c, h, m, l)

Ready(c, h, m, l) ==
    /\ c = NotComputed.count /\ h = NotComputed.heaps
    /\ m = NotComputed.micros /\ l = NotComputed.logprobs

\* A share and its workloads.
LEMMA ShareIs ==
    ASSUME NEW b \in Batches, NEW g \in Nat \ {0}, Shared(b, rows, g), b = batch,
           NEW j \in 1..Ranks
    PROVE  /\ Share(j) = ShareOf(j, g) /\ Len(Share(j)) = g
           /\ ShareWork(j) = LoadOf(rows, j, g) /\ DOMAIN ShareWork(j) = 1..g
           /\ LoadOf(rows, j, g) \in [1..g -> Nat]
           /\ \A i \in 1..g : /\ Share(j)[i] \in 1..Len(rows)
                              /\ rows[Share(j)[i]].response.len \in Nat \ {0}
<1> DEFINE n == Size(b)
<1>1. /\ Ranks \in Nat \ {0} /\ n = g * Ranks /\ n = Ranks * g /\ n \in Nat \ {0}
      /\ Len(rows) = n /\ Loads(rows) \in [1..n -> Nat]
      /\ \A i \in 1..n : rows[i].response.len \in Nat \ {0}
  <2>1. n = g * Ranks /\ Ranks \in Nat \ {0}
    BY SizesAssumption DEF Shared
  <2>2. g * Ranks = Ranks * g
    BY <2>1
  <2> QED BY <2>1, <2>2, RowsWork DEF Shared, Loads
<1> HIDE DEF n
<1>2. \A i \in 1..g : Spot(j, g, i) \in 1..n
  <2>1. \A i \in 1..g : Spot(j, g, i) \in Spots(Ranks, g)
    BY <1>1, PlaceAt
  <2> QED BY <1>1, <2>1 DEF Spots
<1> DEFINE id == [i \in 1..Len(rows) |-> i]
<1>3. Len(id) = Ranks * g /\ \A i \in 1..n : id[i] = i
  BY <1>1
<1> HIDE DEF id
<1>4. Chunk(id, Ranks) = [c \in 1..Ranks |-> [i \in 1..g |-> id[Spot(c, g, i)]]]
  <2>1. Len(id) \div Ranks = g
    BY <1>1, <1>3, Divided0
  <2> QED BY <2>1 DEF Chunk, Spot
<1>5. Share(j) = ShareOf(j, g)
  <2>1. Share(j) = [i \in 1..g |-> id[Spot(j, g, i)]]
    <3>1. Share(j) = Chunk(id, Ranks)[j]
      BY DEF Share, id
    <3> QED BY <1>4, <3>1
  <2>2. \A i \in 1..g : id[Spot(j, g, i)] = Spot(j, g, i)
    BY <1>2, <1>3
  <2> QED BY <2>1, <2>2 DEF ShareOf
<1>6. Len(Share(j)) = g /\ \A i \in 1..g : Share(j)[i] = Spot(j, g, i)
  BY <1>5 DEF ShareOf
<1>7. Work = Loads(rows)
  BY DEF Work, Loads
<1>8. ShareWork(j) = LoadOf(rows, j, g)
  BY <1>6, <1>7 DEF ShareWork, LoadOf
<1>9. LoadOf(rows, j, g) \in [1..g -> Nat]
  BY <1>1, <1>2 DEF LoadOf
<1> QED BY <1>1, <1>2, <1>5, <1>6, <1>8, <1>9

\* Before the ranks begin.
LEMMA ReadyComputing ==
    ASSUME NEW b, NEW r, NEW g \in Nat \ {0}, Shared(b, r, g),
           NEW c, NEW h, NEW m, NEW l, Ready(c, h, m, l)
    PROVE  Computing(b, r, c, h, m, l)
<1>1. /\ c = [j \in 1..Ranks |-> 0] /\ h = [j \in 1..Ranks |-> {}]
      /\ m = [j \in 1..Ranks |-> <<>>] /\ l = [j \in 1..Ranks |-> <<>>]
  BY DEF Ready, NotComputed
<1>2. c \in [1..Ranks -> 0..g]
  BY <1>1
<1>3. \A j \in 1..Ranks : h[j] = {} /\ m[j] = <<>>
  BY <1>1
<1>4. RanksRight(g, r, c, h, m, l)
  BY <1>1, <1>2, <1>3 DEF RanksRight, RankRight
<1> QED BY <1>4 DEF Computing

\* Once every rank has its number, the largest is one that StartUneven can take.
LEMMA MostIs ==
    ASSUME NEW g \in Nat \ {0}, NEW c \in [1..Ranks -> 0..g], \A r \in 1..Ranks : c[r] # 0
    PROVE  Most(c) \in Nat \ {0}
<1>1. Ranks \in Nat \ {0} /\ \A r \in 1..Ranks : c[r] \in Nat \ {0} /\ c[r] \in Int
  BY SizesAssumption
<1>2. \E r \in 1..Ranks : Max({c[q] : q \in 1..Ranks}) = c[r]
  BY <1>1, MaxIs
<1> QED BY <1>1, <1>2 DEF Most

\* The heaviest row bounds the others.
LEMMA HeaviestIs ==
    ASSUME NEW g \in Nat \ {0}, NEW w \in [1..g -> Nat]
    PROVE  Weights(w, g) /\ Heaviest(w, g) \in Int /\ \A i \in 1..g : w[i] <= Heaviest(w, g)
<1>1. \A i \in 1..g : w[i] \in Int
  OBVIOUS
<1>2. /\ \E i \in 1..g : Max({w[q] : q \in 1..g}) = w[i]
      /\ \A i \in 1..g : w[i] <= Max({w[q] : q \in 1..g})
  BY <1>1, MaxIs
<1>3. w \in [1..g -> Int]
  OBVIOUS
<1> QED BY <1>1, <1>2, <1>3 DEF Heaviest, Weights

\* A rank's own number.
LEMMA CountIs ==
    ASSUME NEW g \in Nat \ {0}, batch \in Batches, Shared(batch, rows, g), NEW j \in 1..Ranks
    PROVE  Min({Len(Share(j)), CeilDiv(Tokens(j), MaxTokens)}) \in 1..g
<1>1. /\ Len(Share(j)) = g /\ MaxTokens \in Nat \ {0}
      /\ \A i \in 1..g : rows[Share(j)[i]].response.len \in Nat \ {0}
  BY ShareIs, SizesAssumption
<1> DEFINE c == [i \in 1..g |-> rows[Share(j)[i]].response.len]
           t == CHOOSE t : t = [i \in 0..g |->
                   IF i = 0 THEN 0 ELSE t[i - 1] + rows[Share(j)[i]].response.len]
<1>2. \A i \in 1..g : c[i] \in Nat \ {0}
  BY <1>1
<1>3. Tokens(j) = t[g]
  BY <1>1 DEF Tokens
<1>4. \A u : u = [i \in 0..g |-> IF i = 0 THEN 0 ELSE u[i - 1] + rows[Share(j)[i]].response.len]
               <=> Adding(c, g, u)
  <2> SUFFICES ASSUME NEW u
               PROVE [i \in 0..g |-> IF i = 0 THEN 0 ELSE u[i - 1] + rows[Share(j)[i]].response.len]
                       = [i \in 0..g |-> IF i = 0 THEN 0 ELSE u[i - 1] + c[i]]
    BY DEF Adding
  <2>1. \A i \in 0..g : i # 0 => c[i] = rows[Share(j)[i]].response.len
    OBVIOUS
  <2> HIDE DEF c
  <2> QED BY <2>1
<1>5. (\E u : Adding(c, g, u)) /\ \A u : Adding(c, g, u) => u[g] \in Nat /\ u[g] >= g
  <2> HIDE DEF c
  <2> QED BY <1>2, RunningTotal
<1>6. t[g] \in Nat /\ t[g] >= g
  <2>1. Adding(c, g, t)
    <3> HIDE DEF c
    <3>1. \E u : u = [i \in 0..g |-> IF i = 0 THEN 0 ELSE u[i - 1] + rows[Share(j)[i]].response.len]
      BY <1>4, <1>5
    <3>2. t = [i \in 0..g |-> IF i = 0 THEN 0 ELSE t[i - 1] + rows[Share(j)[i]].response.len]
      BY <3>1
    <3> HIDE DEF t
    <3> QED BY <1>4, <3>2
  <2> HIDE DEF c, t
  <2> QED BY <1>5, <2>1
<1> HIDE DEF t, c
<1>7. CeilDiv(t[g], MaxTokens) \in Nat \ {0}
  <2> DEFINE a == t[g] + (MaxTokens - 1)
  <2>1. a \in Nat /\ a >= MaxTokens /\ MaxTokens \in Nat \ {0}
    BY <1>1, <1>6
  <2> HIDE DEF a
  <2>2. /\ a \div MaxTokens \in Nat /\ a % MaxTokens \in 0..(MaxTokens - 1)
        /\ a = (a \div MaxTokens) * MaxTokens + (a % MaxTokens)
    BY <2>1, Divided
  <2>3. a \div MaxTokens # 0
    <3> DEFINE q == a \div MaxTokens
               r == a % MaxTokens
    <3>1. q \in Nat /\ r \in 0..(MaxTokens - 1) /\ a = q * MaxTokens + r
      BY <2>2
    <3> HIDE DEF q, r
    <3> SUFFICES ASSUME q = 0 PROVE FALSE
      BY DEF q
    <3> QED BY <2>1, <3>1
  <2>4. CeilDiv(t[g], MaxTokens) = a \div MaxTokens
    BY DEF CeilDiv, a
  <2>5. a \div MaxTokens \in Nat \ {0}
    <3> DEFINE q == a \div MaxTokens
    <3>1. q \in Nat /\ q # 0
      BY <2>2, <2>3
    <3> HIDE DEF q
    <3> QED BY <3>1 DEF q
  <2> QED BY <2>4, <2>5
<1> DEFINE S == {g, CeilDiv(t[g], MaxTokens)}
           x == Min(S)
<1>8. x = g \/ x = CeilDiv(t[g], MaxTokens)
  <2>1. S \in SUBSET Nat /\ S # {}
    BY <1>7
  <2> HIDE DEF S
  <2>2. x \in S
    BY <2>1, MinIs
  <2> QED BY <2>2 DEF S
<1>9. x <= g
  <2> DEFINE d == CeilDiv(t[g], MaxTokens)
  <2>1. d \in Nat /\ S = {g, d}
    BY <1>7
  <2> HIDE DEF d
  <2>2. \E y \in S : \A z \in S : y <= z
    <3>1. CASE g <= d
      BY <2>1, <3>1
    <3>2. CASE ~(g <= d)
      BY <2>1, <3>2
    <3> QED BY <3>1, <3>2
  <2>3. \A z \in S : x <= z
    <3> HIDE DEF S
    <3> QED BY <2>2 DEF Min
  <2> QED BY <2>1, <2>3
<1>10. x \in 1..g
  <2> HIDE DEF x
  <2> QED BY <1>7, <1>8, <1>9
<1> QED BY <1>1, <1>3, <1>10

\* A step of one rank leaves the others as they are.
LEMMA OneRank ==
    ASSUME NEW g, NEW r, NEW c, NEW h, NEW m, NEW l, RanksRight(g, r, c, h, m, l),
           NEW j \in 1..Ranks, NEW hj, NEW mj, NEW lj,
           RankRight(g, ShareOf(j, g), LoadOf(r, j, g), c, hj, mj, lj)
    PROVE  RanksRight(g, r, c, [h EXCEPT ![j] = hj], [m EXCEPT ![j] = mj], [l EXCEPT ![j] = lj])
<1> DEFINE H == [h EXCEPT ![j] = hj]
           M == [m EXCEPT ![j] = mj]
           L == [l EXCEPT ![j] = lj]
<1>1. /\ c \in [1..Ranks -> 0..g]
      /\ h = [i \in 1..Ranks |-> h[i]] /\ DOMAIN h = 1..Ranks
      /\ m = [i \in 1..Ranks |-> m[i]] /\ DOMAIN m = 1..Ranks
      /\ l = [i \in 1..Ranks |-> l[i]] /\ DOMAIN l = 1..Ranks
      /\ \A i \in 1..Ranks : RankRight(g, ShareOf(i, g), LoadOf(r, i, g), c, h[i], m[i], l[i])
  BY DEF RanksRight
<1>2. /\ H = [i \in 1..Ranks |-> H[i]]
      /\ M = [i \in 1..Ranks |-> M[i]] /\ L = [i \in 1..Ranks |-> L[i]]
      /\ H[j] = hj /\ M[j] = mj /\ L[j] = lj
      /\ \A i \in 1..Ranks : i # j => H[i] = h[i] /\ M[i] = m[i] /\ L[i] = l[i]
  BY <1>1
<1> HIDE DEF H, M, L
<1>3. ASSUME NEW i \in 1..Ranks
      PROVE  RankRight(g, ShareOf(i, g), LoadOf(r, i, g), c, H[i], M[i], L[i])
  <2>1. CASE i = j
    BY <1>2, <2>1
  <2>2. CASE i # j
    BY <1>1, <1>2, <2>2
  <2> QED BY <2>1, <2>2
<1>4. RanksRight(g, r, c, H, M, L)
  BY <1>1, <1>2, <1>3 DEF RanksRight
<1> QED BY <1>4 DEF H, M, L

Begun == Computing(batch, rows, count, heaps, micros, logprobs)

\* seqlen_balancing.py:388-398. A rank that brings its number keeps what holds
\* of the ranks: none of them has started,
LEMMA CountBegun ==
    ASSUME batch \in Batches, Begun, NEW j \in 1..Ranks, CountMicroBatches(j)
    PROVE  Begun'
<1>1. PICK g \in Nat \ {0} : /\ Shared(batch, rows, g)
                             /\ RanksRight(g, rows, count, heaps, micros, logprobs)
  BY DEF Begun, Computing
<1> DEFINE x == Min({Len(Share(j)), CeilDiv(Tokens(j), MaxTokens)})
<1>2. /\ count' = [count EXCEPT ![j] = x] /\ count[j] = 0
      /\ UNCHANGED <<batch, rows, heaps, micros, logprobs>>
  BY DEF CountMicroBatches
<1>3. x \in 1..g
  BY <1>1, CountIs
<1> HIDE DEF x
<1>4. /\ count \in [1..Ranks -> 0..g] /\ heaps = [i \in 1..Ranks |-> heaps[i]]
      /\ micros = [i \in 1..Ranks |-> micros[i]] /\ logprobs = [i \in 1..Ranks |-> logprobs[i]]
      /\ \A i \in 1..Ranks : RankRight(g, ShareOf(i, g), LoadOf(rows, i, g), count,
                                       heaps[i], micros[i], logprobs[i])
  BY <1>1 DEF RanksRight
<1>5. \A i \in 1..Ranks : heaps[i] = {} /\ micros[i] = <<>>
  BY <1>2, <1>4 DEF RankRight
<1>6. count' \in [1..Ranks -> 0..g]
  <2>1. x \in 0..g
    BY <1>3
  <2> QED BY <1>2, <1>4, <2>1
<1>7. RanksRight(g, rows, count', heaps, micros, logprobs)
  BY <1>4, <1>5, <1>6 DEF RanksRight, RankRight
<1>8. Computing(batch, rows, count', heaps, micros, logprobs)
  BY <1>1, <1>7 DEF Computing
<1> QED BY <1>2, <1>8 DEF Begun

\* a rank that starts, with the number all ranks have,
LEMMA AllReduceBegun ==
    ASSUME batch \in Batches, Begun, NEW j \in 1..Ranks, AllReduce(j)
    PROVE  Begun'
<1>1. PICK g \in Nat \ {0} : /\ Shared(batch, rows, g)
                             /\ RanksRight(g, rows, count, heaps, micros, logprobs)
  BY DEF Begun, Computing
<1> DEFINE w == LoadOf(rows, j, g)
           k == Most(count)
           h == StartUneven(w, k)
<1>2. /\ heaps' = [heaps EXCEPT ![j] = h] /\ micros[j] = <<>>
      /\ \A r \in 1..Ranks : count[r] # 0
      /\ UNCHANGED <<batch, rows, count, micros, logprobs>>
  BY <1>1, ShareIs DEF AllReduce, Most
<1>3. w \in [1..g -> Nat]
  BY <1>1, ShareIs
<1>4. k \in Nat \ {0}
  BY <1>1, <1>2, MostIs DEF RanksRight
<1>5. MicroHeap(h, k, g, w, Heaviest(w, g))
  <2> HIDE DEF w, k
  <2>1. Heaviest(w, g) \in Int /\ \A i \in 1..g : w[i] <= Heaviest(w, g)
    BY <1>3, HeaviestIs
  <2> DEFINE M == Heaviest(w, g)
  <2> HIDE DEF M
  <2>2. M \in Int /\ \A i \in 1..g : w[i] <= M
    BY <2>1 DEF M
  <2>3. MicroHeap(h, k, g, w, M)
    BY <1>3, <1>4, <2>2, StartUnevenRight
  <2> QED BY <2>3 DEF M
<1> HIDE DEF h
<1>6. RankRight(g, ShareOf(j, g), w, count, h, micros[j], logprobs[j])
  BY <1>2, <1>5 DEF RankRight
<1>7. RanksRight(g, rows, count, heaps', [micros EXCEPT ![j] = micros[j]],
                 [logprobs EXCEPT ![j] = logprobs[j]])
  BY <1>1, <1>2, <1>6, OneRank
<1>8. [micros EXCEPT ![j] = micros[j]] = micros /\ [logprobs EXCEPT ![j] = logprobs[j]] = logprobs
  BY <1>1 DEF RanksRight
<1>9. Computing(batch, rows, count, heaps', micros, logprobs)
  BY <1>1, <1>7, <1>8 DEF Computing
<1> QED BY <1>2, <1>9 DEF Begun

\* a rank that joins two of its solutions,
LEMMA MicroMergeBegun ==
    ASSUME batch \in Batches, Begun, NEW j \in 1..Ranks, MicroMerge(j)
    PROVE  Begun'
<1>1. PICK g \in Nat \ {0} : /\ Shared(batch, rows, g)
                             /\ RanksRight(g, rows, count, heaps, micros, logprobs)
  BY DEF Begun, Computing
<1> DEFINE w == LoadOf(rows, j, g)
           k == Most(count)
<1>2. PICK h \in MergesOf(heaps[j]) : heaps' = [heaps EXCEPT ![j] = h]
  BY DEF MicroMerge
<1>3. UNCHANGED <<batch, rows, count, micros, logprobs>>
  BY DEF MicroMerge
<1>4. heaps[j] # {}
  BY <1>2, MergesAre
<1>5. /\ micros[j] = <<>> /\ MicroHeap(heaps[j], k, g, w, Heaviest(w, g))
      /\ \A r \in 1..Ranks : count[r] # 0
  BY <1>1, <1>4 DEF RanksRight, RankRight
<1>6. Weights(w, g) /\ Heaviest(w, g) \in Int /\ g \in Nat
  BY <1>1, ShareIs, HeaviestIs
<1>7. k \in Nat \ {0}
  BY <1>1, <1>5, MostIs DEF RanksRight
<1> HIDE DEF w, k
<1>8. MicroHeap(h, k, g, w, Heaviest(w, g))
  BY <1>2, <1>5, <1>6, <1>7, MicroHeapMerges
<1>9. RankRight(g, ShareOf(j, g), w, count, h, micros[j], logprobs[j])
  BY <1>5, <1>8 DEF RankRight, k
<1>10. RanksRight(g, rows, count, heaps', [micros EXCEPT ![j] = micros[j]],
                 [logprobs EXCEPT ![j] = logprobs[j]])
  BY <1>1, <1>2, <1>9, OneRank DEF w
<1>11. [micros EXCEPT ![j] = micros[j]] = micros /\ [logprobs EXCEPT ![j] = logprobs[j]] = logprobs
  BY <1>1 DEF RanksRight
<1>12. Computing(batch, rows, count, heaps', micros, logprobs)
  BY <1>1, <1>10, <1>11 DEF Computing
<1> QED BY <1>3, <1>12 DEF Begun

\* An enumeration of the positions is a permutation of them.
LEMMA EnumerationPermutes ==
    ASSUME NEW n \in Nat, NEW e, Enumerates(e, 1..n)
    PROVE  e \in [1..n -> 1..n] /\ Len(e) = n /\ Permutes(e, n)
<1>1. Cardinality(1..n) = n
  BY CountUpTo
<1>2. e \in [1..n -> 1..n] /\ \A x \in 1..n : \E i \in 1..n : e[i] = x
  BY <1>1 DEF Enumerates
<1>3. Permutes(e, n)
  BY <1>2 DEF Permutes
<1>4. Len(e) = n
  <2> DEFINE T == 1..n
  <2>1. e \in [1..n -> T]
    BY <1>2
  <2> HIDE DEF T
  <2> QED BY <2>1
<1> QED BY <1>2, <1>3, <1>4

\* and a rank that computes its micro-batches and restores the order.
LEMMA ComputeBegun ==
    ASSUME batch \in Batches, Begun, NEW j \in 1..Ranks, Compute(j)
    PROVE  Begun'
<1>1. PICK g \in Nat \ {0} : /\ Shared(batch, rows, g)
                             /\ RanksRight(g, rows, count, heaps, micros, logprobs)
  BY DEF Begun, Computing
<1> DEFINE w == LoadOf(rows, j, g)
           k == Most(count)
           s == Solution(heaps[j])
           m == MicroBatches(s)
           idx == FlattenSeq(m)
<1>2. Solved(heaps[j]) /\ UNCHANGED <<batch, rows, count>>
  BY DEF Compute
<1>3. CASE \E i \in 1..Len(s) : s[i].items = {}
  <2>1. UNCHANGED <<heaps, micros, logprobs>>
    BY <1>3 DEF Compute
  <2> QED BY <1>2, <2>1 DEF Begun
<1>4. CASE ~ \E i \in 1..Len(s) : s[i].items = {}
  <2> DEFINE answer == RestoreDynamicBatch([i \in 1..Len(idx) |-> Share(j)[idx[i]]], idx)
  <2>1. /\ heaps' = [heaps EXCEPT ![j] = {}] /\ micros' = [micros EXCEPT ![j] = m]
        /\ logprobs' = [logprobs EXCEPT ![j] = answer]
    BY <1>4 DEF Compute
  <2>2. heaps[j] # {}
    <3>1. Cardinality({}) = 0
      BY FS_EmptySet
    <3> QED BY <1>2, <3>1 DEF Solved
  <2>3. /\ MicroHeap(heaps[j], k, g, w, Heaviest(w, g))
        /\ \A r \in 1..Ranks : count[r] # 0
    BY <1>1, <2>2 DEF RanksRight, RankRight
  <2>4. Weights(w, g) /\ Heaviest(w, g) \in Int
    BY <1>1, ShareIs, HeaviestIs
  <2>5. k \in Nat \ {0}
    BY <1>1, <2>3, MostIs DEF RanksRight
  <2>6. heaps[j] = {s} /\ s \in heaps[j]
    BY <1>2, <2>3, SolutionIs DEF MicroHeap, HeapRight
  <2> HIDE DEF w, k, s
  <2>7. MicroHeap({s}, k, g, w, Heaviest(w, g)) /\ DOMAIN s = 1..k /\ Len(s) = k
    BY <2>3, <2>5, <2>6 DEF MicroHeap, HeapRight, Solutions
  <2>8. \A i \in 1..k : s[i].items # {}
    BY <1>4, <2>7
  <2> DEFINE M == Heaviest(w, g)
  <2>9. M \in Int /\ MicroHeap({s}, k, g, w, M)
    BY <2>4, <2>7
  <2> HIDE DEF M
  <2>10. MicroRight(m, k, g, w, M) /\ DOMAIN m = 1..k
    BY <2>4, <2>5, <2>8, <2>9, MicroBatchesRight
  <2> HIDE DEF m
  <2>11. Enumerates(idx, 1..g)
    BY <2>10 DEF MicroRight
  <2> HIDE DEF idx
  <2>12. idx \in [1..g -> 1..g] /\ Len(idx) = g /\ Permutes(idx, g)
    BY <2>11, EnumerationPermutes
  <2>13. answer = ShareOf(j, g)
    <3>1. answer = [i \in 1..g |-> Share(j)[i]]
      <4> DEFINE share == Share(j)
      <4> HIDE DEF share
      <4>1. RestoreDynamicBatch([i \in 1..g |-> share[idx[i]]], idx) = [i \in 1..g |-> share[i]]
        <5>1. Rearranging(idx, g) /\ g \in Nat
          BY <2>12 DEF Rearranging
        <5> QED BY <5>1, RestoreUndoes
      <4> QED BY <2>12, <4>1 DEF share
    <3>2. Share(j) = ShareOf(j, g)
      BY <1>1, ShareIs
    <3> QED BY <3>1, <3>2 DEF ShareOf
  <2> HIDE DEF answer
  <2>14. RankRight(g, ShareOf(j, g), w, count, {}, m, answer)
    BY <2>3, <2>10, <2>13 DEF RankRight, k, M
  <2>15. RanksRight(g, rows, count, heaps', micros', logprobs')
    BY <1>1, <2>1, <2>14, OneRank DEF w
  <2>16. Computing(batch, rows, count, heaps', micros', logprobs')
    BY <1>1, <2>15 DEF Computing
  <2> QED BY <1>2, <2>16 DEF Begun
<1> QED BY <1>3, <1>4

Idle == Ready(count, heaps, micros, logprobs)

RanksInvariant ==
    /\ phase \in {"balance", "compute"} => batch.kind # "validate"
    /\ phase \in {"submit", "rollout", "balance"} => Idle
    /\ phase = "compute" => Begun
    /\ phase = "done" /\ batch.kind = "validate" => Idle
    /\ phase = "done" /\ batch.kind # "validate" =>
          Begun /\ \A j \in 1..Ranks : micros[j] # <<>>
    /\ phase = "failed" => Idle \/ Begun

\* The ranks of a batch that is done have nothing left on their heaps.
LEMMA DoneHeaps ==
    ASSUME OwnInvariant, RanksInvariant, phase = "done"
    PROVE  heaps = NotComputed.heaps
<1>1. CASE batch.kind = "validate"
  BY <1>1 DEF RanksInvariant, Idle, Ready
<1>2. CASE batch.kind # "validate"
  <2>1. Begun /\ \A j \in 1..Ranks : micros[j] # <<>>
    BY <1>2 DEF RanksInvariant
  <2>2. PICK g \in Nat \ {0} : RanksRight(g, rows, count, heaps, micros, logprobs)
    BY <2>1 DEF Begun, Computing
  <2>3. heaps = [j \in 1..Ranks |-> heaps[j]]
    BY <2>2 DEF RanksRight
  <2>4. \A j \in 1..Ranks : heaps[j] = {}
    BY <2>1, <2>2 DEF RanksRight, RankRight
  <2> QED BY <2>3, <2>4 DEF NotComputed
<1> QED BY <1>1, <1>2

\* What is known of the ranks is kept by every step.
LEMMA RanksNext ==
    OwnInvariant /\ RanksInvariant /\ [Next]_vars => RanksInvariant'
<1> SUFFICES ASSUME OwnInvariant, RanksInvariant, [Next]_vars PROVE RanksInvariant'
  OBVIOUS
<1>1. CASE Submit
  BY <1>1 DEF RanksInvariant, Submit, Fails, ranks, Idle
<1>2. CASE Collect
  <2>1. phase = "rollout" /\ batch' = batch /\ Idle /\ Idle'
    BY <1>2 DEF RanksInvariant, Collect, ranks, Idle
  <2>2. \/ phase' = "done" /\ batch'.kind = "validate"
        \/ phase' = "failed"
        \/ phase' = "balance" /\ batch'.kind # "validate"
    BY <1>2, <2>1 DEF Collect, Fails
  <2> QED BY <2>1, <2>2 DEF RanksInvariant
<1>3. CASE BalanceMerge
  BY <1>3 DEF RanksInvariant, BalanceMerge, ranks, Idle
<1>4. CASE Reorder
  <2>1. /\ phase = "balance" /\ phase' = "compute" /\ Idle /\ Idle' /\ batch' = batch
        /\ batch.kind # "validate"
    BY <1>4 DEF RanksInvariant, Reorder, ranks, Idle
  <2>2. OwnInvariant'
    BY OwnNext
  <2>3. RowsRight(batch', rows')
    BY <2>1, <2>2 DEF OwnInvariant
  <2>4. PICK g \in Nat \ {0} : Size(batch) = g * Ranks
    BY <2>1 DEF OwnInvariant, Balanced
  <2>5. Shared(batch', rows', g)
    BY <2>1, <2>3, <2>4 DEF Shared
  <2>6. Computing(batch', rows', count', heaps', micros', logprobs')
    BY <2>1, <2>5, ReadyComputing DEF Idle
  <2>7. Begun'
    BY <2>6 DEF Begun
  <2> QED BY <2>1, <2>7 DEF RanksInvariant
<1>5. CASE Gather
  <2>1. /\ phase = "compute" /\ phase' = "done" /\ Begun
        /\ UNCHANGED <<batch, rows, count, heaps, micros, logprobs>>
        /\ (\A j \in 1..Ranks : micros[j] # <<>>) /\ batch.kind # "validate"
    BY <1>5 DEF RanksInvariant, Gather, ranks
  <2>2. Begun'
    BY <2>1 DEF Begun
  <2> QED BY <2>1, <2>2 DEF RanksInvariant
<1>6. CASE NextBatch
  <2>1. phase = "done" /\ phase' = "submit" /\ heaps' = heaps
        /\ count' = NotComputed.count /\ micros' = NotComputed.micros
        /\ logprobs' = NotComputed.logprobs
    BY <1>6 DEF NextBatch
  <2>2. heaps' = NotComputed.heaps
    BY <2>1, DoneHeaps
  <2>3. NotComputed' = NotComputed
    BY DEF NotComputed
  <2>4. Idle'
    BY <2>1, <2>2, <2>3 DEF Idle, Ready
  <2> QED BY <2>1, <2>4 DEF RanksInvariant
<1>7. CASE Stopped
  BY <1>7 DEF RanksInvariant, Stopped, vars, ranks, Idle, Begun
<1>8. ASSUME NEW c \in 1..Workers, NEW i \in DOMAIN reply[c], phase = "rollout",
             RolloutEnds(c, i) \/ RolloutRaises(c, i)
      PROVE  RanksInvariant'
  BY <1>8 DEF RanksInvariant, RolloutEnds, RolloutRaises, Fails, ranks, Idle
<1>9. ASSUME NEW j \in 1..Ranks,
             \/ TooLong(j) \/ CountMicroBatches(j) \/ AllReduce(j) \/ MicroMerge(j)
             \/ Compute(j)
      PROVE  RanksInvariant'
  <2>1. /\ phase = "compute" /\ batch \in Batches /\ Begun
        /\ batch' = batch /\ batch.kind # "validate"
    BY <1>9 DEF TooLong, CountMicroBatches, AllReduce, MicroMerge, Compute, RanksInvariant,
                OwnInvariant
  <2>2. phase' = "compute" \/ phase' = "failed"
    <3>1. CASE Compute(j)
      BY <2>1, <3>1 DEF Compute, Fails
    <3> QED BY <1>9, <2>1, <3>1 DEF TooLong, CountMicroBatches, AllReduce, MicroMerge, Fails
  <2>3. Begun'
    <3>1. CASE TooLong(j)
      BY <2>1, <3>1 DEF TooLong, Begun, ranks
    <3>2. CASE CountMicroBatches(j)
      BY <2>1, <3>2, CountBegun
    <3>3. CASE AllReduce(j)
      BY <2>1, <3>3, AllReduceBegun
    <3>4. CASE MicroMerge(j)
      BY <2>1, <3>4, MicroMergeBegun
    <3>5. CASE Compute(j)
      BY <2>1, <3>5, ComputeBegun
    <3> QED BY <1>9, <3>1, <3>2, <3>3, <3>4, <3>5
  <2> QED BY <2>1, <2>2, <2>3 DEF RanksInvariant
<1>10. CASE UNCHANGED vars
  BY <1>10 DEF RanksInvariant, vars, ranks, Idle, Begun
<1> QED BY <1>1, <1>2, <1>3, <1>4, <1>5, <1>6, <1>7, <1>8, <1>9, <1>10 DEF Next

Invariant == OwnInvariant /\ BalanceInvariant /\ RanksInvariant

\* Rows, balance and ranks are right in every state that can be reached.
THEOREM InvariantHolds == Spec => []Invariant
<1>1. Init => Invariant
  <2> SUFFICES ASSUME Init PROVE Invariant
    OBVIOUS
  <2>1. OwnInvariant
    BY OwnInit
  <2>2. phase = "submit" /\ Idle
    BY DEF Init, Idle, Ready
  <2> QED BY <2>1, <2>2 DEF Invariant, BalanceInvariant, RanksInvariant
<1>2. Invariant /\ [Next]_vars => Invariant'
  BY OwnNext, BalanceNext, RanksNext DEF Invariant
<1> QED BY <1>1, <1>2, PTL DEF Spec

\* An enumeration of 1..n is injective and has that range.
LEMMA EnumerationOf ==
    ASSUME NEW n \in Nat, NEW e, Enumerates(e, 1..n)
    PROVE  IsInjective(e) /\ Range(e) = 1..n
<1>1. Cardinality(1..n) = n
  BY CountUpTo
<1>2. /\ DOMAIN e = 1..n /\ \A i \in 1..n : e[i] \in 1..n
      /\ \A i, j \in 1..n : e[i] = e[j] => i = j
      /\ \A x \in 1..n : \E i \in 1..n : e[i] = x
  BY <1>1 DEF Enumerates
<1>3. IsInjective(e)
  BY <1>2 DEF IsInjective
<1>4. Range(e) = 1..n
  BY <1>2 DEF Range
<1> QED BY <1>3, <1>4

\* The micro-batches of the ranks.
RanksSplit ==
    /\ \A j, r \in 1..Ranks :
          micros[j] # <<>> /\ micros[r] # <<>> => Len(micros[j]) = Len(micros[r])
    /\ \A j \in 1..Ranks : micros[j] # <<>> =>
          /\ \A a, b \in DOMAIN micros[j] :
                SumFunction([i \in DOMAIN micros[j][a] |-> ShareWork(j)[micros[j][a][i]]])
                  - SumFunction([i \in DOMAIN micros[j][b] |-> ShareWork(j)[micros[j][b][i]]])
                  <= Max({ShareWork(j)[i] : i \in DOMAIN ShareWork(j)})
          /\ \A a \in DOMAIN micros[j] : micros[j][a] # <<>>
          /\ IsInjective(FlattenSeq(micros[j]))
          /\ Range(FlattenSeq(micros[j])) = 1..Len(Share(j))

\* Once the ranks have begun their micro-batches are right,
LEMMA BegunSplit ==
    ASSUME batch \in Batches, Begun
    PROVE  RanksSplit
<1>1. PICK g \in Nat \ {0} : /\ Shared(batch, rows, g)
                             /\ RanksRight(g, rows, count, heaps, micros, logprobs)
  BY DEF Begun, Computing
<1> DEFINE k == Most(count)
<1>2. ASSUME NEW j \in 1..Ranks, micros[j] # <<>>
      PROVE  /\ MicroRight(micros[j], k, g, ShareWork(j), Heaviest(ShareWork(j), g))
             /\ DOMAIN micros[j] = 1..k /\ Len(Share(j)) = g /\ DOMAIN ShareWork(j) = 1..g
  BY <1>1, <1>2, ShareIs DEF RanksRight, RankRight
<1> HIDE DEF k
<1>3. ASSUME NEW j \in 1..Ranks, micros[j] # <<>>
      PROVE  /\ \A a, b \in DOMAIN micros[j] :
                    SumFunction([i \in DOMAIN micros[j][a] |-> ShareWork(j)[micros[j][a][i]]])
                      - SumFunction([i \in DOMAIN micros[j][b] |-> ShareWork(j)[micros[j][b][i]]])
                      <= Max({ShareWork(j)[i] : i \in DOMAIN ShareWork(j)})
             /\ \A a \in DOMAIN micros[j] : micros[j][a] # <<>>
             /\ IsInjective(FlattenSeq(micros[j]))
             /\ Range(FlattenSeq(micros[j])) = 1..Len(Share(j))
             /\ Len(micros[j]) = k
  <2>1. /\ MicroRight(micros[j], k, g, ShareWork(j), Heaviest(ShareWork(j), g))
        /\ DOMAIN micros[j] = 1..k /\ Len(Share(j)) = g /\ DOMAIN ShareWork(j) = 1..g
    BY <1>2, <1>3
  <2>2. Heaviest(ShareWork(j), g) = Max({ShareWork(j)[i] : i \in DOMAIN ShareWork(j)})
    BY <2>1 DEF Heaviest
  <2>3. /\ \A a, b \in 1..k :
              SumFunction([i \in DOMAIN micros[j][a] |-> ShareWork(j)[micros[j][a][i]]])
                - SumFunction([i \in DOMAIN micros[j][b] |-> ShareWork(j)[micros[j][b][i]]])
                <= Heaviest(ShareWork(j), g)
        /\ \A a \in 1..k : micros[j][a] # <<>>
        /\ Len(micros[j]) = k /\ Enumerates(FlattenSeq(micros[j]), 1..g)
    BY <2>1 DEF MicroRight
  <2>4. IsInjective(FlattenSeq(micros[j])) /\ Range(FlattenSeq(micros[j])) = 1..g
    <3>1. g \in Nat
      OBVIOUS
    <3> QED BY <2>3, <3>1, EnumerationOf
  <2> QED BY <2>1, <2>2, <2>3, <2>4
<1> QED BY <1>3 DEF RanksSplit

\* and before that there are none.
LEMMA IdleSplit == Idle => RanksSplit
<1> SUFFICES ASSUME Idle PROVE RanksSplit
  OBVIOUS
<1>1. \A j \in 1..Ranks : micros[j] = <<>>
  BY DEF Idle, Ready, NotComputed
<1> QED BY <1>1 DEF RanksSplit

\* seqlen_balancing.py:49-254, 403. For any number of ranks, rows and micro-batches
\* and any lengths: balancing is no worse than the widest group of neighbours,
\* every row is in one micro-batch, and all ranks have equally many.
THEOREM PartitionsBalanced == Spec => []BalancedPartitions
<1>1. Invariant => BalancedPartitions
  <2> SUFFICES ASSUME Invariant PROVE BalancedPartitions
    OBVIOUS
  <2>1. Idle \/ Begun
    BY DEF Invariant, RanksInvariant, OwnInvariant
  <2>2. RanksSplit
    BY <2>1, IdleSplit, BegunSplit DEF Invariant, OwnInvariant
  <2>3. phase = "compute" => PartsRight(rows, parts)
    BY DEF Invariant, BalanceInvariant
  <2>4. Work = Loads(rows)
    BY DEF Work, Loads
  <2> QED BY <2>2, <2>3, <2>4 DEF BalancedPartitions, RanksSplit, PartsRight
<1> QED BY <1>1, InvariantHolds, PTL

\* seqlen_balancing.py:471-551, workers/engine/utils.py:124-141. The old log-probs
\* of the ranks, one after the other, are in the order of the batch.
THEOREM AnswersRestored == Spec => []LogprobsRestored
<1>1. Invariant => LogprobsRestored
  <2> SUFFICES ASSUME Invariant, phase = "done", batch.kind # "validate"
               PROVE  FlattenSeq(logprobs) = [i \in 1..Len(rows) |-> i]
    BY DEF LogprobsRestored
  <2>1. Begun /\ (\A j \in 1..Ranks : micros[j] # <<>>) /\ batch \in Batches
    BY DEF Invariant, RanksInvariant, OwnInvariant
  <2>2. PICK g \in Nat \ {0} : /\ Shared(batch, rows, g)
                               /\ RanksRight(g, rows, count, heaps, micros, logprobs)
    BY <2>1 DEF Begun, Computing
  <2>3. Ranks \in Nat \ {0}
    BY SizesAssumption
  <2>4. logprobs = [j \in 1..Ranks |-> logprobs[j]]
    BY <2>2 DEF RanksRight
  <2>5. \A j \in 1..Ranks : logprobs[j] = [i \in 1..g |-> Spot(j, g, i)]
    BY <2>1, <2>2 DEF RanksRight, RankRight, ShareOf
  <2>6. Len(logprobs) = Ranks
    BY <2>3, <2>4
  <2>7. FlattenSeq(logprobs) = [i \in 1..(Ranks * g) |-> i]
    BY <2>3, <2>5, <2>6, FlattenShares
  <2>8. Len(rows) = Ranks * g
    <3>1. Len(rows) = Size(batch) /\ Size(batch) = g * Ranks
      BY <2>1, <2>2, RowsWork DEF Shared
    <3>2. g * Ranks = Ranks * g
      BY <2>3
    <3> QED BY <3>1, <3>2
  <2> QED BY <2>7, <2>8
<1> QED BY <1>1, InvariantHolds, PTL
=============================================================================
