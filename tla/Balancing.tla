----------------------------- MODULE Balancing ------------------------------
(***************************************************************************)
(* How verl splits rows of different lengths into sets of about the same   *)
(* workload, utils/seqlen_balancing.py: the differencing method of         *)
(* Karmarkar and Karp on a heap of partial solutions. An item is the index *)
(* of a row; w gives the workload of every row.                            *)
(***************************************************************************)
EXTENDS Integers, Sequences, FiniteSets

\* The compute of a row: 24576 is for a hidden size of 4096.
CalculateWorkload(len) == 24576 * len + len * len

\* A finite set as a sequence in the order lt, which is strict and total.
SortedBy(S, lt(_, _)) ==
    [p \in 1..Cardinality(S) |->
        CHOOSE x \in S : Cardinality({y \in S : lt(y, x)}) = p - 1]

Lighter(w, x, y) == w[x] < w[y] \/ (w[x] = w[y] /\ x < y)

\* Items by increasing workload, then by index.
ByWorkload(w, S) == SortedBy(S, LAMBDA x, y : Lighter(w, x, y))

-----------------------------------------------------------------------------
(* A set of items knows its sum. A partial solution is a sequence of k sets *)
(* by decreasing sum, some of them empty.                                   *)

NoItems == [items |-> {}, sum |-> 0]
Single(w, x) == [items |-> {x}, sum |-> w[x]]
Join(a, b) == [items |-> a.items \cup b.items, sum |-> a.sum + b.sum]

Decreasing(s) == \A i, j \in DOMAIN s : i < j => s[i].sum >= s[j].sum

Spread(s) == s[1].sum - s[Len(s)].sum

\* The ways to sort the sets of s; the code breaks ties by number of items and
\* by the items, here they are open.
Permutes(p, k) == \A i \in 1..k : \E j \in 1..k : p[j] = i

Sortings(s) ==
    LET k == Len(s)
    IN  {t \in {[i \in 1..k |-> s[p[i]]] :
                  p \in {q \in [1..k -> 1..k] : Permutes(q, k)}} : Decreasing(t)}

\* The first heap with equal_size: one solution for every k consecutive items.
StartEqual(w, k) ==
    LET item == ByWorkload(w, DOMAIN w)
    IN  {[i \in 1..k |-> Single(w, item[t * k + (k + 1 - i)])] :
            t \in 0..((Len(w) \div k) - 1)}

\* And without it: one solution for every item.
StartUneven(w, k) ==
    {[i \in 1..k |-> IF i = 1 THEN Single(w, x) ELSE NoItems] : x \in DOMAIN w}

\* Mutant: heavy sets are joined with heavy ones.
JoinSame(a, b) == [i \in 1..Len(a) |-> Join(a[i], b[i])]

\* The heaviest set of one is joined with the lightest of the other, and so on.
JoinReversed(a, b) == [i \in 1..Len(a) |-> Join(a[i], b[Len(b) + 1 - i])]

\* The two solutions of the largest spread, whichever the heap gives: the code
\* breaks ties by the largest set.
Widest(heap, a, b) ==
    /\ a # b
    /\ \A c \in heap : Spread(c) <= Spread(a)
    /\ \A c \in heap \ {a} : Spread(c) <= Spread(b)

\* One round: these two become one.
MergesOf(heap) ==
    UNION {UNION {{(heap \ {a, b}) \cup {m} : m \in Sortings(JoinReversed(a, b))} :
                     b \in {c \in heap : Widest(heap, a, c)}} : a \in heap}

\* One solution is left.
Solved(heap) == Cardinality(heap) = 1

Solution(heap) == CHOOSE s \in heap : TRUE

-----------------------------------------------------------------------------
\* s[from - 1 :: 2]
EverySecond(s, from) ==
    [i \in 1..(((Len(s) - from) \div 2) + 1) |-> s[from + 2 * (i - 1)]]

\* Mutant: the map itself, which is its own inverse only for short batches.
ReverseIdxSame(idx) == idx

ReverseIdx(idx) == [j \in 1..Len(idx) |-> CHOOSE i \in 1..Len(idx) : idx[i] = j]

\* restore_dynamic_batch: values in the order of the micro-batches, put back.
RestoreDynamicBatch(values, idx) ==
    [i \in 1..Len(values) |-> values[ReverseIdx(idx)[i]]]

CeilDiv(a, b) == (a + b - 1) \div b
=============================================================================
