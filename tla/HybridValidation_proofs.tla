----------------------- MODULE HybridValidation_proofs -----------------------
(***************************************************************************)
(* First about LoadBalancer: type correctness, the accounting of the       *)
(* in-flight counters and the routes, for every pool, every set of         *)
(* conversations and every cache. Then about HybridValidation: it runs the *)
(* balancer as LoadBalancer specifies it, and the version labels of its    *)
(* responses are true, for any number of replicas, conversations and       *)
(* versions.                                                               *)
(***************************************************************************)
EXTENDS HybridValidation, FiniteSetTheorems, SequenceTheorems, TLAPS

Entries == [request : Requests, server : Servers]

\* Deleting a conversation's entry from the cache leaves a cache, which is
\* shorter when there was an entry.
LEMMA ForgottenType ==
    ASSUME NEW r \in Requests, routes \in Seq(Entries)
    PROVE  /\ Forgotten(r) \in Seq(Entries)
           /\ Len(Forgotten(r)) <= Len(routes)
<1>1. CASE ~Routed(r)
  BY <1>1, LenProperties DEF Forgotten
<1>2. CASE Routed(r)
  <2>1. Position(r) \in 1..Len(routes)
    BY <1>2 DEF Routed, Position
  <2> DEFINE p == Position(r)
             before == SubSeq(routes, 1, p - 1)
             after == SubSeq(routes, p + 1, Len(routes))
  <2>2. Len(routes) \in Nat
    BY LenProperties
  <2>3. \A i \in 1..Len(routes) : routes[i] \in Entries
    BY ElementOfSeq
  <2> HIDE DEF p
  <2>4. p \in 1..Len(routes)
    BY <2>1 DEF p
  <2>5. before \in Seq(Entries) /\ Len(before) = p - 1
    BY <2>2, <2>3, <2>4, SubSeqProperties
  <2>6. after \in Seq(Entries) /\ Len(after) = Len(routes) - p
    BY <2>2, <2>3, <2>4, SubSeqProperties
  <2>7. before \o after \in Seq(Entries)
        /\ Len(before \o after) = Len(routes) - 1
    <3> HIDE DEF before, after
    <3> QED BY <2>2, <2>4, <2>5, <2>6, ConcatProperties
  <2> QED BY <1>2, <2>2, <2>7 DEF Forgotten, p
<1> QED BY <1>1, <1>2

\* Remembering a route leaves a cache within its capacity.
LEMMA RememberedType ==
    ASSUME NEW r \in Requests, NEW s \in Servers, routes \in Seq(Entries),
           Len(routes) <= CacheSize
    PROVE  /\ Remembered(r, s) \in Seq(Entries)
           /\ Len(Remembered(r, s)) <= CacheSize
<1> DEFINE others == Forgotten(r)
           rest == IF Len(others) >= CacheSize THEN Tail(others) ELSE others
           entry == [request |-> r, server |-> s]
<1>1. others \in Seq(Entries) /\ Len(others) <= CacheSize
  BY ForgottenType, LenProperties, SizesAssumption
<1>2. Len(others) \in Nat
  BY <1>1, LenProperties
<1> HIDE DEF others
<1>3. rest \in Seq(Entries) /\ Len(rest) < CacheSize
  <2>1. CASE Len(others) >= CacheSize
    <3>1. others # <<>>
      BY <2>1, <1>2, SizesAssumption, EmptySeq
    <3> QED BY <2>1, <3>1, <1>1, <1>2, HeadTailProperties, SizesAssumption
  <2>2. CASE ~(Len(others) >= CacheSize)
    BY <2>2, <1>1, <1>2, SizesAssumption
  <2> QED BY <2>1, <2>2
<1>4. entry \in Entries
  BY DEF Entries
<1> HIDE DEF rest, entry
<1>5. Append(rest, entry) \in Seq(Entries) /\ Len(Append(rest, entry)) = Len(rest) + 1
  BY <1>3, <1>4, AppendProperties
<1>6. Len(rest) \in Nat
  BY <1>3, LenProperties
<1> QED BY <1>3, <1>5, <1>6, SizesAssumption DEF Remembered, others, rest, entry

\* A server acquire_server answers with is in the pool.
LEMMA ChoicesActive ==
    ASSUME NEW r \in Requests, NEW s \in Choices(r)
    PROVE  s \in active
BY DEF Choices, Sticky, LeastLoaded

-----------------------------------------------------------------------------
\* Every behaviour of the balancer and its callers is well typed.
THEOREM TypeCorrect == Spec => []TypeOK
<1>1. Init => TypeOK
  <2> SUFFICES ASSUME Init PROVE TypeOK
    OBVIOUS
  <2>1. routes \in Seq([request : Requests, server : Servers]) /\ Len(routes) <= CacheSize
    BY EmptySeq, SizesAssumption DEF Init
  <2> QED BY <2>1, ServersAssumption DEF Init, TypeOK
<1>2. TypeOK /\ [Next]_vars => TypeOK'
  <2> SUFFICES ASSUME TypeOK, [Next]_vars PROVE TypeOK'
    OBVIOUS
  <2> USE DEF TypeOK, balancer, clients
  <2>1. ASSUME NEW r \in Requests, NEW s \in Servers, Acquire(r, s) PROVE TypeOK'
    <3>1. s \in active
      BY <2>1, ChoicesActive DEF Acquire
    <3>2. routes' \in Seq([request : Requests, server : Servers])
          /\ Len(routes') <= CacheSize
      BY <2>1, RememberedType DEF Acquire, Entries
    <3>3. inflight' \in [Servers -> Nat] /\ turns' \in [Requests -> Nat]
      BY <2>1 DEF Acquire
    <3>4. since' \in [Requests -> SUBSET Requests]
      BY <2>1 DEF Acquire
    <3> QED BY <2>1, <3>1, <3>2, <3>3, <3>4 DEF Acquire
  <2>2. ASSUME NEW r \in Requests, Finish(r) PROVE TypeOK'
    BY <2>2 DEF Finish
  <2>3. ASSUME NEW r \in Requests, Release(r) PROVE TypeOK'
    BY <2>3 DEF Release
  <2>4. ASSUME NEW S \in SUBSET (Servers \ Standalone), AddServers(S) PROVE TypeOK'
    BY <2>4 DEF AddServers
  <2>5. ASSUME NEW S \in SUBSET (Servers \ Standalone), RemoveServers(S) PROVE TypeOK'
    BY <2>5 DEF RemoveServers
  <2>6. CASE UNCHANGED vars
    BY <2>6 DEF vars
  <2> QED BY <2>1, <2>2, <2>3, <2>4, <2>5, <2>6 DEF Next
<1> QED BY <1>1, <1>2, PTL DEF Spec

-----------------------------------------------------------------------------
\* The set of outstanding requests of a server is finite.
LEMMA OutstandingFinite ==
    \A s : IsFiniteSet(Outstanding(s)) /\ Cardinality(Outstanding(s)) \in Nat
BY RequestsAssumption, FS_Subset, FS_CardinalityType DEF Outstanding

\* The counters are bounded by what is outstanding, and exact for a server
\* that was not added again in the middle of it.
THEOREM CountersAccount == Spec => []InflightCounts
<1>1. Init => InflightCounts
  <2> SUFFICES ASSUME Init, NEW s \in active
               PROVE  inflight[s] = 0 /\ Outstanding(s) = {}
    BY FS_EmptySet DEF InflightCounts
  <2> QED BY ServersAssumption DEF Init, Outstanding
<1>2. TypeOK /\ InflightCounts /\ [Next]_vars => InflightCounts'
  <2> SUFFICES ASSUME TypeOK, InflightCounts, [Next]_vars, NEW s \in active'
               PROVE  /\ inflight'[s] <= Cardinality(Outstanding(s)')
                      /\ s \notin inexact' => inflight'[s] = Cardinality(Outstanding(s)')
    BY DEF InflightCounts
  <2>0. /\ IsFiniteSet(Outstanding(s))
        /\ Cardinality(Outstanding(s)) \in Nat
    BY OutstandingFinite
  <2>a. s \in active => /\ inflight[s] \in Nat
                        /\ inflight[s] <= Cardinality(Outstanding(s))
                        /\ s \notin inexact => inflight[s] = Cardinality(Outstanding(s))
    BY DEF InflightCounts, TypeOK
  <2>b. CASE UNCHANGED <<active, inflight, inexact>> /\ Outstanding(s)' = Outstanding(s)
    BY <2>a, <2>b
  <2>1. ASSUME NEW r \in Requests, NEW t \in Servers, Acquire(r, t)
        PROVE  /\ inflight'[s] <= Cardinality(Outstanding(s)')
               /\ s \notin inexact' => inflight'[s] = Cardinality(Outstanding(s)')
    <3>1. s \in active /\ inexact' = inexact /\ inflight' = [inflight EXCEPT ![t] = @ + 1]
      BY <2>1 DEF Acquire
    <3>2. CASE s = t
      <4>1. Outstanding(s)' = Outstanding(s) \cup {r} /\ r \notin Outstanding(s)
        BY <2>1, <3>2 DEF Acquire, Outstanding, TypeOK
      <4>2. Cardinality(Outstanding(s)') = Cardinality(Outstanding(s)) + 1
        BY <4>1, <2>0, FS_AddElement
      <4>3. inflight'[s] = inflight[s] + 1
        BY <3>1, <3>2 DEF TypeOK
      <4> QED BY <2>0, <2>a, <3>1, <4>2, <4>3
    <3>3. CASE s # t
      <4>1. Outstanding(s)' = Outstanding(s)
        BY <2>1, <3>3 DEF Acquire, Outstanding, TypeOK
      <4>2. inflight'[s] = inflight[s]
        BY <3>1, <3>3 DEF TypeOK
      <4> QED BY <2>a, <3>1, <4>1, <4>2
    <3> QED BY <3>2, <3>3
  <2>2. ASSUME NEW r \in Requests, Finish(r)
        PROVE  UNCHANGED <<active, inflight, inexact>> /\ Outstanding(s)' = Outstanding(s)
    BY <2>2 DEF Finish, balancer, Outstanding, TypeOK
  <2>3. ASSUME NEW r \in Requests, Release(r)
        PROVE  /\ inflight'[s] <= Cardinality(Outstanding(s)')
               /\ s \notin inexact' => inflight'[s] = Cardinality(Outstanding(s)')
    <3>1. s \in active /\ at' = at /\ phase[r] = "releasing"
      BY <2>3 DEF Release
    <3>2. CASE s = at[r]
      <4>1. Outstanding(s)' = Outstanding(s) \ {r} /\ r \in Outstanding(s)
        BY <2>3, <3>1, <3>2 DEF Release, Outstanding, TypeOK
      <4>2. /\ Cardinality(Outstanding(s)') = Cardinality(Outstanding(s)) - 1
            /\ Cardinality(Outstanding(s)) > 0
        BY <4>1, <2>0, FS_RemoveElement, FS_EmptySet
      <4>3. inflight'[s] = IF inflight[s] > 0 THEN inflight[s] - 1 ELSE inflight[s]
        BY <2>3, <3>1, <3>2 DEF Release, TypeOK
      <4>4. s \in inexact /\ s \notin inexact' => Cardinality(Outstanding(s)') = 0
        <5> SUFFICES ASSUME s \in inexact, s \notin inexact'
                     PROVE  Outstanding(s)' = {}
          BY FS_EmptySet
        <5> QED BY <2>3, <3>2, <4>1 DEF Release
      <4> QED BY <2>0, <2>a, <3>1, <3>2, <4>2, <4>3, <4>4, <2>3 DEF Release
    <3>3. CASE s # at[r]
      <4>1. Outstanding(s)' = Outstanding(s)
        BY <2>3, <3>3 DEF Release, Outstanding, TypeOK
      <4>2. inflight'[s] = inflight[s] /\ (s \in inexact <=> s \in inexact')
        BY <2>3, <3>3 DEF Release, TypeOK
      <4> QED BY <2>a, <3>1, <4>1, <4>2
    <3> QED BY <3>2, <3>3
  <2>4. ASSUME NEW S \in SUBSET (Servers \ Standalone), AddServers(S)
        PROVE  /\ inflight'[s] <= Cardinality(Outstanding(s)')
               /\ s \notin inexact' => inflight'[s] = Cardinality(Outstanding(s)')
    <3>1. Outstanding(s)' = Outstanding(s)
      BY <2>4 DEF AddServers, clients, Outstanding
    <3>2. CASE s \in S
      <4>1. inflight'[s] = 0
        BY <2>4, <3>2 DEF AddServers
      <4>2. s \notin inexact' => Cardinality(Outstanding(s)) = 0
        BY <2>4, <3>2, FS_EmptySet DEF AddServers
      <4> QED BY <2>0, <3>1, <4>1, <4>2
    <3>3. CASE s \notin S
      BY <2>4, <2>a, <3>1, <3>3 DEF AddServers, TypeOK
    <3> QED BY <3>2, <3>3
  <2>5. ASSUME NEW S \in SUBSET (Servers \ Standalone), RemoveServers(S)
        PROVE  /\ inflight'[s] <= Cardinality(Outstanding(s)')
               /\ s \notin inexact' => inflight'[s] = Cardinality(Outstanding(s)')
    <3>1. Outstanding(s)' = Outstanding(s)
      BY <2>5 DEF RemoveServers, clients, Outstanding
    <3>2. s \in active /\ s \notin S /\ inflight'[s] = inflight[s] /\ inexact' = inexact
      BY <2>5 DEF RemoveServers, TypeOK
    <3> QED BY <2>a, <3>1, <3>2
  <2>6. CASE UNCHANGED vars
    <3>1. UNCHANGED <<active, inflight, inexact>> /\ Outstanding(s)' = Outstanding(s)
      BY <2>6 DEF vars, balancer, clients, Outstanding
    <3> QED BY <2>b, <3>1
  <2> QED BY <2>b, <2>1, <2>2, <2>3, <2>4, <2>5, <2>6 DEF Next
<1> QED BY <1>1, <1>2, TypeCorrect, PTL DEF Spec

-----------------------------------------------------------------------------
\* Only acquire_server gives an idle conversation a server.
LEMMA AcquiresOnly ==
    ASSUME TypeOK, [Next]_vars, NEW r \in Requests, Acquires(r)
    PROVE  \E s \in Servers : Acquire(r, s)
<1>1. phase[r] = "idle" /\ phase'[r] = "held"
  BY DEF Acquires
<1>2. ASSUME NEW q \in Requests, NEW s \in Servers, Acquire(q, s)
      PROVE  q = r
  BY <1>1, <1>2 DEF Acquire, TypeOK
<1>3. ASSUME NEW q \in Requests, Finish(q) PROVE FALSE
  BY <1>1, <1>3 DEF Finish, TypeOK
<1>4. ASSUME NEW q \in Requests, Release(q) PROVE FALSE
  BY <1>1, <1>4 DEF Release, TypeOK
<1>5. ASSUME NEW S, AddServers(S) PROVE FALSE
  BY <1>1, <1>5 DEF AddServers, clients
<1>6. ASSUME NEW S, RemoveServers(S) PROVE FALSE
  BY <1>1, <1>6 DEF RemoveServers, clients
<1>7. CASE UNCHANGED vars
  BY <1>1, <1>7 DEF vars, clients
<1> QED BY <1>2, <1>3, <1>4, <1>5, <1>6, <1>7 DEF Next

\* A conversation without a live route gets a server of the pool with the
\* fewest requests outstanding, as long as every count is exact: the least count
\* is the least load.
THEOREM GetsLeastLoaded == Spec => FewestOutstanding
<1>1. ASSUME TypeOK, InflightCounts, [Next]_vars, NEW r \in Requests,
             Acquires(r), ~Sticky(r), inexact = {}
      PROVE  /\ at'[r] \in active
             /\ \A t \in active :
                   Cardinality(Outstanding(at'[r])) <= Cardinality(Outstanding(t))
  <2>1. PICK s \in Servers : Acquire(r, s)
    BY <1>1, AcquiresOnly
  <2>2. at'[r] = s /\ s \in LeastLoaded
    BY <1>1, <2>1 DEF Acquire, Choices, TypeOK
  <2>3. s \in active /\ \A t \in active : inflight[s] <= inflight[t]
    BY <2>2 DEF LeastLoaded
  <2>4. \A t \in active : inflight[t] = Cardinality(Outstanding(t))
    BY <1>1 DEF InflightCounts
  <2> QED BY <2>2, <2>3, <2>4
<1> DEFINE Fewest(r) ==
      Acquires(r) /\ ~Sticky(r) /\ inexact = {}
      => /\ at'[r] \in active
         /\ \A t \in active :
               Cardinality(Outstanding(at'[r])) <= Cardinality(Outstanding(t))
<1>2. TypeOK /\ InflightCounts /\ [Next]_vars => [\A r \in Requests : Fewest(r)]_vars
  BY <1>1
<1> QED BY <1>2, TypeCorrect, CountersAccount, PTL DEF Spec, FewestOutstanding

-----------------------------------------------------------------------------
\* A cache names a conversation once.
Distinct(q) ==
    \A i \in 1..Len(q), j \in 1..Len(q) : q[i].request = q[j].request => i = j

\* A cache sends r to s, and all entries used after that one are of S.
Recalls(q, r, s, S) ==
    \E i \in 1..Len(q) :
       /\ q[i].request = r /\ q[i].server = s
       /\ \A j \in 1..Len(q) : i < j => q[j].request \in S

\* The cache without r's entry has the other entries in their order.
LEMMA ForgottenEntries ==
    ASSUME NEW r \in Requests, routes \in Seq(Entries), Routed(r)
    PROVE  /\ Position(r) \in 1..Len(routes) /\ routes[Position(r)].request = r
           /\ Len(Forgotten(r)) = Len(routes) - 1
           /\ \A i \in 1..Len(Forgotten(r)) :
                 Forgotten(r)[i] = IF i < Position(r) THEN routes[i] ELSE routes[i + 1]
<1> DEFINE p == Position(r)
           before == SubSeq(routes, 1, p - 1)
           after == SubSeq(routes, p + 1, Len(routes))
<1>1. p \in 1..Len(routes) /\ routes[p].request = r
  BY DEF Routed, Position
<1>2. Len(routes) \in Nat /\ \A i \in 1..Len(routes) : routes[i] \in Entries
  BY LenProperties, ElementOfSeq
<1>3. Forgotten(r) = before \o after
  BY DEF Forgotten
<1> HIDE DEF p
<1>4. /\ before \in Seq(Entries) /\ Len(before) = p - 1
      /\ \A i \in 1..(p - 1) : before[i] = routes[i]
  BY <1>1, <1>2, SubSeqProperties
<1>5. /\ after \in Seq(Entries) /\ Len(after) = Len(routes) - p
      /\ \A i \in 1..(Len(routes) - p) : after[i] = routes[p + i]
  <2>1. /\ after \in Seq(Entries) /\ Len(after) = Len(routes) - p
        /\ \A i \in 1..(Len(routes) - p) : after[i] = routes[(p + 1) + i - 1]
    BY <1>1, <1>2, SubSeqProperties
  <2> HIDE DEF after
  <2> QED BY <2>1, <1>1, <1>2
<1> HIDE DEF before, after
<1>6. /\ Len(before \o after) = Len(before) + Len(after)
      /\ \A i \in 1..(Len(before) + Len(after)) :
            (before \o after)[i] = IF i <= Len(before) THEN before[i]
                                   ELSE after[i - Len(before)]
  BY <1>4, <1>5, ConcatProperties
<1>7. ASSUME NEW i \in 1..(Len(routes) - 1)
      PROVE  (before \o after)[i] = IF i < p THEN routes[i] ELSE routes[i + 1]
  <2>1. (before \o after)[i] = IF i <= p - 1 THEN before[i] ELSE after[i - (p - 1)]
    BY <1>1, <1>2, <1>4, <1>5, <1>6
  <2>2. CASE i < p
    BY <2>1, <2>2, <1>1, <1>2, <1>4
  <2>3. CASE ~(i < p)
    <3>1. i - (p - 1) \in 1..(Len(routes) - p) /\ p + (i - (p - 1)) = i + 1
      BY <2>3, <1>1, <1>2
    <3>2. after[i - (p - 1)] = routes[i + 1]
      BY <3>1, <1>5
    <3> QED BY <2>1, <2>3, <3>2, <1>1, <1>2
  <2> QED BY <2>2, <2>3
<1>8. Len(Forgotten(r)) = Len(routes) - 1
  BY <1>1, <1>2, <1>3, <1>4, <1>5, <1>6
<1> QED BY <1>1, <1>3, <1>7, <1>8 DEF p

\* Without q's entry the cache still names a conversation once, names q not at
\* all, and recalls of any other conversation what it did.
LEMMA ForgottenKeeps ==
    ASSUME NEW q \in Requests, routes \in Seq(Entries), Distinct(routes)
    PROVE  /\ Distinct(Forgotten(q))
           /\ \A i \in 1..Len(Forgotten(q)) : Forgotten(q)[i].request # q
           /\ \A r \in Requests \ {q} : \A s, S :
                 Recalls(routes, r, s, S) => Recalls(Forgotten(q), r, s, S)
<1>1. CASE ~Routed(q)
  BY <1>1 DEF Forgotten, Routed
<1>2. CASE Routed(q)
  <2> DEFINE p == Position(q)
             o == Forgotten(q)
             n == Len(routes)
  <2>1. /\ p \in 1..n /\ routes[p].request = q /\ Len(o) = n - 1 /\ n \in Nat
        /\ \A i \in 1..Len(o) : o[i] = IF i < p THEN routes[i] ELSE routes[i + 1]
    BY <1>2, ForgottenEntries, LenProperties
  <2>2. \A i \in 1..n, j \in 1..n : routes[i].request = routes[j].request => i = j
    BY DEF Distinct
  <2> HIDE DEF p, o
  <2>3. Distinct(o)
    <3> SUFFICES ASSUME NEW i \in 1..Len(o), NEW j \in 1..Len(o),
                        o[i].request = o[j].request
                 PROVE  i = j
      BY DEF Distinct
    <3> DEFINE a == IF i < p THEN i ELSE i + 1
               b == IF j < p THEN j ELSE j + 1
    <3>1. a \in 1..n /\ b \in 1..n /\ o[i] = routes[a] /\ o[j] = routes[b]
      BY <2>1
    <3>2. a = b
      <4> HIDE DEF a, b
      <4> QED BY <2>2, <3>1
    <3> QED BY <3>2, <2>1
  <2>4. ASSUME NEW i \in 1..Len(o) PROVE o[i].request # q
    <3> DEFINE a == IF i < p THEN i ELSE i + 1
    <3>1. a \in 1..n /\ a # p /\ o[i] = routes[a]
      BY <2>1
    <3> HIDE DEF a
    <3> QED BY <2>1, <2>2, <3>1
  <2>5. ASSUME NEW r \in Requests \ {q}, NEW s, NEW S, Recalls(routes, r, s, S)
        PROVE  Recalls(o, r, s, S)
    <3>1. PICK k \in 1..n : /\ routes[k].request = r /\ routes[k].server = s
                            /\ \A j \in 1..n : k < j => routes[j].request \in S
      BY <2>5 DEF Recalls
    <3> DEFINE i == IF k < p THEN k ELSE k - 1
    <3>2. k # p
      BY <2>1, <3>1
    <3>3. i \in 1..Len(o) /\ o[i] = routes[k]
      <4>1. CASE k < p
        BY <2>1, <3>1, <4>1
      <4>2. CASE ~(k < p)
        <5>1. k - 1 \in 1..Len(o) /\ ~(k - 1 < p) /\ (k - 1) + 1 = k
          BY <2>1, <3>1, <3>2, <4>2
        <5>2. o[k - 1] = routes[k]
          BY <2>1, <5>1
        <5> QED BY <4>2, <5>1, <5>2
      <4> QED BY <4>1, <4>2
    <3>4. ASSUME NEW j \in 1..Len(o), i < j PROVE o[j].request \in S
      <4> DEFINE b == IF j < p THEN j ELSE j + 1
      <4>1. b \in 1..n /\ k < b /\ o[j] = routes[b]
        BY <2>1, <3>1, <3>2, <3>4
      <4> HIDE DEF b
      <4> QED BY <3>1, <4>1
    <3> HIDE DEF i
    <3> QED BY <3>1, <3>3, <3>4 DEF Recalls
  <2> QED BY <2>3, <2>4, <2>5 DEF o
<1> QED BY <1>1, <1>2

\* As many conversations as a cache has entries, if they differ, are as many.
LEMMA DistinctMany ==
    ASSUME NEW c \in Seq(Entries), Distinct(c), NEW S, IsFiniteSet(S),
           NEW m \in Nat, m <= Len(c),
           \A i \in 1..Len(c) : Len(c) - m < i => c[i].request \in S
    PROVE  m <= Cardinality(S)
<1> DEFINE n == Len(c)
           names == [i \in 1..m |-> c[n - m + i].request]
<1>1. n \in Nat
  BY LenProperties
<1>2. \A i \in 1..m : n - m + i \in 1..n /\ n - m < n - m + i
  BY <1>1
<1>3. names \in [1..m -> S]
  BY <1>2
<1>4. \A i \in 1..m, j \in 1..m : names[i] = names[j] => i = j
  <2> SUFFICES ASSUME NEW i \in 1..m, NEW j \in 1..m, names[i] = names[j]
               PROVE  i = j
    OBVIOUS
  <2>1. c[n - m + i].request = c[n - m + j].request
    OBVIOUS
  <2>2. n - m + i = n - m + j
    <3> DEFINE a == n - m + i
               b == n - m + j
    <3>1. a \in 1..n /\ b \in 1..n /\ c[a].request = c[b].request
      BY <1>2, <2>1
    <3> HIDE DEF a, b
    <3>2. a = b
      BY <3>1 DEF Distinct
    <3> QED BY <3>2 DEF a, b
  <2> QED BY <2>2, <1>1
<1>5. names \in Injection(1..m, S)
  BY <1>3, <1>4 DEF Injection, IsInjective
<1>6. IsFiniteSet(1..m) /\ Cardinality(1..m) = m
  BY FS_Interval
<1>7. Cardinality(1..m) <= Cardinality(S)
  BY <1>5, FS_Injection
<1> QED BY <1>6, <1>7

\* Remembering q's server makes it the entry used last. Any other conversation is
\* recalled as before, with q after it, or as many conversations as the cache has
\* entries were used since.
LEMMA RememberedKeeps ==
    ASSUME NEW q \in Requests, NEW t \in Servers, routes \in Seq(Entries),
           Len(routes) <= CacheSize, Distinct(routes)
    PROVE  /\ Distinct(Remembered(q, t))
           /\ Recalls(Remembered(q, t), q, t, {})
           /\ \A r \in Requests \ {q}, s \in Servers, S \in SUBSET Requests :
                 Recalls(routes, r, s, S) =>
                    \/ Recalls(Remembered(q, t), r, s, S \cup {q})
                    \/ CacheSize <= Cardinality(S \cup {q})
<1> DEFINE o == Forgotten(q)
           full == Len(o) >= CacheSize
           rest == IF full THEN Tail(o) ELSE o
           entry == [request |-> q, server |-> t]
           new == Append(rest, entry)
           d == IF full THEN 1 ELSE 0
           n == Len(o)
<1>1. new = Remembered(q, t)
  BY DEF Remembered
<1>2. /\ o \in Seq(Entries) /\ n \in Nat /\ n <= CacheSize
      /\ Distinct(o) /\ \A i \in 1..n : o[i].request # q
      /\ \A r \in Requests \ {q} : \A s, S : Recalls(routes, r, s, S) => Recalls(o, r, s, S)
  <2>1. o \in Seq(Entries) /\ n <= Len(routes)
    BY ForgottenType
  <2>2. n \in Nat /\ Len(routes) \in Nat
    BY <2>1, LenProperties
  <2> QED BY <2>1, <2>2, ForgottenKeeps, SizesAssumption
<1>3. entry \in Entries /\ entry.request = q /\ entry.server = t
  BY DEF Entries
<1>4. new \in Seq(Entries) /\ Len(new) <= CacheSize
  <2>1. Remembered(q, t) \in Seq(Entries) /\ Len(Remembered(q, t)) <= CacheSize
    BY RememberedType
  <2> HIDE DEF new
  <2> QED BY <2>1, <1>1
<1> HIDE DEF o, entry
<1>5. /\ rest \in Seq(Entries) /\ Len(rest) = n - d
      /\ \A i \in 1..(n - d) : rest[i] = o[i + d]
  <2>1. CASE full
    <3>1. o # <<>>
      BY <2>1, <1>2, EmptySeq, SizesAssumption
    <3>2. /\ Tail(o) \in Seq(Entries) /\ Len(Tail(o)) = Len(o) - 1
          /\ \A i \in 1..Len(Tail(o)) : Tail(o)[i] = o[i + 1]
      BY <3>1, <1>2, HeadTailProperties
    <3> QED BY <2>1, <3>2, <1>2
  <2>2. CASE ~full
    BY <2>2, <1>2
  <2> QED BY <2>1, <2>2
<1>6. d \in {0, 1} /\ d <= n /\ (d = 1 <=> n = CacheSize)
  BY <1>2, SizesAssumption
<1> HIDE DEF rest, d
<1>7. /\ Len(new) = n - d + 1
      /\ \A i \in 1..(n - d) : new[i] = o[i + d]
      /\ new[n - d + 1] = entry
  <2>1. /\ Len(Append(rest, entry)) = Len(rest) + 1
        /\ \A i \in 1..Len(rest) : Append(rest, entry)[i] = rest[i]
        /\ Append(rest, entry)[Len(rest) + 1] = entry
    BY <1>3, <1>5, AppendProperties
  <2>2. Append(rest, entry)[n - d + 1] = entry
    BY <2>1, <1>5
  <2> HIDE DEF rest
  <2>3. \A i \in 1..(n - d) : Append(rest, entry)[i] = o[i + d]
    BY <2>1, <1>5
  <2> QED BY <2>1, <2>2, <2>3, <1>5
<1> HIDE DEF new, full, n
<1>8. Distinct(new)
  <2> SUFFICES ASSUME NEW i \in 1..Len(new), NEW j \in 1..Len(new),
                      new[i].request = new[j].request
               PROVE  i = j
    BY DEF Distinct
  <2>1. \A k \in 1..(n - d) : k + d \in 1..n
    BY <1>2, <1>6
  <2>2. CASE i \in 1..(n - d) /\ j \in 1..(n - d)
    <3>1. o[i + d].request = o[j + d].request
      BY <2>2, <1>7
    <3>2. i + d = j + d
      <4> DEFINE a == i + d
                 b == j + d
      <4>1. a \in 1..n /\ b \in 1..n /\ o[a].request = o[b].request
        BY <2>1, <2>2, <3>1
      <4> HIDE DEF a, b
      <4>2. a = b
        BY <4>1, <1>2 DEF Distinct, n
      <4> QED BY <4>2 DEF a, b
    <3> QED BY <2>2, <3>2, <1>6, <1>2
  <2>3. CASE i = n - d + 1 /\ j = n - d + 1
    BY <2>3
  <2>4. CASE i \in 1..(n - d) /\ j = n - d + 1
    <3>1. new[i].request = q
      BY <2>4, <1>3, <1>7
    <3>2. o[i + d].request = q /\ i + d \in 1..n
      BY <2>1, <2>4, <3>1, <1>7
    <3> QED BY <3>2, <1>2
  <2>5. CASE i = n - d + 1 /\ j \in 1..(n - d)
    <3>1. new[j].request = q
      BY <2>5, <1>3, <1>7
    <3>2. o[j + d].request = q /\ j + d \in 1..n
      BY <2>1, <2>5, <3>1, <1>7
    <3> QED BY <3>2, <1>2
  <2>6. /\ i \in 1..(n - d) \/ i = n - d + 1
        /\ j \in 1..(n - d) \/ j = n - d + 1
    BY <1>2, <1>6, <1>7
  <2> QED BY <2>2, <2>3, <2>4, <2>5, <2>6
<1>9. Recalls(new, q, t, {})
  <2>1. n - d + 1 \in 1..Len(new) /\ ~\E j \in 1..Len(new) : n - d + 1 < j
    BY <1>2, <1>6, <1>7
  <2> QED BY <2>1, <1>3, <1>7 DEF Recalls
<1>10. ASSUME NEW r \in Requests \ {q}, NEW s \in Servers, NEW S \in SUBSET Requests,
              Recalls(routes, r, s, S)
       PROVE  Recalls(new, r, s, S \cup {q}) \/ CacheSize <= Cardinality(S \cup {q})
  <2>1. Recalls(o, r, s, S)
    BY <1>2, <1>10
  <2>2. PICK k \in 1..n : /\ o[k].request = r /\ o[k].server = s
                          /\ \A j \in 1..n : k < j => o[j].request \in S
    BY <2>1 DEF Recalls, n
  <2>3. ASSUME NEW j \in 1..Len(new), k < j + d PROVE new[j].request \in S \cup {q}
    <3>1. CASE j \in 1..(n - d)
      <4>1. j + d \in 1..n /\ new[j] = o[j + d]
        BY <3>1, <1>2, <1>6, <1>7
      <4> QED BY <4>1, <2>2, <2>3
    <3>2. CASE j = n - d + 1
      BY <3>2, <1>3, <1>7
    <3> QED BY <3>1, <3>2, <1>2, <1>6, <1>7
  <2>4. CASE d < k
    <3> DEFINE i == k - d
    <3>1. i \in 1..(n - d) /\ i + d = k /\ i \in 1..Len(new)
      BY <2>4, <1>2, <1>6, <1>7
    <3>2. new[i] = o[k]
      <4> HIDE DEF i
      <4> QED BY <3>1, <1>7
    <3>3. \A j \in 1..Len(new) : i < j => new[j].request \in S \cup {q}
      BY <2>3, <1>2, <1>6, <1>7
    <3> HIDE DEF i
    <3> QED BY <3>1, <3>2, <3>3, <2>2 DEF Recalls
  <2>5. CASE ~(d < k)
    <3>1. d = 1 /\ k = 1 /\ Len(new) = CacheSize
      BY <2>5, <1>2, <1>6, <1>7
    <3>2. \A j \in 1..Len(new) : new[j].request \in S \cup {q}
      BY <2>3, <3>1
    <3>3. IsFiniteSet(S \cup {q})
      BY RequestsAssumption, FS_Subset
    <3>4. CacheSize \in Nat /\ CacheSize <= Len(new)
      BY <3>1, SizesAssumption
    <3>5. CacheSize <= Cardinality(S \cup {q})
      <4> DEFINE T == S \cup {q}
      <4>1. /\ IsFiniteSet(T)
            /\ \A j \in 1..Len(new) : Len(new) - CacheSize < j => new[j].request \in T
        BY <3>2, <3>3
      <4> HIDE DEF T
      <4>2. CacheSize <= Cardinality(T)
        BY <4>1, <3>4, <1>4, <1>8, DistinctMany
      <4> QED BY <4>2 DEF T
    <3> QED BY <3>5
  <2> QED BY <2>4, <2>5
<1> QED BY <1>1, <1>8, <1>9, <1>10

-----------------------------------------------------------------------------
\* What the cache knows of a conversation that has acquired: the server it had
\* last, with only those behind it that acquired since; unless these are as many
\* as the cache has entries.
Remembers(r) ==
    turns[r] > 0 => \/ Recalls(routes, r, at[r], since[r])
                    \/ CacheSize <= Cardinality(since[r])
CacheKnows == Distinct(routes) /\ \A r \in Requests : Remembers(r)

\* A larger set of conversations after an entry recalls it as well.
LEMMA CardinalityGrows ==
    ASSUME NEW S \in SUBSET Requests, NEW q \in Requests
    PROVE  Cardinality(S) <= Cardinality(S \cup {q})
<1>1. IsFiniteSet(S \cup {q})
  BY RequestsAssumption, FS_Subset
<1> QED BY <1>1, FS_Subset

\* The cache knows, in every behaviour.
LEMMA CacheInvariant == Spec => []CacheKnows
<1>1. Init => CacheKnows
  <2> SUFFICES ASSUME Init PROVE CacheKnows
    OBVIOUS
  <2>1. Len(routes) = 0 /\ \A r \in Requests : turns[r] = 0
    BY EmptySeq DEF Init
  <2> QED BY <2>1 DEF CacheKnows, Distinct, Remembers
<1>2. TypeOK /\ CacheKnows /\ [Next]_vars => CacheKnows'
  <2> SUFFICES ASSUME TypeOK, CacheKnows, [Next]_vars PROVE CacheKnows'
    OBVIOUS
  <2>1. ASSUME NEW q \in Requests, NEW t \in Servers, Acquire(q, t) PROVE CacheKnows'
    <3>1. /\ routes \in Seq(Entries) /\ Len(routes) <= CacheSize /\ Distinct(routes)
          /\ routes' = Remembered(q, t)
      BY <2>1 DEF Acquire, TypeOK, Entries, CacheKnows
    <3>2. /\ Distinct(routes') /\ Recalls(routes', q, t, {})
          /\ \A r \in Requests \ {q}, s \in Servers, S \in SUBSET Requests :
                Recalls(routes, r, s, S) =>
                   \/ Recalls(routes', r, s, S \cup {q})
                   \/ CacheSize <= Cardinality(S \cup {q})
      BY <3>1, RememberedKeeps
    <3>3. at'[q] = t /\ since'[q] = {}
      BY <2>1 DEF Acquire, TypeOK
    <3>4. ASSUME NEW r \in Requests \ {q}, turns'[r] > 0
          PROVE  \/ Recalls(routes', r, at'[r], since'[r])
                 \/ CacheSize <= Cardinality(since'[r])
      <4>1. /\ at'[r] = at[r] /\ turns[r] > 0 /\ since'[r] = since[r] \cup {q}
            /\ at[r] \in Servers /\ since[r] \in SUBSET Requests
        BY <2>1, <3>4 DEF Acquire, TypeOK
      <4>2. CASE Recalls(routes, r, at[r], since[r])
        BY <3>2, <4>1, <4>2
      <4>3. CASE CacheSize <= Cardinality(since[r])
        <5>1. Cardinality(since[r]) <= Cardinality(since[r] \cup {q})
          BY <4>1, CardinalityGrows
        <5>2. /\ Cardinality(since[r]) \in Nat /\ Cardinality(since[r] \cup {q}) \in Nat
              /\ CacheSize \in Nat
          BY <4>1, RequestsAssumption, FS_Subset, FS_CardinalityType, SizesAssumption
        <5> QED BY <4>1, <4>3, <5>1, <5>2
      <4> QED BY <4>1, <4>2, <4>3 DEF CacheKnows, Remembers
    <3> QED BY <3>2, <3>3, <3>4 DEF CacheKnows, Remembers
  <2>2. ASSUME UNCHANGED <<routes, at, turns, since>> PROVE CacheKnows'
    BY <2>2 DEF CacheKnows, Remembers
  <2>3. ASSUME NEW r \in Requests, Finish(r) \/ Release(r)
        PROVE  UNCHANGED <<routes, at, turns, since>>
    BY <2>3 DEF Finish, Release, balancer
  <2>4. ASSUME NEW S, AddServers(S) \/ RemoveServers(S)
        PROVE  UNCHANGED <<routes, at, turns, since>>
    BY <2>4 DEF AddServers, RemoveServers, clients
  <2>5. CASE UNCHANGED vars
    BY <2>2, <2>5 DEF vars, balancer, clients
  <2> QED BY <2>1, <2>2, <2>3, <2>4, <2>5 DEF Next
<1> QED BY <1>1, <1>2, TypeCorrect, PTL DEF Spec

\* A conversation returns to the server of its last turn as long as that is in
\* the pool and fewer conversations than the cache has entries acquired since.
THEOREM SessionsStick == Spec => StickySession
<1>1. ASSUME TypeOK, CacheKnows, [Next]_vars, NEW r \in Requests, Acquires(r),
             at[r] \in active, Cardinality(since[r]) < CacheSize, turns[r] > 0
      PROVE  at'[r] = at[r]
  <2>1. PICK s \in Servers : Acquire(r, s)
    BY <1>1, AcquiresOnly
  <2>2. Cardinality(since[r]) \in Nat /\ CacheSize \in Nat
    BY <1>1, RequestsAssumption, FS_Subset, FS_CardinalityType, SizesAssumption DEF TypeOK
  <2>3. Recalls(routes, r, at[r], since[r])
    BY <1>1, <2>2 DEF CacheKnows, Remembers
  <2>4. PICK k \in 1..Len(routes) : routes[k].request = r /\ routes[k].server = at[r]
    BY <2>3 DEF Recalls
  <2>5. Routed(r) /\ RouteOf(r) = at[r]
    <3>1. Routed(r) /\ Position(r) \in 1..Len(routes) /\ routes[Position(r)].request = r
      BY <2>4 DEF Routed, Position
    <3>2. Position(r) = k
      BY <1>1, <2>4, <3>1 DEF CacheKnows, Distinct
    <3> QED BY <2>4, <3>1, <3>2 DEF RouteOf
  <2>6. s = at[r]
    BY <1>1, <2>1, <2>5 DEF Acquire, Choices, Sticky
  <2> QED BY <2>1, <2>6, <1>1 DEF Acquire, TypeOK
<1> DEFINE Returns(r) ==
      Acquires(r) /\ at[r] \in active /\ Cardinality(since[r]) < CacheSize /\ turns[r] > 0
      => at'[r] = at[r]
<1>2. TypeOK /\ CacheKnows /\ [Next]_vars => [\A r \in Requests : Returns(r)]_vars
  BY <1>1
<1> QED BY <1>2, TypeCorrect, CacheInvariant, PTL DEF Spec, StickySession

-----------------------------------------------------------------------------
(* The composition.                                                         *)

\* The composition does with the pool and its counts only what the balancer and
\* its callers do, so that what is proved of them holds here.
THEOREM Composes == HSpec => Spec
<1>1. HInit => Init
  BY DEF HInit
<1>2. [HNext]_hvars => [Next]_vars
  <2> SUFFICES ASSUME [HNext]_hvars PROVE [Next]_vars
    OBVIOUS
  <2>1. ASSUME NEW r \in Requests, NEW s \in Servers, Ask(r, s) PROVE Next
    BY <2>1 DEF Ask, Next
  <2>2. ASSUME NEW r \in Requests, Complete(r) \/ Fail(r) \/ MergeAborted(r)
        PROVE  Next
    BY <2>2 DEF Complete, Fail, MergeAborted, Next
  <2>3. ASSUME NEW r \in Requests, Release(r) PROVE Next
    BY <2>3 DEF Next
  <2>4. ASSUME NEW r \in Requests, Start(r) \/ Produce(r) PROVE UNCHANGED vars
    BY <2>4 DEF Start, Produce
  <2>5. ASSUME NEW s \in Servers, Replica(s) PROVE UNCHANGED vars
    BY <2>5 DEF Replica, AbortReplica, ResumeReplica, PushReplica, WakeReplica, SleepReplica
  <2>6. CASE TrainStep \/ Validated \/ Gathered
    BY <2>6 DEF TrainStep, Validated, Gathered
  <2>7. CASE AddReplicas \/ RemoveReplicas
    <3>1. Hybrid \in SUBSET (Servers \ Standalone)
      BY DEF Hybrid
    <3> QED BY <2>7, <3>1 DEF AddReplicas, RemoveReplicas, Next
  <2>8. CASE UNCHANGED hvars
    BY <2>8 DEF hvars
  <2> QED BY <2>1, <2>2, <2>3, <2>4, <2>5, <2>6, <2>7, <2>8 DEF HNext, Client, Trainer
<1> QED BY <1>1, <1>2, PTL DEF HSpec, Spec

-----------------------------------------------------------------------------
\* The engines as the trainer has left them, read off its position.
PausedNow(s) ==
    IF s \in Standalone
      THEN \/ pc \in {3, 7, 8, 13, 14, 15}
           \/ pc \in {2, 6, 12} /\ s \in done
           \/ pc \in {4, 9, 16} /\ s \notin done
      ELSE \/ pc \in {8, 9, 14, 15, 16}
           \/ pc \in {7, 13} /\ s \in done
           \/ pc \in {10, 17} /\ s \notin done
AsleepNow(s) ==
    /\ s \notin Standalone
    /\ \/ pc \in {1, 2, 3, 4, 16, 17}
       \/ pc = 5 /\ s \notin done
       \/ pc = 15 /\ s \in done
ActiveNow(s) == s \in Standalone \/ pc \in 9..14

\* Standalone replicas are one version behind between the update and the push;
\* hybrid ones are never ahead of them.
ServedNow(s) ==
    IF s \in Standalone
      THEN IF pc = 2 \/ (pc = 3 /\ s \notin done)
             THEN served[s] = version - 1 ELSE served[s] = version
      ELSE /\ served[s] <= version
           /\ pc \in {2, 3} => served[s] <= version - 1
           /\ pc > 5 \/ (pc = 5 /\ s \in done) => served[s] = version

Placed ==
    \A s \in Servers : /\ s \in paused <=> PausedNow(s)
                       /\ s \in asleep <=> AsleepNow(s)
                       /\ s \in active <=> ActiveNow(s)
                       /\ ServedNow(s)

Calls == {"none", "sent", "running", "producing", "aborting", "aborted",
          "completed", "failed"}

Typed ==
    /\ pc \in 1..17 /\ done \subseteq Steps[pc].on
    /\ version \in Nat
    /\ asleep \subseteq Servers /\ paused \subseteq Servers
    /\ served \in [Servers -> Nat]
    /\ call \in [Requests -> Calls]
    /\ made \in [Requests -> SUBSET (Nat \cup {None})]
    /\ oldest \in [Requests -> Nat \cup {None}]
    /\ newest \in [Requests -> Nat \cup {None}]

InFlight(r) == call[r] \in {"sent", "running", "producing"}
InEngine(r) == call[r] \in {"running", "producing"}
Tokens(r) == made[r] \ {None}

\* No call runs in a paused engine, and one that is at a server outside the pool
\* is late.
Running(r) ==
    /\ InEngine(r) => at[r] \notin paused
    /\ InFlight(r) /\ at[r] \notin active => r \in late
    /\ None \in made[r] => r \in late

\* The tokens and labels of a response are of versions that all standalone
\* servers have reached, and its server too. Its first label, once there is one,
\* is not above a token; before, its tokens are all of the version being served.
Spanned(r) ==
    /\ \A v \in Tokens(r) \cup ({oldest[r]} \ {None}) :
          /\ \A s \in Standalone : v <= served[s]
          /\ InFlight(r) => v <= served[at[r]]
    /\ call[r] # "failed" /\ oldest[r] # None => \A v \in Tokens(r) : oldest[r] <= v
    /\ call[r] # "failed" /\ oldest[r] = None /\ Tokens(r) # {} =>
          /\ call[r] = "producing" /\ at[r] \notin asleep
          /\ Tokens(r) = {served[at[r]]}

Finished(r) ==
    call[r] = "completed" => \A v \in Tokens(r) : oldest[r] <= v /\ v <= newest[r]

\* Validation generates only at its place, where nothing is aborted.
Validating(r) ==
    r \in Validation =>
       /\ call[r] \notin {"aborting", "aborted"}
       /\ InFlight(r) => pc = 11 /\ at[r] \in active /\ made[r] \subseteq {version}
       /\ call[r] = "completed" => made[r] \subseteq {newest[r]}

Conversation(r) == Running(r) /\ Spanned(r) /\ Finished(r) /\ Validating(r)
HInv == Typed /\ Placed /\ \A r \in Requests : Conversation(r)

-----------------------------------------------------------------------------
\* What the trainer does at each position, on whom, and where it goes next.
LEMMA Positions ==
    ASSUME pc \in 1..17
    PROVE  /\ Does("train") <=> pc = 1
           /\ Does("abort") <=> pc \in {2, 6, 7, 12, 13}
           /\ Does("push") <=> pc = 3
           /\ Does("resume") <=> pc \in {4, 9, 10, 16, 17}
           /\ Does("wake") <=> pc = 5
           /\ Does("add") <=> pc = 8
           /\ Does("validate") <=> pc = 11
           /\ Does("remove") <=> pc = 14
           /\ Does("sleep") <=> pc = 15
           /\ Steps[pc].on = IF pc \in {1, 8, 11, 14} THEN {}
                             ELSE IF pc \in {2, 3, 4, 6, 9, 12, 16} THEN Standalone
                             ELSE Hybrid
           /\ Following = IF pc = 17 THEN 1 ELSE pc + 1
           /\ Steps[Following].op = "wake" <=> pc = 4
<1>1. Len(Steps) = 17
  BY DEF Steps
<1>2. Following = IF pc = 17 THEN 1 ELSE pc + 1
  BY <1>1 DEF Following
<1>3. /\ Steps[1] = [op |-> "train", on |-> {}]
      /\ Steps[2] = [op |-> "abort", on |-> Standalone]
      /\ Steps[3] = [op |-> "push", on |-> Standalone]
      /\ Steps[4] = [op |-> "resume", on |-> Standalone]
      /\ Steps[5] = [op |-> "wake", on |-> Hybrid]
      /\ Steps[6] = [op |-> "abort", on |-> Standalone]
      /\ Steps[7] = [op |-> "abort", on |-> Hybrid]
      /\ Steps[8] = [op |-> "add", on |-> {}]
      /\ Steps[9] = [op |-> "resume", on |-> Standalone]
  BY DEF Steps
<1>4. /\ Steps[10] = [op |-> "resume", on |-> Hybrid]
      /\ Steps[11] = [op |-> "validate", on |-> {}]
      /\ Steps[12] = [op |-> "abort", on |-> Standalone]
      /\ Steps[13] = [op |-> "abort", on |-> Hybrid]
      /\ Steps[14] = [op |-> "remove", on |-> {}]
      /\ Steps[15] = [op |-> "sleep", on |-> Hybrid]
      /\ Steps[16] = [op |-> "resume", on |-> Standalone]
      /\ Steps[17] = [op |-> "resume", on |-> Hybrid]
  BY DEF Steps
<1>5. pc \in 1..9 \/ pc \in 10..17
  OBVIOUS
<1>6. CASE pc \in 1..9
  BY <1>2, <1>3, <1>4, <1>6 DEF Does
<1>7. CASE pc \in 10..17
  BY <1>2, <1>3, <1>4, <1>7 DEF Does
<1> QED BY <1>5, <1>6, <1>7

\* The initial state satisfies the invariant.
LEMMA HInitially == HInit => HInv
<1> SUFFICES ASSUME HInit PROVE HInv
  OBVIOUS
<1>1. Typed
  BY DEF HInit, Typed, Calls, Hybrid
<1>2. Placed
  BY ServersAssumption DEF HInit, Init, Placed, PausedNow, AsleepNow, ActiveNow, ServedNow,
     Hybrid
<1>3. ASSUME NEW r \in Requests PROVE Conversation(r)
  BY <1>3 DEF HInit, Conversation, Running, Spanned, Finished, Validating, InFlight, InEngine,
     Tokens
<1> QED BY <1>1, <1>2, <1>3 DEF HInv

\* The server of a call that runs is not ahead of any standalone server.
LEMMA NotAhead ==
    ASSUME Typed, Placed, NEW a \in Servers, a \notin paused, NEW s \in Standalone
    PROVE  served[a] <= served[s]
<1>1. s \in Servers /\ served[a] \in Nat /\ served[s] \in Nat
  BY ServersAssumption DEF Typed
<1> QED BY <1>1 DEF Typed, Placed, PausedNow, ServedNow

\* A replica's answer is one of those gathered.
LEMMA AnswerProperties ==
    ASSUME Typed, NEW s \in Servers, Answers(s)
    PROVE  /\ s \in Steps[pc].on /\ s \notin done /\ done' = done \cup {s}
           /\ pc' = pc /\ version' = version /\ done' \subseteq Steps[pc'].on
BY DEF Answers, Typed

\* The actions of a conversation leave the trainer and the engines alone.
LEMMA ConversationFrame ==
    ASSUME NEW r \in Requests,
           \/ \E s \in Servers : Ask(r, s)
           \/ Start(r) \/ Produce(r) \/ Client(r)
    PROVE  UNCHANGED <<pc, done, version, asleep, paused, served, active>>
BY DEF Ask, Acquire, Start, Produce, Client, Complete, Fail, MergeAborted, Finish, Release,
       trainer, engines, balancer, vars

\* Types are preserved.
LEMMA TypedStep == TypeOK /\ Typed /\ Placed /\ [HNext]_hvars => Typed'
<1> SUFFICES ASSUME TypeOK, Typed, Placed, [HNext]_hvars PROVE Typed'
  OBVIOUS
<1>a. None \in Nat \cup {None}
  OBVIOUS
<1>b. \A r \in Requests : at[r] \in Servers /\ served[at[r]] \in Nat
  BY DEF TypeOK, Typed
<1>c. ASSUME UNCHANGED <<pc, done, version, asleep, paused, served>>,
             call' \in [Requests -> Calls],
             made' \in [Requests -> SUBSET (Nat \cup {None})],
             oldest' \in [Requests -> Nat \cup {None}],
             newest' \in [Requests -> Nat \cup {None}]
      PROVE  Typed'
  BY <1>c DEF Typed
<1>d. ASSUME UNCHANGED <<call, made, oldest, newest>>,
             pc' \in 1..17, done' \subseteq Steps[pc'].on, version' \in Nat,
             asleep' \subseteq Servers, paused' \subseteq Servers,
             served' \in [Servers -> Nat]
      PROVE  Typed'
  BY <1>d DEF Typed
<1>1. ASSUME NEW r \in Requests, NEW s \in Servers, Ask(r, s) PROVE Typed'
  <2>1. UNCHANGED <<pc, done, version, asleep, paused, served>>
    BY <1>1, ConversationFrame
  <2>2. call' \in [Requests -> Calls]
    BY <1>1 DEF Ask, Typed, Calls
  <2>3. /\ made' \in [Requests -> SUBSET (Nat \cup {None})]
        /\ oldest' \in [Requests -> Nat \cup {None}]
        /\ newest' \in [Requests -> Nat \cup {None}]
    BY <1>1, <1>a DEF Ask, Typed, response
  <2> QED BY <2>1, <2>2, <2>3, <1>c
<1>2. ASSUME NEW r \in Requests, Start(r) PROVE Typed'
  BY <1>2 DEF Start, Typed, Calls, trainer, engines, response
<1>3. ASSUME NEW r \in Requests, Produce(r) PROVE Typed'
  <2>1. Weights(at[r]) \in Nat \cup {None}
    BY <1>a, <1>b DEF Weights
  <2>2. UNCHANGED <<pc, done, version, asleep, paused, served>>
    BY <1>3, ConversationFrame
  <2>3. /\ call' \in [Requests -> Calls]
        /\ made' \in [Requests -> SUBSET (Nat \cup {None})]
        /\ UNCHANGED <<oldest, newest>>
    BY <1>3, <2>1 DEF Produce, Typed, Calls
  <2> QED BY <2>2, <2>3, <1>c DEF Typed
<1>4. ASSUME NEW r \in Requests, Complete(r) PROVE Typed'
  <2>1. served[at[r]] \in Nat /\ OldestWith(r, served[at[r]]) \in Nat \cup {None}
    BY <1>b DEF OldestWith, Typed
  <2>2. UNCHANGED <<pc, done, version, asleep, paused, served>>
    BY <1>4, ConversationFrame DEF Client
  <2>3. call' \in [Requests -> Calls] /\ made' = made
    BY <1>4 DEF Complete, Typed, Calls
  <2>4. /\ oldest' \in [Requests -> Nat \cup {None}]
        /\ newest' \in [Requests -> Nat \cup {None}]
    BY <1>4, <2>1 DEF Complete, Typed
  <2> QED BY <2>2, <2>3, <2>4, <1>c DEF Typed
<1>5. ASSUME NEW r \in Requests, Fail(r) \/ MergeAborted(r) PROVE Typed'
  BY <1>5 DEF Fail, MergeAborted, Typed, Calls, trainer, engines, response
<1>6. ASSUME NEW r \in Requests,
             Release(r) /\ UNCHANGED <<trainer, engines, call, response, late>>
      PROVE  Typed'
  BY <1>6 DEF Typed, trainer, engines, response
<1>7. ASSUME NEW s \in Servers, AbortReplica(s) PROVE Typed'
  <2>1. Answers(s)
    BY <1>7 DEF AbortReplica
  <2>2. \A r \in Requests : OldestWith(r, served[s]) \in Nat \cup {None}
    BY DEF OldestWith, Typed
  <2>3. /\ call' \in [Requests -> Calls]
        /\ oldest' \in [Requests -> Nat \cup {None}]
        /\ newest' \in [Requests -> Nat \cup {None}]
    <3>1. PICK empty \in SUBSET {r \in Requests : call[r] = "running" /\ at[r] = s} :
            LET stopped == {r \in Requests :
                               call[r] \in {"running", "producing"} /\ at[r] = s}
            IN  /\ call' = [r \in Requests |->
                               IF r \in stopped THEN "aborting" ELSE call[r]]
                /\ oldest' = [r \in Requests |->
                                IF r \in stopped \ empty
                                  THEN OldestWith(r, served[s]) ELSE oldest[r]]
                /\ newest' = [r \in Requests |->
                                IF r \in stopped \ empty THEN served[s]
                                ELSE IF r \in empty THEN None ELSE newest[r]]
      BY <1>7 DEF AbortReplica
    <3>2. served[s] \in Nat
      BY DEF Typed
    <3> QED BY <3>1, <3>2, <2>2, <1>a DEF Typed, Calls
  <2> QED BY <1>7, <2>1, <2>3, AnswerProperties DEF AbortReplica, Typed
<1>8. ASSUME NEW s \in Servers, ResumeReplica(s) PROVE Typed'
  BY <1>8, AnswerProperties DEF ResumeReplica, Typed, response
<1>9. ASSUME NEW s \in Servers, PushReplica(s) \/ WakeReplica(s) \/ SleepReplica(s)
      PROVE  Typed'
  <2>1. Answers(s)
    BY <1>9 DEF PushReplica, WakeReplica, SleepReplica
  <2>2. served' \in [Servers -> Nat] /\ asleep' \subseteq Servers /\ paused' = paused
    BY <1>9 DEF PushReplica, WakeReplica, SleepReplica, Typed
  <2>3. UNCHANGED <<call, made, oldest, newest>>
    BY <1>9 DEF PushReplica, WakeReplica, SleepReplica, response
  <2> QED BY <2>1, <2>2, <2>3, AnswerProperties, <1>d DEF Typed
<1>10. ASSUME TrainStep \/ AddReplicas \/ RemoveReplicas \/ Validated
       PROVE  Typed'
  <2>1. pc' = Following /\ done' = done /\ UNCHANGED <<call, made, oldest, newest>>
        /\ UNCHANGED <<asleep, paused, served>>
    BY <1>10 DEF TrainStep, AddReplicas, RemoveReplicas, Validated, response, engines
  <2>2. version' \in Nat
    BY <1>10 DEF TrainStep, AddReplicas, RemoveReplicas, Validated, Typed
  <2>3. pc \in {1, 8, 11, 14} /\ pc' = pc + 1
    BY <1>10, <2>1, Positions DEF TrainStep, AddReplicas, RemoveReplicas, Validated, Typed
  <2>4. done = {}
    BY <2>3, Positions DEF Typed
  <2> QED BY <2>1, <2>2, <2>3, <2>4, <1>d DEF Typed
<1>11. CASE Gathered
  <2>1. /\ pc' = Following \/ pc' = 1
        /\ done' = {}
        /\ UNCHANGED <<version, asleep, paused, served, call, made, oldest, newest>>
    BY <1>11 DEF Gathered, engines, response
  <2>2. pc' \in 1..17
    BY <2>1, Positions DEF Typed
  <2> QED BY <2>1, <2>2, <1>d DEF Typed
<1>12. CASE UNCHANGED hvars
  BY <1>12 DEF hvars, trainer, engines, response, Typed
<1> QED BY <1>1, <1>2, <1>3, <1>4, <1>5, <1>6, <1>7, <1>8, <1>9, <1>10, <1>11, <1>12
        DEF HNext, Client, Replica, Trainer

-----------------------------------------------------------------------------
\* The engines stay as the trainer's position says.
LEMMA PlacedStep == TypeOK /\ Typed /\ Placed /\ [HNext]_hvars => Placed'
<1> SUFFICES ASSUME TypeOK, Typed, Placed, [HNext]_hvars, NEW s \in Servers
             PROVE  /\ s \in paused' <=> PausedNow(s)'
                    /\ s \in asleep' <=> AsleepNow(s)'
                    /\ s \in active' <=> ActiveNow(s)'
                    /\ ServedNow(s)'
  BY DEF Placed
<1>a. /\ s \in paused <=> PausedNow(s)
      /\ s \in asleep <=> AsleepNow(s)
      /\ s \in active <=> ActiveNow(s)
      /\ ServedNow(s)
  BY DEF Placed
<1>b. /\ pc \in 1..17 /\ version \in Nat /\ served[s] \in Nat
      /\ done \subseteq Steps[pc].on
  BY DEF Typed
<1> USE DEF PausedNow, AsleepNow, ActiveNow, ServedNow
<1>c. ASSUME UNCHANGED <<pc, done, version, asleep, paused, served, active>>
      PROVE  /\ s \in paused' <=> PausedNow(s)'
             /\ s \in asleep' <=> AsleepNow(s)'
             /\ s \in active' <=> ActiveNow(s)'
             /\ ServedNow(s)'
  BY <1>a, <1>c
<1>1. ASSUME NEW r \in Requests,
             \/ \E t \in Servers : Ask(r, t)
             \/ Start(r) \/ Produce(r) \/ Client(r)
      PROVE  UNCHANGED <<pc, done, version, asleep, paused, served, active>>
  BY <1>1, ConversationFrame
<1>2. ASSUME NEW t \in Servers, AbortReplica(t)
      PROVE  /\ s \in paused' <=> PausedNow(s)'
             /\ s \in asleep' <=> AsleepNow(s)'
             /\ s \in active' <=> ActiveNow(s)'
             /\ ServedNow(s)'
  <2>1. /\ t \in Steps[pc].on /\ t \notin done /\ done' = done \cup {t}
        /\ pc' = pc /\ version' = version /\ pc \in {2, 6, 7, 12, 13}
    BY <1>2, <1>b, AnswerProperties, Positions DEF AbortReplica
  <2>2. paused' = paused \cup {t} /\ asleep' = asleep /\ served' = served
        /\ active' = active
    BY <1>2 DEF AbortReplica, vars, balancer
  <2>3. t \in Standalone <=> pc \notin {7, 13}
    BY <2>1, <1>b, Positions DEF Hybrid
  <2> QED BY <1>a, <1>b, <2>1, <2>2, <2>3
<1>3. ASSUME NEW t \in Servers, ResumeReplica(t)
      PROVE  /\ s \in paused' <=> PausedNow(s)'
             /\ s \in asleep' <=> AsleepNow(s)'
             /\ s \in active' <=> ActiveNow(s)'
             /\ ServedNow(s)'
  <2>1. /\ t \in Steps[pc].on /\ t \notin done /\ done' = done \cup {t}
        /\ pc' = pc /\ version' = version /\ pc \in {4, 9, 10, 16, 17}
    BY <1>3, <1>b, AnswerProperties, Positions DEF ResumeReplica
  <2>2. paused' = paused \ {t} /\ asleep' = asleep /\ served' = served
        /\ active' = active
    BY <1>3 DEF ResumeReplica, vars, balancer
  <2>3. t \in Standalone <=> pc \notin {10, 17}
    BY <2>1, <1>b, Positions DEF Hybrid
  <2> QED BY <1>a, <1>b, <2>1, <2>2, <2>3
<1>4. ASSUME NEW t \in Servers, PushReplica(t)
      PROVE  /\ s \in paused' <=> PausedNow(s)'
             /\ s \in asleep' <=> AsleepNow(s)'
             /\ s \in active' <=> ActiveNow(s)'
             /\ ServedNow(s)'
  <2>1. /\ t \in Steps[pc].on /\ t \notin done /\ done' = done \cup {t}
        /\ pc' = pc /\ version' = version /\ pc = 3
    BY <1>4, <1>b, AnswerProperties, Positions DEF PushReplica
  <2>2. paused' = paused /\ asleep' = asleep /\ active' = active
        /\ served'[s] = IF s = t THEN version ELSE served[s]
    BY <1>4 DEF PushReplica, vars, balancer, Typed
  <2>3. t \in Standalone
    BY <2>1, <1>b, Positions
  <2> QED BY <1>a, <1>b, <2>1, <2>2, <2>3
<1>5. ASSUME NEW t \in Servers, WakeReplica(t)
      PROVE  /\ s \in paused' <=> PausedNow(s)'
             /\ s \in asleep' <=> AsleepNow(s)'
             /\ s \in active' <=> ActiveNow(s)'
             /\ ServedNow(s)'
  <2>1. /\ t \in Steps[pc].on /\ t \notin done /\ done' = done \cup {t}
        /\ pc' = pc /\ version' = version /\ pc = 5
    BY <1>5, <1>b, AnswerProperties, Positions DEF WakeReplica
  <2>2. paused' = paused /\ asleep' = asleep \ {t} /\ active' = active
        /\ served'[s] = IF s = t THEN version ELSE served[s]
    BY <1>5 DEF WakeReplica, vars, balancer, Typed
  <2>3. t \notin Standalone
    BY <2>1, <1>b, Positions DEF Hybrid
  <2> QED BY <1>a, <1>b, <2>1, <2>2, <2>3
<1>6. ASSUME NEW t \in Servers, SleepReplica(t)
      PROVE  /\ s \in paused' <=> PausedNow(s)'
             /\ s \in asleep' <=> AsleepNow(s)'
             /\ s \in active' <=> ActiveNow(s)'
             /\ ServedNow(s)'
  <2>1. /\ t \in Steps[pc].on /\ t \notin done /\ done' = done \cup {t}
        /\ pc' = pc /\ version' = version /\ pc = 15
    BY <1>6, <1>b, AnswerProperties, Positions DEF SleepReplica
  <2>2. paused' = paused /\ asleep' = asleep \cup {t} /\ active' = active
        /\ served' = served
    BY <1>6 DEF SleepReplica, vars, balancer
  <2>3. t \notin Standalone
    BY <2>1, <1>b, Positions DEF Hybrid
  <2> QED BY <1>a, <1>b, <2>1, <2>2, <2>3
<1>7. CASE TrainStep
  <2>1. pc = 1 /\ pc' = 2 /\ version' = version + 1 /\ done' = done /\ done = {}
    BY <1>7, <1>b, Positions DEF TrainStep
  <2>2. UNCHANGED <<paused, asleep, active, served>>
    BY <1>7 DEF TrainStep, vars, balancer, engines
  <2> QED BY <1>a, <1>b, <2>1, <2>2
<1>8. CASE AddReplicas
  <2>1. pc = 8 /\ pc' = 9 /\ done = {} /\ done' = done /\ version' = version
    BY <1>8, <1>b, Positions DEF AddReplicas
  <2>2. UNCHANGED <<paused, asleep, served>> /\ active' = active \cup Hybrid
    BY <1>8 DEF AddReplicas, AddServers, engines
  <2> QED BY <1>a, <1>b, <2>1, <2>2 DEF Hybrid
<1>9. CASE RemoveReplicas
  <2>1. pc = 14 /\ pc' = 15 /\ done = {} /\ done' = done /\ version' = version
    BY <1>9, <1>b, Positions DEF RemoveReplicas
  <2>2. UNCHANGED <<paused, asleep, served>> /\ active' = active \ Hybrid
    BY <1>9 DEF RemoveReplicas, RemoveServers, engines
  <2> QED BY <1>a, <1>b, <2>1, <2>2 DEF Hybrid
<1>10. CASE Validated
  <2>1. pc = 11 /\ pc' = 12 /\ done = {} /\ done' = done /\ version' = version
    BY <1>10, <1>b, Positions DEF Validated
  <2>2. UNCHANGED <<paused, asleep, active, served>>
    BY <1>10 DEF Validated, vars, balancer, engines
  <2> QED BY <1>a, <1>b, <2>1, <2>2
<1>11. CASE Gathered
  <2>1. /\ done # {} /\ done = Steps[pc].on /\ done' = {} /\ version' = version
        /\ pc' = (IF pc = 17 THEN 1 ELSE pc + 1) \/ (pc = 4 /\ pc' = 1)
    BY <1>11, <1>b, Positions DEF Gathered
  <2>2. UNCHANGED <<paused, asleep, active, served>>
    BY <1>11 DEF Gathered, vars, balancer, engines
  <2>3. CASE pc \in {2, 3, 4, 6, 9, 12, 16}
    <3>1. done = Standalone
      BY <2>1, <2>3, <1>b, Positions
    <3> QED BY <1>a, <1>b, <2>1, <2>2, <2>3, <3>1
  <2>4. CASE pc \in {5, 7, 10, 13, 15, 17}
    <3>1. s \in done <=> s \notin Standalone
      BY <2>1, <2>4, <1>b, Positions DEF Hybrid
    <3> QED BY <1>a, <1>b, <2>1, <2>2, <2>4, <3>1
  <2>5. pc \in {2, 3, 4, 6, 9, 12, 16} \/ pc \in {5, 7, 10, 13, 15, 17}
    BY <2>1, <1>b, Positions
  <2> QED BY <2>3, <2>4, <2>5
<1>12. CASE UNCHANGED hvars
  BY <1>12, <1>c DEF hvars, vars, balancer, trainer, engines
<1> QED BY <1>c, <1>1, <1>2, <1>3, <1>4, <1>5, <1>6, <1>7, <1>8, <1>9, <1>10, <1>11, <1>12
        DEF HNext, Replica, Trainer

-----------------------------------------------------------------------------
\* A conversation stays as it is while others act.
LEMMA Untouched ==
    ASSUME NEW q \in Requests, Conversation(q),
           UNCHANGED <<pc, version, served, paused, asleep, active>>,
           call'[q] = call[q], made'[q] = made[q], at'[q] = at[q],
           oldest'[q] = oldest[q], newest'[q] = newest[q], q \in late <=> q \in late'
    PROVE  Conversation(q)'
BY DEF Conversation, Running, Spanned, Finished, Validating, InFlight, InEngine, Tokens

\* A conversation that asks is at a server of the pool, which has reached every
\* version of its tokens.
LEMMA AskStep ==
    ASSUME TypeOK, Typed, Placed, NEW r \in Requests, NEW s \in Servers, Ask(r, s),
           Conversation(r)
    PROVE  Conversation(r)'
<1>1. /\ s \in active /\ at'[r] = s /\ call'[r] = "sent"
      /\ UNCHANGED <<pc, version, served, paused, asleep, active>>
  BY ChoicesActive DEF Ask, Acquire, TypeOK, Typed, trainer, engines
<1>2. r \in Validation => pc = 11
  BY Positions DEF Ask, Typed
<1>3. CASE call[r] = "aborted"
  <2>1. /\ made'[r] = made[r] /\ oldest'[r] = oldest[r] /\ newest'[r] = newest[r]
        /\ late' = late /\ r \notin Validation
    BY <1>3 DEF Ask, response, Conversation, Validating
  <2>2. \A v \in Nat : (\A t \in Standalone : v <= served[t]) => v <= served[s]
    <3>1. PICK t \in Standalone : t \in Servers
      BY ServersAssumption
    <3>2. s \in Standalone \/ served[s] = served[t]
      BY <1>1, <3>1 DEF Placed, ActiveNow, ServedNow, Typed
    <3> QED BY <3>1, <3>2
  <2>3. Tokens(r) \cup ({oldest[r]} \ {None}) \subseteq Nat
    BY DEF Typed, Tokens
  <2>4. Running(r)'
    BY <1>1, <2>1 DEF Conversation, Running, InFlight, InEngine
  <2>5. Spanned(r)'
    <3>1. Spanned(r)
      BY DEF Conversation
    <3>2. oldest[r] = None => Tokens(r) = {}
      BY <3>1, <1>3 DEF Spanned
    <3>3. Tokens(r)' = Tokens(r)
      BY <2>1 DEF Tokens
    <3>4. \A v \in Tokens(r) \cup ({oldest[r]} \ {None}) :
             /\ \A t \in Standalone : v <= served[t]
             /\ v <= served[s]
      BY <3>1, <2>2, <2>3 DEF Spanned
    <3>5. oldest[r] # None => \A v \in Tokens(r) : oldest[r] <= v
      BY <3>1, <1>3 DEF Spanned
    <3> QED BY <1>1, <2>1, <3>2, <3>3, <3>4, <3>5 DEF Spanned
  <2> QED BY <1>1, <2>1, <2>4, <2>5 DEF Conversation, Finished, Validating
<1>4. CASE call[r] # "aborted"
  <2>1. made'[r] = {} /\ oldest'[r] = None /\ newest'[r] = None /\ late' = late \ {r}
    BY <1>4 DEF Ask, Typed
  <2> QED BY <1>1, <1>2, <2>1
          DEF Conversation, Running, Spanned, Finished, Validating, InFlight, InEngine, Tokens
<1> QED BY <1>3, <1>4

\* A token is of the version served, which is not below the first label and not
\* above what the standalone servers have.
LEMMA ProduceStep ==
    ASSUME TypeOK, Typed, Placed, NEW r \in Requests, Produce(r), Conversation(r)
    PROVE  Conversation(r)'
<1> DEFINE a == at[r]
           w == Weights(a)
<1>1. /\ call[r] \in {"running", "producing"} /\ call'[r] = "producing"
      /\ made'[r] = made[r] \cup {w} /\ at' = at
      /\ oldest' = oldest /\ newest' = newest /\ late' = late
      /\ UNCHANGED <<pc, version, served, paused, asleep, active>>
  BY DEF Produce, Typed, trainer, engines, vars, clients, balancer
<1>2. a \in Servers /\ a \notin paused /\ served[a] \in Nat
  BY <1>1 DEF TypeOK, Typed, Conversation, Running, InEngine
<1>3. /\ InFlight(r) /\ InFlight(r)' /\ InEngine(r)'
      /\ Running(r) /\ Spanned(r) /\ Validating(r)
  BY <1>1 DEF InFlight, InEngine, Conversation
<1>4. a \in asleep => a \notin active
  BY <1>2 DEF Placed, AsleepNow, ActiveNow, Typed
<1>5. w = (IF a \in asleep THEN None ELSE served[a])
  BY DEF Weights
<1>6. \A s \in Standalone : served[a] <= served[s]
  BY <1>2, NotAhead
<1> HIDE DEF w, a
<1>7. Running(r)'
  BY <1>1, <1>2, <1>3, <1>4, <1>5 DEF Running, None, a
<1>8. CASE a \in asleep
  <2>1. Tokens(r)' = Tokens(r)
    BY <1>1, <1>5, <1>8 DEF Tokens
  <2>2. oldest[r] = None => Tokens(r) = {}
    BY <1>1, <1>3, <1>8 DEF Spanned, a
  <2>3. Spanned(r)'
    BY <1>1, <1>3, <2>1, <2>2 DEF Spanned
  <2>4. r \notin Validation
    BY <1>3, <1>4, <1>8 DEF Validating, a
  <2> QED BY <1>1, <1>7, <2>3, <2>4 DEF Conversation, Finished, Validating
<1>9. CASE a \notin asleep
  <2>1. Tokens(r)' = Tokens(r) \cup {served[a]}
    BY <1>1, <1>2, <1>5, <1>9 DEF Tokens, None
  <2>2. oldest[r] # None => oldest[r] <= served[a]
    BY <1>3 DEF Spanned, a
  <2>3. oldest[r] = None => Tokens(r) \subseteq {served[a]}
    BY <1>1, <1>3 DEF Spanned, a
  <2>4. Spanned(r)'
    <3>1. ASSUME NEW v \in Tokens(r)' \cup ({oldest'[r]} \ {None})
          PROVE  (\A s \in Standalone : v <= served[s]) /\ v <= served[a]
      <4>1. CASE v = served[a]
        BY <4>1, <1>2, <1>6
      <4>2. CASE v \in Tokens(r) \cup ({oldest[r]} \ {None})
        BY <4>2, <1>3 DEF Spanned, a
      <4> QED BY <4>1, <4>2, <2>1, <1>1
    <3>2. oldest[r] # None => \A v \in Tokens(r)' : oldest[r] <= v
      BY <1>1, <1>3, <2>1, <2>2 DEF Spanned
    <3>3. oldest[r] = None => Tokens(r)' = {served[a]}
      BY <2>1, <2>3
    <3> QED BY <1>1, <1>9, <3>1, <3>2, <3>3 DEF Spanned, a
  <2>5. r \in Validation => pc = 11 /\ a \in active /\ made[r] \subseteq {version}
    BY <1>3 DEF Validating, a
  <2>6. r \in Validation => served[a] = version
    BY <1>2, <2>5 DEF Placed, ServedNow
  <2>7. Validating(r)'
    BY <1>1, <1>5, <1>9, <2>5, <2>6 DEF Validating, InFlight, a
  <2> QED BY <1>1, <1>7, <2>4, <2>7 DEF Conversation, Finished
<1> QED BY <1>8, <1>9

\* The last label is not below any token.
LEMMA CompleteStep ==
    ASSUME TypeOK, Typed, Placed, NEW r \in Requests, Complete(r), Conversation(r)
    PROVE  Conversation(r)'
<1> DEFINE a == at[r]
           w == served[a]
<1>1. /\ call[r] = "producing" /\ call'[r] = "completed" /\ made' = made /\ late' = late
      /\ oldest'[r] = (IF oldest[r] = None THEN w ELSE oldest[r]) /\ newest'[r] = w
      /\ UNCHANGED <<pc, version, served, paused, asleep, active>>
  BY DEF Complete, Finish, Typed, trainer, engines, balancer, OldestWith
<1>2. a \in Servers /\ a \notin paused /\ w \in Nat
  BY <1>1 DEF TypeOK, Typed, Conversation, Running, InEngine
<1>3. InFlight(r) /\ Running(r) /\ Spanned(r) /\ Validating(r)
  BY <1>1 DEF InFlight, Conversation
<1>4. \A s \in Standalone : w <= served[s]
  BY <1>2, NotAhead
<1>5. \A v \in Tokens(r) : v <= w
  BY <1>3 DEF Spanned
<1>6. oldest[r] = None => Tokens(r) \subseteq {w}
  BY <1>1, <1>3 DEF Spanned
<1>7. oldest[r] # None => oldest[r] <= w /\ \A v \in Tokens(r) : oldest[r] <= v
  BY <1>1, <1>3 DEF Spanned
<1>8. r \in Validation => made[r] \subseteq {w}
  BY <1>2, <1>3 DEF Validating, Placed, ServedNow
<1> HIDE DEF w, a
<1>9. Tokens(r)' = Tokens(r) /\ ~InFlight(r)' /\ ~InEngine(r)'
  BY <1>1 DEF Tokens, InFlight, InEngine
<1>10. oldest'[r] # None /\ \A v \in Tokens(r) : oldest'[r] <= v
  BY <1>1, <1>2, <1>6, <1>7 DEF None
<1>11. Spanned(r)'
  <2>1. ASSUME NEW v \in Tokens(r) \cup {oldest'[r]} PROVE \A s \in Standalone : v <= served[s]
    <3>1. CASE v = w
      BY <3>1, <1>4
    <3>2. CASE v \in Tokens(r) \cup ({oldest[r]} \ {None})
      BY <3>2, <1>3 DEF Spanned
    <3> QED BY <3>1, <3>2, <1>1
  <2> QED BY <1>1, <1>9, <1>10, <2>1 DEF Spanned
<1>12. Finished(r)'
  BY <1>1, <1>5, <1>9, <1>10 DEF Finished
<1>13. Running(r)'
  BY <1>1, <1>3, <1>9 DEF Running
<1>14. Validating(r)'
  BY <1>1, <1>8, <1>9 DEF Validating
<1> QED BY <1>11, <1>12, <1>13, <1>14 DEF Conversation

\* Being started, failing and being merged keep what is said of a response.
LEMMA CallStep ==
    ASSUME TypeOK, Typed, NEW r \in Requests, Start(r) \/ Fail(r) \/ MergeAborted(r),
           Conversation(r)
    PROVE  Conversation(r)'
<1>1. /\ UNCHANGED <<pc, version, served, paused, asleep, active, at, made, oldest, newest,
                     late>>
      /\ Running(r) /\ Spanned(r) /\ Finished(r) /\ Validating(r)
  BY DEF Start, Fail, MergeAborted, Finish, trainer, engines, response, balancer, vars, clients,
         Conversation
<1>2. CASE Start(r)
  <2>1. call[r] = "sent" /\ call'[r] = "running" /\ at[r] \notin paused
    BY <1>2 DEF Start, Typed
  <2>2. Running(r)'
    BY <1>1, <2>1 DEF Running, InFlight
  <2>3. Spanned(r)'
    BY <1>1, <2>1 DEF Spanned, InFlight, Tokens
  <2>4. Validating(r)'
    BY <1>1, <2>1 DEF Validating, InFlight
  <2> QED BY <2>1, <2>2, <2>3, <2>4 DEF Conversation, Finished
<1>3. CASE Fail(r) \/ MergeAborted(r)
  <2>1. \/ call'[r] = "failed"
        \/ call[r] = "aborting" /\ call'[r] = "aborted"
    BY <1>3 DEF Fail, MergeAborted, Typed
  <2>2. Running(r)'
    BY <1>1, <2>1 DEF Running, InFlight, InEngine
  <2>3. Spanned(r)'
    BY <1>1, <2>1 DEF Spanned, InFlight, Tokens
  <2>4. Validating(r)'
    BY <1>1, <2>1 DEF Validating, InFlight
  <2> QED BY <2>1, <2>2, <2>3, <2>4 DEF Conversation, Finished
<1> QED BY <1>2, <1>3

-----------------------------------------------------------------------------
\* What a step of the trainer or of a replica must not do to a conversation it
\* does not stop: pause, put to sleep or give new weights to an engine that
\* computes it, take back weights, and go on from a validation under way.
LEMMA StepAround ==
    ASSUME Typed, NEW q \in Requests, Conversation(q), at[q] \in Servers,
           call'[q] = call[q], made'[q] = made[q], at'[q] = at[q],
           oldest'[q] = oldest[q], newest'[q] = newest[q],
           q \in late => q \in late',
           served' \in [Servers -> Nat], \A s \in Servers : served[s] <= served'[s],
           InEngine(q) => at[q] \notin paused',
           InEngine(q) /\ at[q] \notin asleep =>
              at[q] \notin asleep' /\ served'[at[q]] = served[at[q]],
           InFlight(q) /\ at[q] \notin active' => at[q] \notin active \/ q \in late',
           q \in Validation => ~InFlight(q)
    PROVE  Conversation(q)'
<1>1. /\ InFlight(q)' = InFlight(q) /\ InEngine(q)' = InEngine(q) /\ Tokens(q)' = Tokens(q)
      /\ Running(q) /\ Spanned(q) /\ Finished(q) /\ Validating(q)
  BY DEF InFlight, InEngine, Tokens, Conversation
<1>2. Running(q)'
  BY <1>1 DEF Running
<1>3. Spanned(q)'
  <2>1. ASSUME NEW v \in Tokens(q) \cup ({oldest[q]} \ {None}), NEW s \in Servers,
               v <= served[s]
        PROVE  v <= served'[s]
    <3>1. v \in Nat /\ served[s] \in Nat /\ served'[s] \in Nat /\ served[s] <= served'[s]
      BY DEF Typed, Tokens
    <3> HIDE DEF Typed
    <3> QED BY <2>1, <3>1
  <2>2. \A v \in Tokens(q) \cup ({oldest[q]} \ {None}) :
           /\ \A s \in Standalone : v <= served'[s]
           /\ InFlight(q) => v <= served'[at[q]]
    BY <1>1, <2>1, ServersAssumption DEF Spanned
  <2>3. call[q] # "failed" /\ oldest[q] = None /\ Tokens(q) # {} =>
           /\ call[q] = "producing" /\ at[q] \notin asleep'
           /\ Tokens(q) = {served'[at[q]]}
    BY <1>1 DEF Spanned, InEngine
  <2> QED BY <1>1, <2>2, <2>3 DEF Spanned
<1>4. Validating(q)'
  BY <1>1 DEF Validating
<1>5. Finished(q)'
  BY <1>1 DEF Finished
<1> QED BY <1>2, <1>3, <1>4, <1>5 DEF Conversation

\* While nothing is validated no request of validation is in flight.
LEMMA NoneValidates ==
    ASSUME NEW q \in Requests, Conversation(q), pc # 11
    PROVE  q \in Validation => ~InFlight(q)
BY DEF Conversation, Validating

\* An aborted call had tokens of the version its server labels it with, or none.
LEMMA AbortStep ==
    ASSUME TypeOK, Typed, Placed, NEW t \in Servers, AbortReplica(t),
           NEW q \in Requests, Conversation(q)
    PROVE  Conversation(q)'
<1> DEFINE stopped == {r \in Requests : call[r] \in {"running", "producing"} /\ at[r] = t}
<1>1. PICK empty \in SUBSET {r \in Requests : call[r] = "running" /\ at[r] = t} :
         /\ call' = [r \in Requests |-> IF r \in stopped THEN "aborting" ELSE call[r]]
         /\ oldest' = [r \in Requests |->
                         IF r \in stopped \ empty
                           THEN OldestWith(r, served[t]) ELSE oldest[r]]
         /\ newest' = [r \in Requests |->
                         IF r \in stopped \ empty THEN served[t]
                         ELSE IF r \in empty THEN None ELSE newest[r]]
  BY DEF AbortReplica
<1>2. /\ paused' = paused \cup {t}
      /\ UNCHANGED <<version, served, asleep, active, at, made, late, pc>>
  BY DEF AbortReplica, Answers, vars, balancer, clients
<1>3. pc # 11
  BY Positions DEF AbortReplica, Typed
<1>4. (q \in Validation => ~InFlight(q)) /\ at[q] \in Servers
  BY <1>3, NoneValidates DEF TypeOK
<1>5. CASE q \notin stopped
  <2>1. call'[q] = call[q] /\ oldest'[q] = oldest[q] /\ newest'[q] = newest[q]
    BY <1>1, <1>5
  <2>2. InEngine(q) => at[q] \notin paused'
    BY <1>2, <1>5 DEF InEngine, Conversation, Running
  <2>3. \A s \in Servers : served[s] <= served'[s]
    BY <1>2 DEF Typed
  <2>4. served' \in [Servers -> Nat] /\ made'[q] = made[q] /\ at'[q] = at[q] /\ late' = late
        /\ asleep' = asleep /\ served' = served /\ active' = active
    BY <1>2 DEF Typed
  <2> QED BY <1>4, <2>1, <2>2, <2>3, <2>4, StepAround
<1>6. CASE q \in stopped
  <2>1. /\ InEngine(q) /\ InFlight(q) /\ at[q] = t /\ call[q] \in {"running", "producing"}
        /\ Running(q) /\ Spanned(q)
    BY <1>6 DEF InEngine, InFlight, Conversation
  <2>2. t \notin paused /\ q \notin Validation
    BY <1>4, <2>1 DEF Running
  <2>3. call'[q] = "aborting"
    BY <1>1, <1>6
  <2>4. ~InFlight(q)' /\ ~InEngine(q)' /\ Tokens(q)' = Tokens(q)
    BY <1>2, <2>3 DEF InFlight, InEngine, Tokens
  <2>5. Running(q)'
    BY <1>2, <2>1, <2>4 DEF Running
  <2>6. Spanned(q)'
    <3>1. CASE q \in empty
      <4>1. oldest'[q] = oldest[q] /\ call[q] = "running"
        BY <1>1, <1>6, <3>1
      <4> QED BY <1>2, <2>1, <2>3, <2>4, <4>1 DEF Spanned
    <3>2. CASE q \notin empty
      <4> DEFINE w == served[t]
      <4>1. oldest'[q] = IF oldest[q] = None THEN w ELSE oldest[q]
        BY <1>1, <1>6, <3>2 DEF OldestWith
      <4>2. w \in Nat /\ \A s \in Standalone : w <= served[s]
        BY <2>2, NotAhead DEF Typed
      <4>3. oldest[q] = None => Tokens(q) \subseteq {w}
        BY <2>1 DEF Spanned
      <4>4. oldest[q] # None => \A v \in Tokens(q) : oldest[q] <= v
        BY <2>1 DEF Spanned
      <4>5. \A v \in Tokens(q) \cup ({oldest[q]} \ {None}) : \A s \in Standalone : v <= served[s]
        BY <2>1 DEF Spanned
      <4> HIDE DEF w
      <4>6. oldest'[q] # None /\ \A v \in Tokens(q) : oldest'[q] <= v
        BY <4>1, <4>2, <4>3, <4>4 DEF None
      <4>7. \A v \in Tokens(q) \cup {oldest'[q]} : \A s \in Standalone : v <= served[s]
        BY <4>1, <4>2, <4>5
      <4> QED BY <1>2, <2>3, <2>4, <4>6, <4>7 DEF Spanned
    <3> QED BY <3>1, <3>2
  <2> QED BY <2>2, <2>3, <2>5, <2>6 DEF Conversation, Finished, Validating
<1> QED BY <1>5, <1>6

\* The other steps of replicas and trainer leave every call where it is.
LEMMA ReplicaStep ==
    ASSUME TypeOK, Typed, Placed, NEW t \in Servers,
           ResumeReplica(t) \/ PushReplica(t) \/ WakeReplica(t) \/ SleepReplica(t),
           NEW q \in Requests, Conversation(q)
    PROVE  Conversation(q)'
<1>1. Answers(t) /\ UNCHANGED <<vars, call, response, late>>
  BY DEF ResumeReplica, PushReplica, WakeReplica, SleepReplica
<1>2. /\ call'[q] = call[q] /\ made'[q] = made[q] /\ at'[q] = at[q]
      /\ oldest'[q] = oldest[q] /\ newest'[q] = newest[q] /\ late' = late /\ active' = active
  BY <1>1 DEF response, vars, balancer, clients
<1>3. at[q] \in Servers /\ (InEngine(q) => at[q] \notin paused)
  BY DEF TypeOK, Conversation, Running
<1>4. t \in Steps[pc].on /\ t \notin done /\ pc \in 1..17 /\ version \in Nat
      /\ served[t] \in Nat
  BY <1>1, AnswerProperties DEF Typed
<1>5. CASE ResumeReplica(t)
  <2>1. pc # 11 /\ paused' = paused \ {t} /\ asleep' = asleep /\ served' = served
    BY <1>4, <1>5, Positions DEF ResumeReplica
  <2>2. \A s \in Servers : served[s] <= served'[s]
    BY <2>1 DEF Typed
  <2>3. served' \in [Servers -> Nat]
    BY <2>1 DEF Typed
  <2> QED BY <1>2, <1>3, <2>1, <2>2, <2>3, NoneValidates, StepAround
<1>6. CASE PushReplica(t)
  <2>1. /\ pc = 3 /\ paused' = paused /\ asleep' = asleep
        /\ served' = [served EXCEPT ![t] = version]
    BY <1>4, <1>6, Positions DEF PushReplica
  <2>2. t \in Standalone
    BY <1>4, <2>1, Positions
  <2>3. t \in paused /\ served[t] <= version
    BY <1>4, <2>1, <2>2 DEF Placed, PausedNow, ServedNow
  <2>4. \A s \in Servers : served[s] <= served'[s]
    BY <1>4, <2>1, <2>3 DEF Typed
  <2>5. served' \in [Servers -> Nat] /\ (InEngine(q) => served'[at[q]] = served[at[q]])
    BY <1>3, <1>4, <2>1, <2>3 DEF Typed
  <2>6. q \in Validation => ~InFlight(q)
    BY <2>1, NoneValidates
  <2> QED BY <1>2, <1>3, <2>1, <2>4, <2>5, <2>6, StepAround
<1>7. CASE WakeReplica(t)
  <2>1. /\ pc = 5 /\ paused' = paused /\ asleep' = asleep \ {t}
        /\ served' = [served EXCEPT ![t] = version]
    BY <1>4, <1>7, Positions DEF WakeReplica
  <2>2. t \notin Standalone
    BY <1>4, <2>1, Positions DEF Hybrid
  <2>3. t \in asleep /\ served[t] <= version
    BY <1>4, <2>1, <2>2 DEF Placed, AsleepNow, ServedNow
  <2>4. \A s \in Servers : served[s] <= served'[s]
    BY <1>4, <2>1, <2>3 DEF Typed
  <2>5. served' \in [Servers -> Nat] /\ (at[q] \notin asleep => served'[at[q]] = served[at[q]])
    BY <1>3, <1>4, <2>1, <2>3 DEF Typed
  <2>6. q \in Validation => ~InFlight(q)
    BY <2>1, NoneValidates
  <2> QED BY <1>2, <1>3, <2>1, <2>4, <2>5, <2>6, StepAround
<1>8. CASE SleepReplica(t)
  <2>1. /\ pc = 15 /\ paused' = paused /\ asleep' = asleep \cup {t} /\ served' = served
    BY <1>4, <1>8, Positions DEF SleepReplica
  <2>2. t \notin Standalone
    BY <1>4, <2>1, Positions DEF Hybrid
  <2>3. t \in paused
    BY <1>4, <2>1, <2>2 DEF Placed, PausedNow
  <2>4. \A s \in Servers : served[s] <= served'[s]
    BY <2>1 DEF Typed
  <2>5. served' \in [Servers -> Nat] /\ (InEngine(q) /\ at[q] \notin asleep => at[q] \notin asleep')
    BY <1>3, <2>1, <2>3 DEF Typed
  <2>6. q \in Validation => ~InFlight(q)
    BY <2>1, NoneValidates
  <2> QED BY <1>2, <1>3, <2>1, <2>4, <2>5, <2>6, StepAround
<1> QED BY <1>5, <1>6, <1>7, <1>8

\* The trainer's own steps too; a call on its way to a replica that is removed
\* becomes late.
LEMMA TrainerStep ==
    ASSUME TypeOK, Typed, Placed, Trainer, NEW q \in Requests, Conversation(q)
    PROVE  Conversation(q)'
<1>1. UNCHANGED <<call, response, engines, at>>
  BY DEF Trainer, TrainStep, AddReplicas, RemoveReplicas, Validated, Gathered, AddServers,
         RemoveServers, vars, clients
<1>2. /\ call'[q] = call[q] /\ made'[q] = made[q] /\ at'[q] = at[q]
      /\ oldest'[q] = oldest[q] /\ newest'[q] = newest[q]
      /\ asleep' = asleep /\ paused' = paused /\ served' = served
  BY <1>1 DEF response, engines
<1>3. at[q] \in Servers /\ (InEngine(q) => at[q] \notin paused) /\ pc \in 1..17
  BY DEF TypeOK, Typed, Conversation, Running
<1>4. served' \in [Servers -> Nat] /\ \A s \in Servers : served[s] <= served'[s]
  BY <1>2 DEF Typed
<1>5. q \in Validation => ~InFlight(q)
  <2>1. CASE pc # 11
    BY <2>1, NoneValidates
  <2>2. CASE pc = 11
    <3>1. Steps[pc].on = {}
      BY <2>2, Positions
    <3>2. Validated
      BY <2>2, <3>1, Positions DEF Trainer, TrainStep, AddReplicas, RemoveReplicas, Gathered
    <3> QED BY <3>2 DEF Validated, InFlight
  <2> QED BY <2>1, <2>2
<1>6. CASE TrainStep \/ Validated \/ Gathered
  <2>1. active' = active /\ late' = late
    BY <1>6 DEF TrainStep, Validated, Gathered, vars, balancer
  <2> QED BY <1>2, <1>3, <1>4, <1>5, <2>1, StepAround
<1>7. CASE AddReplicas
  <2>1. active \subseteq active' /\ late' = late
    BY <1>7 DEF AddReplicas, AddServers
  <2> QED BY <1>2, <1>3, <1>4, <1>5, <2>1, StepAround
<1>8. CASE RemoveReplicas
  <2>1. /\ pc = 14 /\ active' = active \ Hybrid
        /\ late' = late \cup {r \in Requests : call[r] = "sent" /\ at[r] \in Hybrid}
    BY <1>3, <1>8, Positions DEF RemoveReplicas, RemoveServers
  <2>2. \A s \in Hybrid : s \in paused
    BY <2>1 DEF Placed, PausedNow, Hybrid
  <2>3. InFlight(q) /\ at[q] \in Hybrid => q \in late'
    BY <1>3, <2>1, <2>2 DEF InFlight, InEngine
  <2>4. (InFlight(q) /\ at[q] \notin active' => at[q] \notin active \/ q \in late')
        /\ (q \in late => q \in late')
    BY <2>1, <2>3
  <2> QED BY <1>2, <1>3, <1>4, <1>5, <2>4, StepAround
<1> QED BY <1>6, <1>7, <1>8 DEF Trainer

-----------------------------------------------------------------------------
\* The invariant is kept by every step.
LEMMA HStep == TypeOK /\ HInv /\ [HNext]_hvars => HInv'
<1> SUFFICES ASSUME TypeOK, HInv, [HNext]_hvars PROVE HInv'
  OBVIOUS
<1>1. Typed /\ Placed /\ \A q \in Requests : Conversation(q)
  BY DEF HInv
<1>2. Typed' /\ Placed'
  BY <1>1, TypedStep, PlacedStep
<1> SUFFICES ASSUME NEW q \in Requests PROVE Conversation(q)'
  BY <1>2 DEF HInv
<1>3. Conversation(q)
  BY <1>1
<1>4. ASSUME NEW r \in Requests,
             \/ \E s \in Servers : Ask(r, s)
             \/ Start(r) \/ Produce(r) \/ Client(r),
             q # r
      PROVE  Conversation(q)'
  <2>1. UNCHANGED <<pc, version, served, paused, asleep, active>>
    BY <1>4, ConversationFrame
  <2>2. /\ call'[q] = call[q] /\ made'[q] = made[q]
        /\ oldest'[q] = oldest[q] /\ newest'[q] = newest[q] /\ (q \in late <=> q \in late')
    BY <1>1, <1>4 DEF Ask, Start, Produce, Client, Complete, Fail, MergeAborted, response, Typed
  <2>3. at'[q] = at[q]
    BY <1>4 DEF Ask, Acquire, Start, Produce, Client, Complete, Fail, MergeAborted, Finish,
       Release, vars, clients, TypeOK
  <2> QED BY <1>3, <2>1, <2>2, <2>3, Untouched
<1>5. ASSUME NEW s \in Servers, Ask(q, s) PROVE Conversation(q)'
  BY <1>1, <1>5, AskStep
<1>6. CASE Start(q) \/ Fail(q) \/ MergeAborted(q)
  BY <1>1, <1>6, CallStep
<1>7. CASE Produce(q)
  BY <1>1, <1>7, ProduceStep
<1>8. CASE Complete(q)
  BY <1>1, <1>8, CompleteStep
<1>9. CASE Release(q) /\ UNCHANGED <<trainer, engines, call, response, late>>
  <2>1. UNCHANGED <<pc, version, served, paused, asleep, active, at, call, response, late>>
    BY <1>9 DEF Release, trainer, engines
  <2> QED BY <1>3, <2>1, Untouched DEF response
<1>10. ASSUME NEW s \in Servers, Replica(s) PROVE Conversation(q)'
  BY <1>1, <1>10, AbortStep, ReplicaStep DEF Replica
<1>11. CASE Trainer
  BY <1>1, <1>11, TrainerStep
<1>12. CASE UNCHANGED hvars
  BY <1>3, <1>12, Untouched DEF hvars, vars, balancer, clients, trainer, engines, response
<1> QED BY <1>4, <1>5, <1>6, <1>7, <1>8, <1>9, <1>10, <1>11, <1>12 DEF HNext, Client

\* The labels of a completed response are true of its tokens, and what is
\* validated is the version the trainer has just made.
THEOREM LabelsTrue == HSpec => []VersionsTrue
<1>1. TypeOK /\ HInv => VersionsTrue
  <2> SUFFICES ASSUME TypeOK, HInv PROVE VersionsTrue
    OBVIOUS
  <2>1. Typed /\ Placed /\ \A r \in Requests : Conversation(r)
    BY DEF HInv
  <2>2. ASSUME NEW r \in Requests, call[r] = "completed"
        PROVE  /\ \A v \in made[r] \ {None} : oldest[r] <= v /\ v <= newest[r]
               /\ None \in made[r] => r \in late
               /\ r \in Validation => made[r] \subseteq {newest[r]}
    BY <2>1, <2>2 DEF Conversation, Running, Finished, Validating, Tokens
  <2>3. ASSUME Does("validate"), NEW s \in active PROVE served[s] = version
    <3>1. pc = 11 /\ s \in Servers
      BY <2>1, <2>3, Positions DEF Typed, TypeOK
    <3> QED BY <2>1, <3>1 DEF Placed, ServedNow
  <2> QED BY <2>2, <2>3 DEF VersionsTrue
<1> QED BY <1>1, Composes, TypeCorrect, HInitially, HStep, PTL DEF HSpec
=============================================================================
