-------------------------- MODULE FullyAsync_proofs --------------------------
(***************************************************************************)
(* For every batch size, trigger period, staleness threshold and number of *)
(* concurrent samples: the state is well typed, the freshness control lets *)
(* at most one sample more than max_required_samples be outstanding,       *)
(* queued samples have a bounded age, every sample is accounted for, and   *)
(* Rollouter and Trainer never wait for each other.                        *)
(***************************************************************************)
EXTENDS FullyAsync, FiniteSetTheorems, SequenceTheorems, TLAPS

Entries == [made : Nat, put : Nat] \cup {None}
Slots(q) == {i \in 1..Len(q) : q[i] # None}

-----------------------------------------------------------------------------
\* Where a sequence has elements of a set, and what an element counts for.
Places(q, S) == {i \in 1..Len(q) : q[i] \in S}
In(x, S) == IF x \in S THEN 1 ELSE 0

\* The places in a sequence are finitely many, and no more than its elements.
LEMMA PlacesFinite ==
    ASSUME NEW T, NEW q \in Seq(T), NEW S
    PROVE  /\ IsFiniteSet(Places(q, S))
           /\ Cardinality(Places(q, S)) \in Nat
           /\ Cardinality(Places(q, S)) <= Len(q)
<1>1. Len(q) \in Nat /\ Places(q, S) \subseteq 1..Len(q)
  BY LenProperties DEF Places
<1>2. IsFiniteSet(1..Len(q)) /\ Cardinality(1..Len(q)) = Len(q)
  <2>1. 1 \in Int /\ Len(q) \in Int
    BY <1>1
  <2>2. /\ IsFiniteSet(1..Len(q))
        /\ Cardinality(1..Len(q)) = IF 1 > Len(q) THEN 0 ELSE Len(q) - 1 + 1
    BY <2>1, FS_Interval, Zenon
  <2> QED BY <1>1, <2>2
<1> QED BY <1>1, <1>2, FS_Subset, FS_CardinalityType

\* An element of a sequence that is left out takes what it counts for.
LEMMA PlacesLeft ==
    ASSUME NEW T, NEW q \in Seq(T), NEW r \in Seq(T), NEW i \in 1..Len(q), NEW S,
           Len(r) = Len(q) - 1,
           \A k \in 1..Len(r) : r[k] = IF k < i THEN q[k] ELSE q[k + 1]
    PROVE  Cardinality(Places(q, S)) = Cardinality(Places(r, S)) + In(q[i], S)
<1> DEFINE others == Places(q, S) \ {i}
<1>1. Len(q) \in Nat /\ Len(r) \in Nat
  BY LenProperties
<1>2. IsFiniteSet(others) /\ Cardinality(others) = Cardinality(Places(r, S))
  <2> DEFINE back(k) == IF k < i THEN k ELSE k + 1
             map == [k \in Places(r, S) |-> back(k)]
  <2>1. \A k \in Places(r, S) : back(k) \in others
    <3> TAKE k \in Places(r, S)
    <3>1. k \in 1..Len(r) /\ r[k] \in S
      BY DEF Places
    <3>2. CASE k < i
      BY <1>1, <3>1, <3>2 DEF Places
    <3>3. CASE ~ (k < i)
      <4>1. r[k] = q[k + 1] /\ k + 1 \in 1..Len(q) /\ k + 1 # i
        BY <1>1, <3>1, <3>3
      <4> QED BY <3>1, <3>3, <4>1 DEF Places
    <3> QED BY <3>2, <3>3
  <2>2. \A j \in others : \E k \in Places(r, S) : back(k) = j
    <3> TAKE j \in others
    <3>1. j \in 1..Len(q) /\ q[j] \in S /\ j # i
      BY DEF Places
    <3>2. CASE j < i
      <4>1. j \in 1..Len(r) /\ r[j] = q[j]
        BY <1>1, <3>1, <3>2
      <4> QED BY <3>1, <3>2, <4>1 DEF Places
    <3>3. CASE i < j
      <4>1. j - 1 \in 1..Len(r) /\ ~ (j - 1 < i) /\ (j - 1) + 1 = j
        BY <1>1, <3>1, <3>3
      <4>2. r[j - 1] = q[j]
        BY <4>1
      <4>3. j - 1 \in Places(r, S) /\ back(j - 1) = j
        BY <3>1, <4>1, <4>2 DEF Places
      <4> QED BY <4>3
    <3> QED BY <1>1, <3>1, <3>2, <3>3
  <2>3. Places(r, S) \subseteq Int /\ i \in Int
    BY <1>1 DEF Places
  <2>4. \A j, k \in Places(r, S) : back(j) = back(k) => j = k
    BY <2>3
  <2> HIDE DEF others
  <2>5. map \in Bijection(Places(r, S), others)
    <3> HIDE DEF back
    <3>1. map \in [Places(r, S) -> others]
      BY <2>1
    <3>2. \A j, k \in Places(r, S) : map[j] = map[k] => j = k
      BY <2>4
    <3>3. \A j \in others : \E k \in Places(r, S) : map[k] = j
      BY <2>2
    <3> QED BY <3>1, <3>2, <3>3 DEF Bijection, Injection, Surjection, IsInjective
  <2>6. IsFiniteSet(Places(r, S))
    BY PlacesFinite
  <2> QED BY <2>5, <2>6, FS_Bijection DEF ExistsBijection
<1>3. CASE q[i] \notin S
  <2>1. others = Places(q, S)
    BY <1>3 DEF Places
  <2>2. Cardinality(Places(q, S)) \in Nat
    BY PlacesFinite
  <2>3. In(q[i], S) = 0
    BY <1>3 DEF In
  <2> HIDE DEF others
  <2> QED BY <1>2, <2>1, <2>2, <2>3
<1>4. CASE q[i] \in S
  <2>1. i \in Places(q, S)
    BY <1>4 DEF Places
  <2>2. IsFiniteSet(Places(q, S)) /\ Cardinality(Places(q, S)) \in Nat
    BY PlacesFinite
  <2>3. Cardinality(others) = Cardinality(Places(q, S)) - 1
    BY <2>1, <2>2, FS_RemoveElement
  <2> QED BY <1>2, <1>4, <2>2, <2>3 DEF In
<1> QED BY <1>3, <1>4

\* Taking the head away takes what it counts for.
LEMMA PlacesOfTail ==
    ASSUME NEW T, NEW q \in Seq(T), q # <<>>, NEW S
    PROVE  Cardinality(Places(q, S)) = Cardinality(Places(Tail(q), S)) + In(q[1], S)
<1>1. /\ Tail(q) \in Seq(T) /\ Len(q) \in Nat \ {0}
      /\ Len(Tail(q)) = Len(q) - 1
      /\ \A k \in 1..Len(Tail(q)) : Tail(q)[k] = q[k + 1]
  BY EmptySeq, HeadTailProperties, LenProperties
<1>2. 1 \in 1..Len(q) /\ \A k \in 1..Len(Tail(q)) : ~ (k < 1)
  BY <1>1
<1>3. \A k \in 1..Len(Tail(q)) : Tail(q)[k] = IF k < 1 THEN q[k] ELSE q[k + 1]
  BY <1>1, <1>2
<1> DEFINE r == Tail(q)
<1> HIDE DEF r
<1>4. PICK i \in 1..Len(q) : i = 1
  BY <1>2
<1>5. r \in Seq(T) /\ Len(r) = Len(q) - 1
  BY <1>1 DEF r
<1>6. \A k \in 1..Len(r) : r[k] = IF k < i THEN q[k] ELSE q[k + 1]
  BY <1>3, <1>4 DEF r
<1>7. Cardinality(Places(q, S)) = Cardinality(Places(r, S)) + In(q[i], S)
  BY <1>5, <1>6, PlacesLeft, Zenon
<1> QED BY <1>4, <1>7 DEF r

\* A sequence without its i-th element.
LEMMA WithoutProperties ==
    ASSUME NEW T, NEW s \in Seq(T), NEW i \in 1..Len(s)
    PROVE  /\ Without(s, i) \in Seq(T) /\ Len(Without(s, i)) = Len(s) - 1
           /\ \A k \in 1..Len(Without(s, i)) :
                 Without(s, i)[k] = IF k < i THEN s[k] ELSE s[k + 1]
<1>1. Len(s) \in Nat /\ i \in Nat
  BY LenProperties
<1>2. /\ SubSeq(s, 1, i - 1) \in Seq(T) /\ Len(SubSeq(s, 1, i - 1)) = i - 1
      /\ \A k \in 1..(i - 1) : SubSeq(s, 1, i - 1)[k] = s[k]
  BY <1>1, SubSeqProperties
<1>3. /\ SubSeq(s, i + 1, Len(s)) \in Seq(T)
      /\ Len(SubSeq(s, i + 1, Len(s))) = Len(s) - i
      /\ \A k \in 1..(Len(s) - i) : SubSeq(s, i + 1, Len(s))[k] = s[i + k]
  BY <1>1, SubSeqProperties
<1> DEFINE front == SubSeq(s, 1, i - 1)
           back == SubSeq(s, i + 1, Len(s))
<1>4. Without(s, i) = front \o back
  BY DEF Without
<1> HIDE DEF front, back
<1>5. /\ front \in Seq(T) /\ Len(front) = i - 1 /\ back \in Seq(T)
      /\ Len(back) = Len(s) - i
      /\ \A k \in 1..(i - 1) : front[k] = s[k]
      /\ \A k \in 1..(Len(s) - i) : back[k] = s[i + k]
  BY <1>2, <1>3 DEF front, back
<1>6. /\ front \o back \in Seq(T) /\ Len(front \o back) = (i - 1) + (Len(s) - i)
      /\ \A k \in 1..(i - 1) : (front \o back)[k] = front[k]
      /\ \A k \in i..(Len(s) - 1) : (front \o back)[k] = back[k - (i - 1)]
  <2>1. /\ front \o back \in Seq(T) /\ Len(front \o back) = Len(front) + Len(back)
        /\ \A k \in 1..(Len(front) + Len(back)) :
              (front \o back)[k] = IF k <= Len(front) THEN front[k]
                                  ELSE back[k - Len(front)]
    BY <1>5, ConcatProperties, Zenon
  <2> QED BY <1>1, <1>5, <2>1
<1>7. ASSUME NEW k \in 1..(Len(s) - 1)
      PROVE  (front \o back)[k] = IF k < i THEN s[k] ELSE s[k + 1]
  <2>1. CASE k < i
    BY <1>1, <1>5, <1>6, <2>1
  <2>2. CASE ~ (k < i)
    <3>1. k \in i..(Len(s) - 1) /\ k - (i - 1) \in 1..(Len(s) - i)
      BY <1>1, <2>2
    <3>2. i + (k - (i - 1)) = k + 1
      BY <1>1
    <3>3. back[k - (i - 1)] = s[k + 1]
      BY <1>5, <3>1, <3>2
    <3> QED BY <1>6, <2>2, <3>1, <3>3
  <2> QED BY <2>1, <2>2
<1>8. Len(front \o back) = Len(s) - 1
  BY <1>1, <1>6
<1>9. \A k \in 1..Len(front \o back) :
         (front \o back)[k] = IF k < i THEN s[k] ELSE s[k + 1]
  BY <1>7, <1>8, Zenon
<1> QED BY <1>4, <1>6, <1>8, <1>9, Zenon

\* A new element adds what it counts for.
LEMMA PlacesOfAppend ==
    ASSUME NEW T, NEW q \in Seq(T), NEW x \in T, NEW S
    PROVE  Cardinality(Places(Append(q, x), S)) = Cardinality(Places(q, S)) + In(x, S)
<1>1. /\ Len(q) \in Nat /\ Len(Append(q, x)) = Len(q) + 1
      /\ \A i \in 1..Len(q) : Append(q, x)[i] = q[i]
      /\ Append(q, x)[Len(q) + 1] = x
  BY AppendProperties, LenProperties
<1>2. Places(Append(q, x), S) =
          IF x \in S THEN Places(q, S) \cup {Len(q) + 1} ELSE Places(q, S)
  BY <1>1 DEF Places
<1>3. IsFiniteSet(Places(q, S)) /\ Cardinality(Places(q, S)) \in Nat
  BY PlacesFinite
<1>4. Cardinality(Places(q, S) \cup {Len(q) + 1}) = Cardinality(Places(q, S)) + 1
  <2>1. Len(q) + 1 \notin Places(q, S)
    BY <1>1 DEF Places
  <2> QED BY <1>3, <2>1, FS_AddElement, Zenon
<1> QED BY <1>2, <1>3, <1>4 DEF In

-----------------------------------------------------------------------------
\* What an entry counts for: the termination signal is not a sample.
SampleIn(x) == IF x = None THEN 0 ELSE 1

LEMMA SlotsArePlaces ==
    ASSUME NEW q \in Seq(Entries)
    PROVE  /\ Slots(q) = Places(q, Entries \ {None})
           /\ \A x \in Entries : SampleIn(x) = In(x, Entries \ {None})
<1>1. \A i \in 1..Len(q) : q[i] \in Entries
  BY ElementOfSeq
<1> QED BY <1>1 DEF Slots, Places, SampleIn, In

\* The slots of a queue are finitely many, and no more than its entries.
LEMMA SlotsFinite ==
    ASSUME NEW q \in Seq(Entries)
    PROVE  /\ IsFiniteSet(Slots(q))
           /\ Cardinality(Slots(q)) \in Nat
           /\ Cardinality(Slots(q)) <= Len(q)
BY SlotsArePlaces, PlacesFinite

LEMMA SlotsOfTail ==
    ASSUME NEW q \in Seq(Entries), q # <<>>
    PROVE  Cardinality(Slots(q)) = Cardinality(Slots(Tail(q))) + SampleIn(q[1])
<1>1. Tail(q) \in Seq(Entries) /\ q[1] \in Entries
  BY HeadTailProperties
<1> QED BY <1>1, SlotsArePlaces, PlacesOfTail

LEMMA SlotsOfAppend ==
    ASSUME NEW q \in Seq(Entries), NEW x \in Entries
    PROVE  Cardinality(Slots(Append(q, x))) = Cardinality(Slots(q)) + SampleIn(x)
<1>1. Append(q, x) \in Seq(Entries)
  BY AppendProperties
<1>2. Cardinality(Places(Append(q, x), Entries \ {None})) =
          Cardinality(Places(q, Entries \ {None})) + In(x, Entries \ {None})
  BY PlacesOfAppend, Zenon
<1> QED BY <1>1, <1>2, SlotsArePlaces

\* put_sample keeps the queue within its limit and adds at most one sample; a
\* sample it drops is counted.
LEMMA PutProperties ==
    ASSUME queue \in Seq(Entries), Len(queue) <= MaxRequired, dropped \in Nat,
           NEW x \in Entries, Put(x)
    PROVE  /\ queue' \in Seq(Entries) /\ Len(queue') <= MaxRequired
           /\ dropped' \in Nat
           /\ Samples' <= Samples + 1
           /\ x = None => Samples' <= Samples
           /\ Len(queue) < MaxRequired \/ queue[1] # None =>
                 \E k \in {0, 1} : /\ Samples' = Samples + SampleIn(x) - k
                                   /\ dropped' = dropped + k
<1>1. MaxRequired \in Nat \ {0}
  BY ParametersAssumption
<1>2. Len(queue) \in Nat /\ Samples = Cardinality(Slots(queue))
      /\ Samples' = Cardinality(Slots(queue'))
  BY LenProperties DEF Samples, Queued, Slots
<1>3. CASE Len(queue) >= MaxRequired
  <2>1. queue # <<>> /\ queue' = Append(Tail(queue), x) /\ dropped' = dropped + 1
    BY <1>1, <1>2, <1>3, EmptySeq DEF Put
  <2>2. Tail(queue) \in Seq(Entries) /\ Len(Tail(queue)) = Len(queue) - 1
    BY <2>1, HeadTailProperties
  <2>3. queue' \in Seq(Entries) /\ Len(queue') = Len(queue)
    BY <1>2, <2>1, <2>2, AppendProperties
  <2>4. Samples = Cardinality(Slots(Tail(queue))) + SampleIn(queue[1])
    BY <1>2, <2>1, SlotsOfTail
  <2>5. Samples' = Cardinality(Slots(Tail(queue))) + SampleIn(x)
    BY <1>2, <2>1, <2>2, SlotsOfAppend
  <2>6. Cardinality(Slots(Tail(queue))) \in Nat
    BY <2>2, SlotsFinite
  <2>7. queue' \in Seq(Entries) /\ Len(queue') <= MaxRequired
    BY <2>3
  <2>8. ~ (Len(queue) < MaxRequired)
    BY <1>1, <1>2, <1>3
  <2>9. /\ SampleIn(x) \in {0, 1} /\ SampleIn(queue[1]) \in {0, 1}
        /\ x = None => SampleIn(x) = 0
    BY DEF SampleIn
  <2>10. queue[1] # None => SampleIn(queue[1]) = 1
    BY DEF SampleIn
  <2>11. dropped' = dropped + 1
    BY <2>1
  <2> DEFINE rest == Cardinality(Slots(Tail(queue)))
             out == SampleIn(queue[1])
             in == SampleIn(x)
  <2> HIDE DEF rest, out, in
  <2>12. /\ Samples = rest + out /\ Samples' = rest + in /\ rest \in Nat
         /\ in \in {0, 1} /\ out \in {0, 1} /\ (x = None => in = 0)
    BY <2>4, <2>5, <2>6, <2>9 DEF rest, out, in
  <2>13. Samples' <= Samples + 1 /\ (x = None => Samples' <= Samples)
    BY <2>12
  <2>14. out = 1 => Samples' = Samples + in - 1 /\ dropped' = dropped + 1
    BY <2>11, <2>12
  <2> QED BY <2>7, <2>8, <2>10, <2>11, <2>13, <2>14 DEF out, in
<1>4. CASE Len(queue) < MaxRequired
  <2>1. queue' = Append(queue, x) /\ dropped' = dropped
    BY <1>1, <1>2, <1>4 DEF Put
  <2>2. queue' \in Seq(Entries) /\ Len(queue') = Len(queue) + 1
    BY <2>1, AppendProperties
  <2>3. Samples' = Samples + SampleIn(x) /\ Samples \in Nat
    BY <1>2, <2>1, SlotsOfAppend, SlotsFinite
  <2>4. SampleIn(x) \in {0, 1} /\ (x = None => SampleIn(x) = 0)
    BY DEF SampleIn
  <2>5. Samples' = Samples + SampleIn(x) - 0 /\ dropped' = dropped + 0
    BY <2>1, <2>3, <2>4
  <2>6. Samples' <= Samples + 1 /\ (x = None => Samples' <= Samples)
    BY <2>3, <2>4
  <2>7. Len(queue') <= MaxRequired
    BY <1>1, <1>2, <1>4, <2>2
  <2> QED BY <2>1, <2>2, <2>5, <2>6, <2>7
<1> QED BY <1>1, <1>2, <1>3, <1>4

-----------------------------------------------------------------------------
\* The samples that are generating or wait for their put are a number.
LEMMA ProducingType ==
    ASSUME working \in Nat, ready \in Seq(Nat)
    PROVE  Producing \in Nat /\ Len(ready) \in Nat
BY LenProperties DEF Producing

\* A put is of a sample whose generation ended, under the weights of now, and
\* takes it from those that wait.
LEMMA PutStep ==
    ASSUME working \in Nat, ready \in Seq(Nat), weights \in Nat, TaskPuts
    PROVE  /\ Producing > 0 /\ Producing' = Producing - 1 /\ ready' \in Seq(Nat)
           /\ \E i \in 1..Len(ready) :
                 /\ ready' = Without(ready, i)
                 /\ Put(Sample(ready[i], weights))
                 /\ Sample(ready[i], weights) \in Entries \ {None}
<1>1. PICK i \in 1..Len(ready) :
               ready' = Without(ready, i) /\ Put(Sample(ready[i], weights))
  BY DEF TaskPuts
<1>2. Without(ready, i) \in Seq(Nat) /\ Len(Without(ready, i)) = Len(ready) - 1
  BY WithoutProperties
<1>3. Len(ready) \in Nat /\ working' = working
  BY LenProperties DEF TaskPuts
<1>4. Producing > 0 /\ Producing' = Producing - 1
  BY <1>1, <1>2, <1>3 DEF Producing
<1>5. ready[i] \in Nat
  BY ElementOfSeq
<1>6. Sample(ready[i], weights) \in Entries \ {None}
  <2>1. Sample(ready[i], weights).made # -1 /\ None.made = -1
    BY <1>5 DEF Sample, None
  <2> QED BY <1>5, <2>1 DEF Entries, Sample
<1> QED BY <1>1, <1>2, <1>4, <1>6

\* A generation that ends leaves its sample among them, one that is submitted
\* adds it, and one that raises takes it away.
LEMMA ProducingSteps ==
    ASSUME working \in Nat, ready \in Seq(Nat)
    PROVE  /\ UNCHANGED <<working, ready>> => Producing' = Producing
           /\ TaskEnds => Producing' = Producing
           /\ Submit => Producing' = Producing + 1
           /\ TaskRaises => Producing > 0 /\ Producing' = Producing - 1
<1>1. Len(ready) \in Nat
  BY LenProperties
<1>2. TaskEnds => Producing' = Producing
  <2>1. ASSUME TaskEnds PROVE working' = working - 1 /\ Len(ready') = Len(ready) + 1
    BY <2>1, AppendProperties DEF TaskEnds
  <2> QED BY <1>1, <2>1 DEF Producing
<1> QED BY <1>1, <1>2 DEF Producing, Submit, TaskRaises

-----------------------------------------------------------------------------
\* Every behaviour is well typed: in particular the queue and the active tasks
\* stay within their limits, and whoever has the lock is where it uses it.
THEOREM TypeCorrect == Spec => []TypeOK
<1>1. Init => TypeOK
  <2> SUFFICES ASSUME Init PROVE TypeOK
    OBVIOUS
  <2>1. queue \in Seq(Entries) /\ Len(queue) = 0
    BY EmptySeq DEF Init
  <2>2. MaxConcurrent \in Nat /\ Required \in Nat /\ 1 \in 1..Trigger
    BY ParametersAssumption
  <2>3. MaxRequired \in Nat /\ Total \in Nat
    BY ParametersAssumption
  <2>4. /\ queue \in Seq(Entries) /\ Len(queue) <= MaxRequired
        /\ ready \in Seq(Nat) /\ Producing + finished + raised <= MaxConcurrent
    <3>1. ready \in Seq(Nat) /\ Len(ready) = 0
      BY EmptySeq DEF Init
    <3> QED BY <2>1, <2>2, <2>3, <3>1 DEF Init, Entries, Producing
  <2>5. popped \in 0..Total /\ batch \in 0..Required /\ local \in 1..Trigger
    BY <2>2, <2>3 DEF Init
  <2>6. /\ weights \in 0..version /\ lastSaved \in 0..version
        /\ synced \in 0..updates /\ saved \in 0..updates
    BY DEF Init
  <2> QED BY <2>4, <2>5, <2>6 DEF Init, TypeOK, Active, Entries
<1>2. TypeOK /\ [Next]_vars => TypeOK'
  <2> SUFFICES ASSUME TypeOK, [Next]_vars PROVE TypeOK'
    OBVIOUS
  <2>0. /\ Producing \in Nat /\ Len(ready) \in Nat
        /\ UNCHANGED <<working, ready>> => Producing' = Producing
    BY ProducingType, ProducingSteps DEF TypeOK
  <2> USE <2>0, ParametersAssumption
      DEF TypeOK, Active, sampleQueue, tasks, control, processor, policy, trainer
  <2>1. CASE CheckQueue
    BY <2>1 DEF CheckQueue
  <2>2. CASE Pause
    BY <2>2 DEF Pause
  <2>3. CASE PauseLate
    BY <2>3 DEF PauseLate
  <2>4. CASE DrainReap
    BY <2>4 DEF DrainReap
  <2>5. CASE Resumed
    BY <2>5 DEF Resumed
  <2>6. CASE Take
    BY <2>6 DEF Take
  <2>7. CASE Locks
    BY <2>7 DEF Locks
  <2>8. CASE WaitReap
    BY <2>8 DEF WaitReap
  <2>9. CASE ReapRaises
    BY <2>9 DEF ReapRaises, InHand
  <2>10. CASE Submit
    <3>1. Producing' = Producing + 1
      BY <2>10, ProducingSteps
    <3> QED BY <2>10, <3>1 DEF Submit
  <2>11. CASE Finish
    <3>1. None \in Entries /\ Put(None)
      BY <2>11 DEF Finish, Entries
    <3>2. queue' \in Seq(Entries) /\ Len(queue') <= MaxRequired /\ dropped' \in Nat
      BY <3>1, PutProperties DEF Entries
    <3> QED BY <2>11, <3>2 DEF Finish, Entries
  <2>12. CASE TaskPuts
    <3>1. /\ Producing' = Producing - 1 /\ ready' \in Seq(Nat)
          /\ \E x \in Entries : Put(x)
      BY <2>12, PutStep
    <3>2. queue' \in Seq(Entries) /\ Len(queue') <= MaxRequired /\ dropped' \in Nat
      BY <3>1, PutProperties DEF Entries
    <3> QED BY <2>12, <3>1, <3>2 DEF TaskPuts, Entries
  <2>13. CASE TaskRaises
    <3>1. Producing' = Producing - 1
      BY <2>13, ProducingSteps
    <3> QED BY <2>13, <3>1 DEF TaskRaises
  <2>14. CASE MonitorAsks
    BY <2>14 DEF MonitorAsks
  <2>15. CASE MonitorDecides
    BY <2>15 DEF MonitorDecides
  <2>16. CASE MonitorResumes
    BY <2>16 DEF MonitorResumes
  <2>17. CASE Collect
    <3>1. queue # <<>> /\ queue' = Tail(queue)
      BY <2>17 DEF Collect
    <3>2. queue' \in Seq(Entries) /\ Len(queue') = Len(queue) - 1
      BY <3>1, HeadTailProperties DEF Entries
    <3>3. Len(queue') <= MaxRequired
      BY <3>2, LenProperties
    <3>4. CASE Head(queue) = None
      BY <2>17, <3>2, <3>3, <3>4 DEF Collect, Entries
    <3>5. CASE Head(queue) # None
      BY <2>17, <3>2, <3>3, <3>5 DEF Collect, Entries
    <3> QED BY <3>4, <3>5
  <2>18. CASE Update
    BY <2>18 DEF Update
  <2>19. CASE UpdateWeights
    BY <2>19 DEF UpdateWeights
  <2>20. CASE ResetBegins
    <3>1. counted' \in Nat
      BY <2>20 DEF ResetBegins
    <3>2. lock' = "reset" /\ train' = "resetting" /\ paused' = FALSE
      BY <2>20 DEF ResetBegins
    <3> QED BY <2>20, <3>1, <3>2 DEF ResetBegins
  <2>21. CASE ResetEnds
    BY <2>21 DEF ResetEnds
  <2>22. CASE Save
    BY <2>22 DEF Save
  <2>23. CASE Final
    BY <2>23 DEF Final
  <2>24. CASE TaskEnds
    <3>1. Producing' = Producing /\ ready' \in Seq(Nat)
      <4>1. ready' \in Seq(Nat)
        BY <2>24, AppendProperties DEF TaskEnds
      <4> QED BY <2>24, <4>1, ProducingSteps
    <3> QED BY <2>24, <3>1 DEF TaskEnds
  <2>25. CASE UNCHANGED vars
    BY <2>25 DEF vars
  <2> QED
    BY <2>1, <2>2, <2>3, <2>4, <2>5, <2>6, <2>7, <2>8, <2>9,
       <2>10, <2>11, <2>12, <2>13, <2>14, <2>15, <2>16, <2>17,
       <2>18, <2>19, <2>20, <2>21, <2>22, <2>23, <2>24, <2>25
       DEF Next, Processor, Monitor, Trainer
<1> QED BY <1>1, <1>2, PTL DEF Spec

-----------------------------------------------------------------------------
\* What makes the bound on the outstanding samples inductive. They never exceed
\* the staleness counter by more than the sample in hand; that is so after a
\* reset because the number of tasks it has read only gets smaller until it
\* writes the counter.
Bounded ==
    /\ Outstanding <= staleness + 1
    /\ Outstanding <= MaxRequired + 1
    /\ lock = "reset" => Producing <= counted

\* The samples in the queue are a number, at most the queue's length.
LEMMA SamplesType == TypeOK => Samples \in Nat /\ Samples <= Len(queue)
BY SlotsFinite DEF TypeOK, Samples, Queued, Slots, Entries

\* At any time at most max_required_samples + 1 samples are generating, queued
\* or in the processor's hands: the increment a reset overwrites is one.
THEOREM OutstandingLimited == Spec => []OutstandingBounded
<1>1. Init => Bounded
  <2> SUFFICES ASSUME Init PROVE Bounded
    OBVIOUS
  <2>1. queue \in Seq(Entries) /\ Len(queue) = 0
    BY EmptySeq DEF Init
  <2>2. Samples = Cardinality(Slots(queue))
    BY DEF Samples, Queued, Slots
  <2>3. Cardinality(Slots(queue)) \in Nat /\ Cardinality(Slots(queue)) <= 0
    BY <2>1, SlotsFinite
  <2>4. Producing = 0
    <3>1. Len(ready) = 0
      BY EmptySeq DEF Init
    <3> QED BY <3>1 DEF Init, Producing
  <2> QED BY <2>2, <2>3, <2>4, ParametersAssumption DEF Init, Bounded, Outstanding, InHand
<1>2. TypeOK /\ TypeOK' /\ Bounded /\ [Next]_vars => Bounded'
  <2> SUFFICES ASSUME TypeOK, TypeOK', Bounded, [Next]_vars PROVE Bounded'
    OBVIOUS
  <2>a. /\ Samples \in Nat /\ Samples <= Len(queue) /\ Len(queue) \in Nat
        /\ Samples' \in Nat /\ Samples' <= Len(queue')
    <3>1. Samples \in Nat /\ Samples <= Len(queue) /\ Len(queue) \in Nat
      BY SamplesType, LenProperties DEF TypeOK
    <3>2. queue' \in Seq(Entries)
      BY DEF TypeOK, Entries
    <3>3. Samples' = Cardinality(Slots(queue'))
      BY DEF Samples, Queued, Slots
    <3>4. Samples' \in Nat /\ Samples' <= Len(queue')
      BY <3>2, <3>3, SlotsFinite
    <3> QED BY <3>1, <3>4
  <2>b. /\ Producing \in Nat /\ staleness \in Nat /\ counted \in Nat
        /\ finished \in Nat /\ raised \in Nat /\ MaxRequired \in Nat
    BY ParametersAssumption, ProducingType DEF TypeOK
  <2>d. UNCHANGED <<working, ready>> => Producing' = Producing
    BY ProducingSteps DEF TypeOK
  <2>c. queue' = queue => Samples' = Samples
    BY DEF Samples, Queued
  <2> USE <2>a, <2>b, <2>c, <2>d
      DEF Bounded, Outstanding, InHand, sampleQueue, tasks, control, processor, policy,
          trainer
  <2>1. CASE CheckQueue
    BY <2>1 DEF CheckQueue
  <2>2. CASE Pause
    BY <2>2 DEF Pause
  <2>3. CASE PauseLate
    BY <2>3 DEF PauseLate
  <2>4. CASE DrainReap
    BY <2>4 DEF DrainReap
  <2>5. CASE Resumed
    BY <2>5 DEF Resumed
  <2>6. CASE Take
    BY <2>6 DEF Take, MustPause
  <2>7. CASE Locks
    BY <2>7 DEF Locks
  <2>8. CASE WaitReap
    BY <2>8 DEF WaitReap
  <2>9. CASE ReapRaises
    BY <2>9 DEF ReapRaises
  <2>10. CASE Submit
    <3>1. Producing' = Producing + 1
      BY <2>10, ProducingSteps DEF TypeOK
    <3> QED BY <2>10, <3>1 DEF Submit
  <2>11. CASE Finish
    <3>1. None \in Entries /\ Put(None)
      BY <2>11 DEF Finish, Entries, TypeOK
    <3>2. Samples' <= Samples
      BY <3>1, PutProperties DEF TypeOK, Entries
    <3>3. /\ Producing' = Producing /\ staleness' = staleness /\ counted' = counted
          /\ InHand' = 0 /\ InHand \in {0, 1}
          /\ lock' = "reset" => lock = "reset"
      BY <2>11 DEF Finish
    <3> QED BY <3>2, <3>3 DEF Samples, Queued
  <2>12. CASE TaskPuts
    <3>1. Producing' = Producing - 1 /\ \E x \in Entries : Put(x)
      BY <2>12, PutStep DEF TypeOK
    <3>2. Samples' <= Samples + 1
      BY <3>1, PutProperties DEF TypeOK, Entries
    <3>3. /\ Producing' = Producing - 1 /\ staleness' = staleness /\ counted' = counted
          /\ InHand' = InHand /\ InHand \in {0, 1} /\ lock' = lock
      BY <2>12, <3>1 DEF TaskPuts
    <3> QED BY <3>2, <3>3 DEF Samples, Queued
  <2>13. CASE TaskRaises
    <3>1. Producing' = Producing - 1
      BY <2>13, ProducingSteps DEF TypeOK
    <3> QED BY <2>13, <3>1 DEF TaskRaises
  <2>14. CASE MonitorAsks
    BY <2>14 DEF MonitorAsks
  <2>15. CASE MonitorDecides
    BY <2>15 DEF MonitorDecides
  <2>16. CASE MonitorResumes
    BY <2>16 DEF MonitorResumes
  <2>17. CASE Collect
    <3>1. queue \in Seq(Entries) /\ queue # <<>> /\ queue' = Tail(queue)
      BY <2>17 DEF Collect, TypeOK, Entries
    <3>2. Samples' <= Samples
      <4>1. Samples = Samples' + SampleIn(queue[1])
        BY <3>1, SlotsOfTail DEF Samples, Queued, Slots
      <4>2. SampleIn(queue[1]) \in {0, 1}
        BY DEF SampleIn
      <4> QED BY <2>a, <4>1, <4>2
    <3>3. /\ Producing' = Producing /\ staleness' = staleness /\ counted' = counted
          /\ InHand' = InHand /\ InHand \in {0, 1} /\ lock' = lock
      BY <2>17 DEF Collect
    <3> QED BY <3>2, <3>3 DEF Samples, Queued
  <2>18. CASE Update
    BY <2>18 DEF Update
  <2>19. CASE UpdateWeights
    BY <2>19 DEF UpdateWeights
  <2>20. CASE ResetBegins
    BY <2>20 DEF ResetBegins, Active
  <2>21. CASE ResetEnds
    <3>1. lock = "reset"
      BY <2>21 DEF ResetEnds, TypeOK
    <3> QED BY <2>21, <3>1 DEF ResetEnds
  <2>22. CASE Save
    BY <2>22 DEF Save
  <2>23. CASE Final
    BY <2>23 DEF Final
  <2>24. CASE TaskEnds
    <3>1. Producing' = Producing
      BY <2>24, ProducingSteps DEF TypeOK
    <3> QED BY <2>24, <3>1 DEF TaskEnds
  <2>25. CASE UNCHANGED vars
    BY <2>25 DEF vars
  <2> QED
    BY <2>1, <2>2, <2>3, <2>4, <2>5, <2>6, <2>7, <2>8, <2>9,
       <2>10, <2>11, <2>12, <2>13, <2>14, <2>15, <2>16, <2>17,
       <2>18, <2>19, <2>20, <2>21, <2>22, <2>23, <2>24, <2>25
       DEF Next, Processor, Monitor, Trainer
<1>3. Bounded => OutstandingBounded
  BY DEF Bounded, OutstandingBounded
<1> QED BY <1>1, <1>2, <1>3, TypeCorrect, PTL DEF Spec

-----------------------------------------------------------------------------
\* The weights lag the version only from the end of a period's last update until
\* they are pushed.
Pushed ==
    \/ weights = version
    \/ train = "sync" /\ local = 1 /\ batch = 0 /\ weights = version - 1

Period == Required * Trigger
Collected == (local - 1) * Required + batch

\* What is ahead of an entry of an older version and what was collected since it
\* became older, a whole period for each further version, fits into the queue.
Aged(i, age, collected) == (i - 1) + (age - 1) * Period + collected <= MaxRequired - 1
Fresh == \A i \in 1..Len(queue) :
            queue[i] # None =>
                \/ queue[i].put = version
                \/ queue[i].put < version /\ Aged(i, version - queue[i].put, Collected)

\* The entries of a queue after a put are those of before, not further back, and
\* the new one, which is all that has come behind them.
LEMMA PutEntries ==
    ASSUME queue \in Seq(Entries), Len(queue) <= MaxRequired, dropped \in Nat,
           NEW x \in Entries, Put(x), NEW i \in 1..Len(queue')
    PROVE  \/ queue'[i] = x /\ i = Len(queue')
           \/ \E j \in 1..Len(queue) : /\ i <= j /\ queue'[i] = queue[j]
                                        /\ Len(queue') - i <= Len(queue) - j + 1
<1>1. MaxRequired \in Nat \ {0} /\ Len(queue) \in Nat
  BY ParametersAssumption, LenProperties
<1>2. CASE Len(queue) >= MaxRequired
  <2>1. queue # <<>> /\ queue' = Append(Tail(queue), x)
    BY <1>1, <1>2, EmptySeq DEF Put
  <2>2. /\ Tail(queue) \in Seq(Entries) /\ Len(Tail(queue)) = Len(queue) - 1
        /\ \A k \in 1..Len(Tail(queue)) : Tail(queue)[k] = queue[k + 1]
    BY <2>1, HeadTailProperties
  <2>3. /\ Len(queue') = Len(queue) /\ queue'[Len(queue)] = x
        /\ \A k \in 1..(Len(queue) - 1) : queue'[k] = Tail(queue)[k]
    BY <1>1, <2>1, <2>2, AppendProperties
  <2>4. CASE i = Len(queue)
    BY <2>3, <2>4
  <2>5. CASE i # Len(queue)
    <3>1. i \in 1..(Len(queue) - 1)
      BY <1>1, <2>3, <2>5
    <3>2. queue'[i] = queue[i + 1] /\ i + 1 \in 1..Len(queue) /\ i <= i + 1
      BY <1>1, <2>2, <2>3, <3>1
    <3>3. Len(queue') - i <= Len(queue) - (i + 1) + 1
      BY <1>1, <2>3, <3>1
    <3> QED BY <3>2, <3>3
  <2> QED BY <2>4, <2>5
<1>3. CASE Len(queue) < MaxRequired
  <2>1. queue' = Append(queue, x)
    BY <1>1, <1>3 DEF Put
  <2>2. /\ Len(queue') = Len(queue) + 1 /\ queue'[Len(queue) + 1] = x
        /\ \A k \in 1..Len(queue) : queue'[k] = queue[k]
    BY <2>1, AppendProperties
  <2>3. CASE i = Len(queue) + 1
    BY <2>2, <2>3
  <2>4. CASE i # Len(queue) + 1
    <3>1. i \in 1..Len(queue)
      BY <1>1, <2>2, <2>4
    <3>2. Len(queue') - i <= Len(queue) - i + 1 /\ i <= i
      BY <1>1, <2>2, <3>1
    <3> QED BY <2>2, <3>1, <3>2
  <2> QED BY <2>3, <2>4
<1> QED BY <1>1, <1>2, <1>3

\* A put leaves the entries fresh: those of before move up at most, and the new
\* one is of the version pushed last.
LEMMA PutFresh ==
    ASSUME TypeOK, TypeOK', Pushed, Fresh, NEW x \in Entries, Put(x),
           x # None => x.put = weights,
           UNCHANGED <<version, local, batch>>
    PROVE  Fresh'
<1> SUFFICES ASSUME NEW i \in 1..Len(queue'), queue'[i] # None
             PROVE  \/ queue'[i].put = version
                    \/ /\ queue'[i].put < version
                       /\ Aged(i, version - queue'[i].put, Collected)
  BY DEF Fresh, Collected
<1>1. /\ queue \in Seq(Entries) /\ Len(queue) <= MaxRequired /\ dropped \in Nat
      /\ x \in Entries /\ Len(queue') <= MaxRequired
  BY DEF TypeOK, Entries
<1>2. /\ version \in Nat /\ MaxRequired \in Nat /\ Period \in Int /\ Collected \in Int
      /\ Len(queue') \in Nat
  <2>1. version \in Nat /\ MaxRequired \in Nat
    BY ParametersAssumption DEF TypeOK
  <2>2. Period \in Int /\ Collected \in Int
    BY ParametersAssumption DEF TypeOK, Period, Collected
  <2>3. Len(queue') \in Nat
    BY LenProperties DEF TypeOK
  <2> QED BY <2>1, <2>2, <2>3
<1>3. CASE queue'[i] = x
  <2>1. queue'[i].put = weights
    BY <1>3
  <2>2. CASE weights = version
    BY <2>1, <2>2
  <2>3. CASE local = 1 /\ batch = 0 /\ weights = version - 1
    <3>1. Collected = 0
      BY <2>3, ParametersAssumption DEF Collected
    <3>2. (version - weights - 1) * Period = 0
      <4>1. version - weights - 1 = 0
        BY <1>2, <2>3
      <4> QED BY <1>2, <4>1
    <3>3. i - 1 <= MaxRequired - 1
      BY <1>1, <1>2
    <3> QED BY <1>2, <2>1, <2>3, <3>1, <3>2, <3>3 DEF Aged
  <2> QED BY <2>2, <2>3 DEF Pushed
<1>4. CASE \E j \in 1..Len(queue) : i <= j /\ queue'[i] = queue[j]
  <2>1. PICK j \in 1..Len(queue) : i <= j /\ queue'[i] = queue[j]
    BY <1>4
  <2> DEFINE v == queue[j].put
             over == (version - v - 1) * Period
  <2>2. CASE v = version
    BY <2>1, <2>2
  <2>3. CASE v < version /\ Aged(j, version - v, Collected)
    <3>1. v \in Nat
      <4>1. queue[j] \in Entries /\ queue[j] # None
        BY <1>1, <2>1, ElementOfSeq
      <4> QED BY <4>1 DEF Entries
    <3>2. over \in Int
      BY <1>2, <3>1
    <3>3. (j - 1) + over + Collected <= MaxRequired - 1
      BY <2>3 DEF Aged
    <3> HIDE DEF over
    <3>4. (i - 1) + over + Collected <= MaxRequired - 1
      BY <1>2, <2>1, <3>2, <3>3
    <3> QED BY <2>1, <2>3, <3>4 DEF Aged, over
  <2> QED BY <2>1, <2>2, <2>3 DEF Fresh
<1> QED BY <1>1, <1>3, <1>4, PutEntries

\* Taking an entry makes up for the sample collected with it, and a whole period
\* for the version that follows it.
LEMMA AgedArithmetic ==
    ASSUME NEW i \in Nat, NEW age \in Int, NEW c \in Int, NEW d \in Int, d <= c + 1
    PROVE  /\ Aged(i + 1, age, c) => Aged(i, age, d)
           /\ Aged(i, age, Period) => Aged(i, age + 1, 0)
           /\ i <= MaxRequired => Aged(i, 1, 0)
<1>1. MaxRequired \in Nat /\ Period \in Nat
  BY ParametersAssumption DEF Period
<1>2. PICK over \in Int : over = (age - 1) * Period
  BY <1>1
<1>3. (age + 1 - 1) * Period = over + Period
  BY <1>1, <1>2
<1>4. (1 - 1) * Period = 0
  BY <1>1
<1>5. Aged(i + 1, age, c) => Aged(i, age, d)
  BY <1>1, <1>2 DEF Aged
<1>6. Aged(i, age, Period) => Aged(i, age + 1, 0)
  BY <1>1, <1>2, <1>3 DEF Aged
<1>7. i <= MaxRequired => Aged(i, 1, 0)
  BY <1>1, <1>4 DEF Aged
<1> QED BY <1>5, <1>6, <1>7

\* Taking an entry moves the others up by one and collects at most one.
LEMMA CollectFresh ==
    ASSUME TypeOK, Fresh, Collect
    PROVE  Fresh'
<1>1. /\ queue \in Seq(Entries) /\ queue # <<>> /\ queue' = Tail(queue)
      /\ batch' \in {batch, batch + 1} /\ version' = version /\ local' = local
  BY DEF Collect, TypeOK, Entries, policy
<1>2. /\ Len(queue) \in Nat /\ Len(queue') = Len(queue) - 1
      /\ \A i \in 1..Len(queue') : queue'[i] = queue[i + 1]
  BY <1>1, HeadTailProperties, LenProperties
<1>3. Collected \in Int /\ Collected' \in Int /\ Collected' <= Collected + 1
  <2>1. /\ batch \in Int /\ batch' \in Int /\ batch' <= batch + 1
        /\ (local - 1) * Required \in Int
    BY <1>1, ParametersAssumption DEF TypeOK
  <2> QED BY <1>1, <2>1 DEF Collected
<1>4. SUFFICES ASSUME NEW i \in 1..Len(queue'), queue'[i] # None
               PROVE  \/ queue'[i].put = version
                      \/ /\ queue'[i].put < version
                         /\ Aged(i, version - queue'[i].put, Collected')
  BY <1>1 DEF Fresh
<1>5. i + 1 \in 1..Len(queue) /\ i \in Nat /\ queue'[i] = queue[i + 1]
  BY <1>2
<1>6. version - queue[i + 1].put \in Int
  <2>1. queue[i + 1] \in Entries /\ version \in Nat
    BY <1>1, <1>5, ElementOfSeq DEF TypeOK
  <2>2. queue[i + 1] # None
    BY <1>4, <1>5
  <2> QED BY <2>1, <2>2 DEF Entries
<1>7. \/ queue[i + 1].put = version
      \/ queue[i + 1].put < version /\ Aged(i + 1, version - queue[i + 1].put, Collected)
  BY <1>4, <1>5 DEF Fresh
<1>8. ASSUME Aged(i + 1, version - queue[i + 1].put, Collected)
      PROVE  Aged(i, version - queue[i + 1].put, Collected')
  <2>1. i \in Nat /\ version - queue[i + 1].put \in Int
    BY <1>5, <1>6
  <2> QED BY <1>3, <1>8, <2>1, AgedArithmetic, Zenon
<1>9. CASE queue[i + 1].put = version
  BY <1>5, <1>9
<1>10. CASE queue[i + 1].put < version /\ Aged(i + 1, version - queue[i + 1].put, Collected)
  <2>1. Aged(i, version - queue'[i].put, Collected')
    BY <1>5, <1>8, <1>10
  <2> QED BY <1>5, <1>10, <2>1
<1> QED BY <1>7, <1>9, <1>10

\* After an update a period has begun, and every entry is a version older, or
\* the same period goes on.
LEMMA UpdateFresh ==
    ASSUME TypeOK, Fresh, Update
    PROVE  Fresh'
<1>1. queue' = queue /\ batch = Required /\ batch' = 0
  BY DEF Update, sampleQueue
<1>2. /\ Required \in Nat /\ Trigger \in Nat /\ local \in 1..Trigger /\ version \in Nat
      /\ MaxRequired \in Nat
  BY ParametersAssumption DEF TypeOK
<1>3. Collected = local * Required
  BY <1>1, <1>2 DEF Collected
<1>4. CASE local < Trigger
  <2>1. local' = local + 1 /\ version' = version
    BY <1>4 DEF Update
  <2>2. Collected' = local * Required
    BY <1>1, <1>2, <2>1 DEF Collected
  <2> QED BY <1>1, <1>3, <2>1, <2>2 DEF Fresh
<1>5. CASE ~ (local < Trigger)
  <2>1. local' = 1 /\ version' = version + 1 /\ local = Trigger
    BY <1>2, <1>5 DEF Update
  <2>2. Collected' = 0 /\ Collected = Period
    BY <1>1, <1>2, <1>3, <2>1 DEF Collected, Period
  <2>3. ASSUME NEW i \in 1..Len(queue), queue[i] # None
        PROVE  queue[i].put < version' /\ Aged(i, version' - queue[i].put, Collected')
    <3>1. i \in Nat /\ i <= MaxRequired
      <4>1. Len(queue) \in Nat /\ Len(queue) <= MaxRequired
        BY LenProperties DEF TypeOK
      <4> QED BY <1>2, <4>1
    <3>2. queue[i].put \in Nat
      <4>1. queue[i] \in Entries
        BY ElementOfSeq DEF TypeOK, Entries
      <4> QED BY <2>3, <4>1 DEF Entries
    <3>3. version - queue[i].put \in Int /\ (version - queue[i].put) + 1 = version' - queue[i].put
      BY <1>2, <2>1, <3>2
    <3>4. CASE queue[i].put = version
      <4>1. version' - queue[i].put = 1
        BY <1>2, <2>1, <3>4
      <4>2. Aged(i, 1, 0)
        BY <3>1, AgedArithmetic
      <4> QED BY <1>2, <2>1, <2>2, <3>4, <4>1, <4>2
    <3>5. CASE queue[i].put < version /\ Aged(i, version - queue[i].put, Collected)
      <4> DEFINE age == version - queue[i].put
      <4>a. age \in Int /\ Aged(i, age, Period) /\ age + 1 = version' - queue[i].put
        BY <2>2, <3>3, <3>5
      <4> HIDE DEF age
      <4>b. Aged(i, age + 1, 0)
        <5>1. 0 \in Int /\ 0 <= 0 + 1 /\ i \in Nat
          BY <3>1
        <5> QED BY <4>a, <5>1, AgedArithmetic, Zenon
      <4>1. Aged(i, version' - queue[i].put, 0)
        BY <4>a, <4>b
      <4>2. queue[i].put < version'
        BY <1>2, <2>1, <3>2, <3>5
      <4> QED BY <2>2, <4>1, <4>2
    <3> QED BY <2>3, <3>4, <3>5 DEF Fresh
  <2> QED BY <1>1, <2>3 DEF Fresh
<1> QED BY <1>4, <1>5

\* How many whole periods fit.
LEMMA WholePeriods ==
    ASSUME NEW k \in Int, NEW p \in Nat \ {0}, NEW m \in Nat, k * p <= m
    PROVE  k <= m \div p
<1>1. m \div p \in Int /\ m < (m \div p) * p + p
  <2>1. m = (m \div p) * p + (m % p) /\ m % p \in 0..(p - 1) /\ m \div p \in Int
    OBVIOUS
  <2> QED BY <2>1
<1> DEFINE q == m \div p
<1>2. q \in Int /\ m < q * p + p
  BY <1>1
<1> HIDE DEF q
<1>3. ASSUME q < k PROVE FALSE
  <2>1. PICK n \in Nat : k = q + 1 + n
    BY <1>2, <1>3
  <2>2. k * p = q * p + p + n * p /\ n * p >= 0 /\ q * p \in Int /\ n * p \in Int
    BY <1>2, <2>1
  <2> QED BY <1>2, <2>2
<1>4. k <= q
  BY <1>2, <1>3
<1> QED BY <1>4 DEF q

\* No sample was put under weights newer than those of now.
PutBefore == \A i \in 1..Len(queue) : queue[i] # None => queue[i].put <= weights

\* The samples generated before the weights were those of a version and put
\* since: their tasks were held up when those weights were pushed.
Late(v) == {x \in [made : Nat, put : Nat] : x.made < v /\ x.put >= v}
Before(v) == {w \in Nat : w < v}
HeldUp(v) == Cardinality(Places(queue, Late(v))) + Cardinality(Places(ready, Before(v)))

\* They were tasks that ran at once, and only get fewer.
HeldBack == \A v \in Nat : v <= weights => HeldUp(v) <= MaxConcurrent

LEMMA HeldUpType ==
    ASSUME queue \in Seq(Entries), ready \in Seq(Nat), NEW v \in Nat
    PROVE  /\ Cardinality(Places(queue, Late(v))) \in Nat
           /\ Cardinality(Places(ready, Before(v))) \in Nat
           /\ Cardinality(Places(ready, Before(v))) <= Len(ready)
BY PlacesFinite, Zenon

\* A put adds at most the new entry to the places of a set.
LEMMA PutPlaces ==
    ASSUME queue \in Seq(Entries), Len(queue) <= MaxRequired, dropped \in Nat,
           NEW x \in Entries, Put(x), NEW S
    PROVE  Cardinality(Places(queue', S)) <= Cardinality(Places(queue, S)) + In(x, S)
<1>1. MaxRequired \in Nat \ {0} /\ Len(queue) \in Nat
  BY ParametersAssumption, LenProperties
<1>2. In(x, S) \in Nat /\ \A y : In(y, S) \in Nat
  BY DEF In
<1>3. CASE Len(queue) >= MaxRequired
  <2>1. queue # <<>> /\ queue' = Append(Tail(queue), x)
    BY <1>1, <1>3, EmptySeq DEF Put
  <2>2. Tail(queue) \in Seq(Entries)
    BY <2>1, HeadTailProperties
  <2>3. Cardinality(Places(queue, S)) = Cardinality(Places(Tail(queue), S)) + In(queue[1], S)
    BY <2>1, PlacesOfTail, Zenon
  <2>4. Cardinality(Places(queue', S)) = Cardinality(Places(Tail(queue), S)) + In(x, S)
    BY <2>1, <2>2, PlacesOfAppend, Zenon
  <2>5. Cardinality(Places(Tail(queue), S)) \in Nat
    BY <2>2, PlacesFinite, Zenon
  <2> QED BY <1>2, <2>3, <2>4, <2>5
<1>4. CASE Len(queue) < MaxRequired
  <2>1. queue' = Append(queue, x)
    BY <1>1, <1>4 DEF Put
  <2>2. Cardinality(Places(queue', S)) = Cardinality(Places(queue, S)) + In(x, S)
    BY <2>1, PlacesOfAppend, Zenon
  <2>3. Cardinality(Places(queue, S)) \in Nat
    BY PlacesFinite, Zenon
  <2> QED BY <1>2, <2>2, <2>3
<1> QED BY <1>1, <1>3, <1>4

\* A put moves a sample that is held up into the queue.
LEMMA TaskPutsHeld ==
    ASSUME TypeOK, TypeOK', HeldBack, PutBefore, TaskPuts
    PROVE  HeldBack' /\ PutBefore'
<1>1. PICK i \in 1..Len(ready) :
               /\ ready' = Without(ready, i)
               /\ Put(Sample(ready[i], weights))
               /\ Sample(ready[i], weights) \in Entries \ {None}
  BY PutStep DEF TypeOK
<1> DEFINE x == Sample(ready[i], weights)
<1>2. /\ queue \in Seq(Entries) /\ queue' \in Seq(Entries) /\ Len(queue) <= MaxRequired
      /\ dropped \in Nat /\ ready \in Seq(Nat) /\ ready' \in Seq(Nat)
      /\ ready[i] \in Nat /\ weights \in Nat /\ weights' = weights
  <2>1. ready[i] \in Nat
    BY ElementOfSeq DEF TypeOK
  <2>2. weights' = weights
    BY DEF TaskPuts, trainer, policy
  <2> QED BY <2>1, <2>2 DEF TypeOK, Entries
<1>3. HeldBack'
  <2> SUFFICES ASSUME NEW v \in Nat, v <= weights PROVE HeldUp(v)' <= MaxConcurrent
    BY <1>2 DEF HeldBack
  <2>1. In(x, Late(v)) = In(ready[i], Before(v))
    <3>1. x.made = ready[i] /\ x.put = weights /\ x \in [made : Nat, put : Nat]
      BY <1>2 DEF Sample
    <3>2. x \in Late(v) <=> ready[i] \in Before(v)
      BY <1>2, <3>1 DEF Late, Before
    <3> QED BY <3>2 DEF In
  <2>2. Cardinality(Places(queue', Late(v))) <=
            Cardinality(Places(queue, Late(v))) + In(x, Late(v))
    BY <1>1, <1>2, PutPlaces
  <2>3. Cardinality(Places(ready, Before(v))) =
            Cardinality(Places(ready', Before(v))) + In(ready[i], Before(v))
    <3>1. /\ Len(ready') = Len(ready) - 1
          /\ \A k \in 1..Len(ready') :
                ready'[k] = IF k < i THEN ready[k] ELSE ready[k + 1]
      BY <1>1, <1>2, WithoutProperties
    <3> QED BY <1>2, <3>1, PlacesLeft, Zenon
  <2>4. /\ Cardinality(Places(queue, Late(v))) \in Nat
        /\ Cardinality(Places(queue', Late(v))) \in Nat
        /\ Cardinality(Places(ready, Before(v))) \in Nat
        /\ Cardinality(Places(ready', Before(v))) \in Nat
    BY <1>2, PlacesFinite, Zenon
  <2>5. In(ready[i], Before(v)) \in Nat /\ MaxConcurrent \in Nat
    BY ParametersAssumption DEF In
  <2>6. HeldUp(v) <= MaxConcurrent
    BY DEF HeldBack
  <2>7. HeldUp(v)' = Cardinality(Places(queue', Late(v)))
                        + Cardinality(Places(ready', Before(v)))
    BY DEF HeldUp, Places, Late, Before
  <2> HIDE DEF x
  <2> QED BY <2>1, <2>2, <2>3, <2>4, <2>5, <2>6, <2>7 DEF HeldUp
<1>4. PutBefore'
  <2> SUFFICES ASSUME NEW k \in 1..Len(queue'), queue'[k] # None
               PROVE  queue'[k].put <= weights
    BY <1>2 DEF PutBefore
  <2>1. CASE queue'[k] = x
    BY <1>2, <2>1 DEF Sample
  <2>2. CASE \E j \in 1..Len(queue) : queue'[k] = queue[j]
    BY <2>2 DEF PutBefore
  <2> QED BY <1>1, <1>2, <2>1, <2>2, PutEntries
<1> QED BY <1>3, <1>4

\* The signal takes no place of a sample.
LEMMA FinishHeld ==
    ASSUME TypeOK, TypeOK', HeldBack, PutBefore, Finish
    PROVE  HeldBack' /\ PutBefore'
<1>1. Put(None) /\ UNCHANGED <<ready, weights>> /\ None \in Entries
  BY DEF Finish, tasks, trainer, policy, Entries
<1>2. /\ queue \in Seq(Entries) /\ queue' \in Seq(Entries) /\ Len(queue) <= MaxRequired
      /\ dropped \in Nat /\ ready \in Seq(Nat) /\ weights \in Nat
  BY DEF TypeOK, Entries
<1>3. HeldBack'
  <2> SUFFICES ASSUME NEW v \in Nat, v <= weights PROVE HeldUp(v)' <= MaxConcurrent
    BY <1>1 DEF HeldBack
  <2>1. In(None, Late(v)) = 0
    <3>1. None.made = -1
      BY DEF None, Sample
    <3>2. None \notin [made : Nat, put : Nat]
      BY <3>1
    <3> QED BY <3>2 DEF In, Late
  <2>2. Cardinality(Places(queue', Late(v))) <=
            Cardinality(Places(queue, Late(v))) + In(None, Late(v))
    BY <1>1, <1>2, PutPlaces
  <2>3. /\ Cardinality(Places(queue, Late(v))) \in Nat
        /\ Cardinality(Places(queue', Late(v))) \in Nat
        /\ Cardinality(Places(ready, Before(v))) \in Nat /\ MaxConcurrent \in Nat
    <3>1. /\ Cardinality(Places(queue, Late(v))) \in Nat
          /\ Cardinality(Places(queue', Late(v))) \in Nat
          /\ Cardinality(Places(ready, Before(v))) \in Nat
      BY <1>2, PlacesFinite, Zenon
    <3> QED BY <3>1, ParametersAssumption
  <2>4. HeldUp(v) <= MaxConcurrent
    BY DEF HeldBack
  <2>5. HeldUp(v)' = Cardinality(Places(queue', Late(v)))
                        + Cardinality(Places(ready, Before(v)))
    BY <1>1 DEF HeldUp, Places, Late, Before
  <2> QED BY <2>1, <2>2, <2>3, <2>4, <2>5 DEF HeldUp
<1>4. PutBefore'
  <2> SUFFICES ASSUME NEW k \in 1..Len(queue'), queue'[k] # None
               PROVE  queue'[k].put <= weights
    BY <1>1 DEF PutBefore
  <2>1. PICK j \in 1..Len(queue) : queue'[k] = queue[j]
    BY <1>1, <1>2, PutEntries
  <2> QED BY <2>1 DEF PutBefore
<1> QED BY <1>3, <1>4

\* A sample that is taken leaves the queue.
LEMMA CollectHeld ==
    ASSUME TypeOK, TypeOK', HeldBack, PutBefore, Collect
    PROVE  HeldBack' /\ PutBefore'
<1>1. /\ queue \in Seq(Entries) /\ queue' \in Seq(Entries) /\ queue # <<>>
      /\ queue' = Tail(queue) /\ UNCHANGED <<ready, weights>> /\ ready \in Seq(Nat)
      /\ weights \in Nat
  BY DEF Collect, tasks, policy, TypeOK, Entries
<1>2. HeldBack'
  <2> SUFFICES ASSUME NEW v \in Nat, v <= weights PROVE HeldUp(v)' <= MaxConcurrent
    BY <1>1 DEF HeldBack
  <2>1. Cardinality(Places(queue, Late(v))) =
            Cardinality(Places(queue', Late(v))) + In(queue[1], Late(v))
    BY <1>1, PlacesOfTail, Zenon
  <2>2. /\ Cardinality(Places(queue', Late(v))) \in Nat
        /\ Cardinality(Places(ready, Before(v))) \in Nat
    BY <1>1, PlacesFinite, Zenon
  <2>3. In(queue[1], Late(v)) \in Nat /\ MaxConcurrent \in Nat
    BY ParametersAssumption DEF In
  <2>4. HeldUp(v) <= MaxConcurrent
    BY DEF HeldBack
  <2>5. HeldUp(v)' = Cardinality(Places(queue', Late(v)))
                        + Cardinality(Places(ready, Before(v)))
    BY <1>1 DEF HeldUp, Places, Late, Before
  <2> QED BY <2>1, <2>2, <2>3, <2>4, <2>5 DEF HeldUp
<1>3. PutBefore'
  <2>1. /\ Len(queue) \in Nat /\ Len(queue') = Len(queue) - 1
        /\ \A k \in 1..Len(queue') : queue'[k] = queue[k + 1]
    BY <1>1, HeadTailProperties, LenProperties
  <2> QED BY <1>1, <2>1 DEF PutBefore
<1> QED BY <1>2, <1>3

\* A generation that ends is of the weights of now.
LEMMA TaskEndsHeld ==
    ASSUME TypeOK, HeldBack, PutBefore, TaskEnds
    PROVE  HeldBack' /\ PutBefore'
<1>1. /\ ready \in Seq(Nat) /\ weights \in Nat /\ ready' = Append(ready, weights)
      /\ UNCHANGED <<queue, weights>>
  BY DEF TaskEnds, sampleQueue, trainer, policy, TypeOK
<1>2. ASSUME NEW v \in Nat, v <= weights PROVE HeldUp(v)' <= MaxConcurrent
  <2>1. In(weights, Before(v)) = 0
    BY <1>1, <1>2 DEF In, Before
  <2>2. Cardinality(Places(ready', Before(v))) =
            Cardinality(Places(ready, Before(v))) + In(weights, Before(v))
    BY <1>1, PlacesOfAppend, Zenon
  <2>3. Cardinality(Places(ready, Before(v))) \in Nat
    BY <1>1, PlacesFinite, Zenon
  <2>4. HeldUp(v) <= MaxConcurrent
    BY <1>2 DEF HeldBack
  <2>5. HeldUp(v)' = Cardinality(Places(queue, Late(v)))
                        + Cardinality(Places(ready', Before(v)))
    BY <1>1 DEF HeldUp, Places, Late, Before
  <2>6. Cardinality(Places(ready', Before(v))) = Cardinality(Places(ready, Before(v)))
    BY <2>1, <2>2, <2>3
  <2> QED BY <2>4, <2>5, <2>6 DEF HeldUp
<1> QED BY <1>1, <1>2 DEF HeldBack, PutBefore

\* When weights are pushed, the queue has no sample put under them, and the tasks
\* held up are at most those that run.
LEMMA UpdateWeightsHeld ==
    ASSUME TypeOK, TypeOK', HeldBack, PutBefore, UpdateWeights
    PROVE  HeldBack' /\ PutBefore'
<1>1. /\ queue \in Seq(Entries) /\ ready \in Seq(Nat) /\ UNCHANGED <<queue, ready>>
      /\ weights \in Nat /\ weights' \in Nat /\ weights <= weights'
  BY DEF UpdateWeights, sampleQueue, tasks, TypeOK, Entries
<1>2. ASSUME NEW v \in Nat, v <= weights' PROVE HeldUp(v)' <= MaxConcurrent
  <2>1. HeldUp(v)' = HeldUp(v)
    BY <1>1 DEF HeldUp, Places, Late, Before
  <2>2. CASE v <= weights
    BY <2>1, <2>2 DEF HeldBack
  <2>3. CASE ~ (v <= weights)
    <3>1. Places(queue, Late(v)) = {}
      <4> SUFFICES ASSUME NEW i \in 1..Len(queue), queue[i] \in Late(v) PROVE FALSE
        BY DEF Places
      <4>1. queue[i] \in [made : Nat, put : Nat] /\ queue[i].put >= v
        BY DEF Late
      <4>2. queue[i] # None
        <5>1. None.made = -1
          BY DEF None, Sample
        <5> QED BY <4>1, <5>1
      <4>3. queue[i].put <= weights
        BY <4>2 DEF PutBefore
      <4> QED BY <1>1, <2>3, <4>1, <4>3
    <3>2. Cardinality(Places(queue, Late(v))) = 0
      BY <3>1, FS_EmptySet
    <3>3. /\ Cardinality(Places(ready, Before(v))) \in Nat
          /\ Cardinality(Places(ready, Before(v))) <= Len(ready)
      BY <1>1, HeldUpType
    <3>4. Len(ready) <= MaxConcurrent
      <4>1. /\ working + Len(ready) + finished + raised <= MaxConcurrent
            /\ working \in Nat /\ finished \in Nat /\ raised \in Nat
        BY DEF TypeOK, Active, Producing
      <4>2. Len(ready) \in Nat /\ MaxConcurrent \in Nat
        BY <1>1, LenProperties, ParametersAssumption
      <4> QED BY <4>1, <4>2
    <3>5. Len(ready) \in Nat /\ MaxConcurrent \in Nat
      BY <1>1, LenProperties, ParametersAssumption
    <3> QED BY <2>1, <3>2, <3>3, <3>4, <3>5 DEF HeldUp
  <2> QED BY <2>2, <2>3
<1>3. PutBefore'
  <2>1. \A i \in 1..Len(queue) : queue[i] # None => queue[i].put \in Nat
    <3>1. \A i \in 1..Len(queue) : queue[i] \in Entries
      BY <1>1, ElementOfSeq
    <3> QED BY <3>1 DEF Entries
  <2> QED BY <1>1, <2>1 DEF PutBefore
<1> QED BY <1>2, <1>3 DEF HeldBack

\* No sample waits in the queue for more versions than a version's samples fit
\* into it, and one more; and however long a task is held up between the end of
\* its generation and its put, while any number of versions go by, the queue never
\* has more samples older than that than tasks run at once. For every batch size,
\* period and threshold.
THEOREM AgeLimited == Spec => []QueueIsFresh
<1> DEFINE Ages == Pushed /\ Fresh /\ PutBefore /\ HeldBack
<1>1. Init => Ages
  <2> SUFFICES ASSUME Init PROVE Ages
    OBVIOUS
  <2>1. Len(queue) = 0 /\ queue \in Seq(Entries) /\ Len(ready) = 0 /\ ready \in Seq(Nat)
    BY EmptySeq DEF Init
  <2>2. ASSUME NEW v \in Nat PROVE HeldUp(v) = 0
    <3>1. Places(queue, Late(v)) = {} /\ Places(ready, Before(v)) = {}
      BY <2>1 DEF Places
    <3> QED BY <3>1, FS_EmptySet DEF HeldUp
  <2>3. HeldBack
    BY <2>2, ParametersAssumption DEF HeldBack
  <2> QED BY <2>1, <2>3 DEF Init, Pushed, Fresh, PutBefore
<1>2. TypeOK /\ TypeOK' /\ Ages /\ [Next]_vars => Ages'
  <2> SUFFICES ASSUME TypeOK, TypeOK', Ages, [Next]_vars PROVE Ages'
    OBVIOUS
  <2>1. ASSUME UNCHANGED trainer PROVE Pushed' /\ UNCHANGED <<version, local, batch, weights>>
    BY <2>1 DEF trainer, policy, Pushed
  <2>2. ASSUME UNCHANGED <<queue, version, local, batch>> PROVE Fresh'
    BY <2>2 DEF Fresh, Collected
  <2>a. ASSUME UNCHANGED <<queue, ready, weights>> PROVE HeldBack' /\ PutBefore'
    <3>1. \A v : HeldUp(v)' = HeldUp(v)
      BY <2>a DEF HeldUp, Places, Late, Before
    <3> QED BY <2>a, <3>1 DEF HeldBack, PutBefore
  <2>3. CASE (Processor /\ ~Finish) \/ TaskRaises \/ Monitor \/ UNCHANGED vars
    <3>1. UNCHANGED <<queue, ready, trainer>>
      BY <2>3 DEF Processor, CheckQueue, Pause, PauseLate, DrainReap, Resumed, Take, Locks,
         WaitReap, ReapRaises, Submit, TaskRaises, Monitor, MonitorAsks, MonitorDecides,
         MonitorResumes, vars, sampleQueue, tasks
    <3>2. UNCHANGED weights
      BY <2>1, <3>1
    <3> QED BY <2>1, <2>2, <2>a, <3>1, <3>2
  <2>4. CASE Finish
    <3>1. UNCHANGED trainer /\ Put(None) /\ None \in Entries
      BY <2>4 DEF Finish, Entries
    <3> QED BY <2>1, <2>4, <3>1, PutFresh, FinishHeld
  <2>5. CASE TaskPuts
    <3>1. UNCHANGED trainer
      BY <2>5 DEF TaskPuts
    <3>2. PICK x \in Entries : Put(x) /\ x.put = weights
      <4>1. \A m : Sample(m, weights).put = weights
        BY DEF Sample
      <4> QED BY <2>5, <4>1, PutStep DEF TypeOK
    <3> QED BY <2>1, <2>5, <3>1, <3>2, PutFresh, TaskPutsHeld
  <2>b. CASE TaskEnds
    <3>1. UNCHANGED <<queue, trainer>>
      BY <2>b DEF TaskEnds, sampleQueue
    <3> QED BY <2>1, <2>2, <2>b, <3>1, TaskEndsHeld
  <2>6. CASE Collect
    <3>1. weights = version
      BY <2>6 DEF Collect, Pushed
    <3>2. Pushed'
      BY <2>6, <3>1 DEF Collect, policy, Pushed
    <3> QED BY <2>6, <3>2, CollectFresh, CollectHeld
  <2>7. CASE Update
    <3>1. weights = version /\ version \in Nat
      BY <2>7 DEF Update, Pushed, TypeOK
    <3>2. Pushed'
      BY <2>7, <3>1 DEF Update, Pushed
    <3>3. UNCHANGED <<queue, ready, weights>>
      BY <2>7 DEF Update, sampleQueue, tasks
    <3> QED BY <2>7, <2>a, <3>2, <3>3, UpdateFresh
  <2>8. CASE UpdateWeights
    <3>1. UNCHANGED <<queue, version, local, batch>>
      BY <2>8 DEF UpdateWeights, sampleQueue
    <3>2. Pushed'
      BY <2>8 DEF UpdateWeights, Pushed
    <3> QED BY <2>2, <2>8, <3>1, <3>2, UpdateWeightsHeld
  <2>9. CASE ResetBegins \/ ResetEnds \/ Save \/ Final
    <3>1. UNCHANGED <<queue, ready, version, local, batch, weights>> /\ train # "sync"
      BY <2>9 DEF ResetBegins, ResetEnds, Save, Final, sampleQueue, tasks, policy
    <3>2. Pushed'
      BY <3>1 DEF Pushed
    <3> QED BY <2>2, <2>a, <3>1, <3>2
  <2> QED BY <2>3, <2>4, <2>5, <2>b, <2>6, <2>7, <2>8, <2>9 DEF Next, Trainer
<1>3. TypeOK /\ Ages => QueueIsFresh
  <2> SUFFICES ASSUME TypeOK, Ages PROVE QueueIsFresh
    OBVIOUS
  <2>1. /\ Period \in Nat \ {0} /\ MaxRequired - 1 \in Nat /\ version \in Nat
        /\ Collected \in Nat /\ (MaxRequired - 1) \div Period \in Nat
        /\ Wait = 1 + (MaxRequired - 1) \div Period
    <3>1. Period \in Nat \ {0} /\ MaxRequired - 1 \in Nat /\ version \in Nat
      BY ParametersAssumption DEF Period, TypeOK
    <3>2. local - 1 \in Nat /\ Required \in Nat /\ batch \in Nat
      BY ParametersAssumption DEF TypeOK
    <3>3. Collected \in Nat
      BY <3>2 DEF Collected
    <3>4. Wait = 1 + (MaxRequired - 1) \div Period
      BY DEF Wait, Period
    <3> HIDE DEF Period
    <3> QED BY <3>1, <3>3, <3>4
  <2>2. ASSUME NEW i \in Queued PROVE version - queue[i].put <= Wait
    <3> DEFINE v == queue[i].put
               k == version - v - 1
    <3>1. i \in 1..Len(queue) /\ queue[i] # None
      BY DEF Queued
    <3>2. v \in Nat
      <4>1. queue[i] \in Entries
        BY <3>1, ElementOfSeq DEF TypeOK, Entries
      <4> QED BY <3>1, <4>1 DEF Entries
    <3>3. k \in Int
      BY <2>1, <3>2
    <3>4. k * Period <= MaxRequired - 1
      <4>1. CASE v = version
        <5>1. k = -1
          BY <2>1, <4>1
        <5> QED BY <2>1, <5>1
      <4>2. CASE Aged(i, version - v, Collected)
        <5>1. (i - 1) + k * Period + Collected <= MaxRequired - 1
          BY <4>2 DEF Aged
        <5>2. k * Period \in Int /\ i \in Nat /\ i >= 1
          BY <2>1, <3>1, <3>3
        <5> HIDE DEF k
        <5> QED BY <2>1, <5>1, <5>2
      <4> QED BY <3>1, <4>1, <4>2 DEF Fresh
    <3>5. k <= (MaxRequired - 1) \div Period
      BY <2>1, <3>3, <3>4, WholePeriods
    <3> QED BY <2>1, <3>2, <3>5
  <2>3. Cardinality({i \in Queued : version - queue[i].made > Wait}) <= MaxConcurrent
    <3> DEFINE old == {i \in Queued : version - queue[i].made > Wait}
               v == version - Wait
    <3>1. \A i \in old : /\ i \in 1..Len(queue) /\ queue[i] \in [made : Nat, put : Nat]
                         /\ queue[i].made < v /\ queue[i].put >= v
      <4> TAKE i \in old
      <4>1. i \in Queued /\ version - queue[i].made > Wait
        OBVIOUS
      <4>2. i \in 1..Len(queue) /\ queue[i] # None
        BY <4>1 DEF Queued
      <4>3. queue[i] \in [made : Nat, put : Nat]
        <5>1. queue[i] \in Entries
          BY <4>2, ElementOfSeq DEF TypeOK, Entries
        <5> QED BY <4>2, <5>1 DEF Entries
      <4>4. version - queue[i].put <= Wait /\ Wait \in Nat
        BY <2>1, <2>2, <4>1
      <4> QED BY <2>1, <4>1, <4>2, <4>3, <4>4
    <3>2. CASE v \in Nat
      <4>1. v <= weights
        <5>1. weights \in Nat /\ weights >= version - 1 /\ Wait \in Nat /\ Wait >= 1
          BY <2>1 DEF Pushed, TypeOK
        <5> QED BY <2>1, <5>1
      <4> HIDE DEF v
      <4>2. old \subseteq Places(queue, Late(v))
        BY <3>1 DEF Places, Late
      <4> HIDE DEF old
      <4>3. queue \in Seq(Entries) /\ ready \in Seq(Nat)
        BY DEF TypeOK, Entries
      <4>4. IsFiniteSet(Places(queue, Late(v)))
        BY <4>3, PlacesFinite, Zenon
      <4>5. /\ IsFiniteSet(old)
            /\ Cardinality(old) <= Cardinality(Places(queue, Late(v)))
        BY <4>2, <4>4, FS_Subset
      <4>6. HeldUp(v) <= MaxConcurrent
        BY <3>2, <4>1 DEF HeldBack
      <4>7. /\ Cardinality(Places(queue, Late(v))) \in Nat
            /\ Cardinality(Places(ready, Before(v))) \in Nat
        BY <3>2, <4>3, HeldUpType
      <4>8. Cardinality(old) \in Nat /\ MaxConcurrent \in Nat
        BY <4>5, FS_CardinalityType, ParametersAssumption
      <4> QED BY <4>5, <4>6, <4>7, <4>8 DEF HeldUp, old
    <3>3. CASE v \notin Nat
      <4>1. v \in Int /\ v < 0
        BY <2>1, <3>3
      <4>2. old = {}
        <5> SUFFICES ASSUME NEW i \in old PROVE FALSE
          OBVIOUS
        <5>1. queue[i].made \in Nat /\ queue[i].made < v
          BY <3>1
        <5> HIDE DEF v, old
        <5> QED BY <4>1, <5>1
      <4>3. Cardinality({}) = 0 /\ MaxConcurrent \in Nat
        BY FS_EmptySet, ParametersAssumption
      <4> HIDE DEF old
      <4>4. Cardinality(old) <= MaxConcurrent
        BY <4>2, <4>3
      <4> QED BY <4>4 DEF old
    <3> QED BY <3>2, <3>3
  <2> QED BY <2>2, <2>3 DEF QueueIsFresh
<1> HIDE DEF Ages
<1> QED BY <1>1, <1>2, <1>3, TypeCorrect, PTL DEF Spec

-----------------------------------------------------------------------------
Counting == popped = Outstanding + Required * updates + batch + dropped + lost

\* The termination signal comes when the processor has ended. What may still be
\* put behind it is less than the queue holds, because the processor ended when
\* none was generating or with one that raised; so it is not dropped, and when
\* none raised nothing is behind it.
SignalKept ==
    \A i \in 1..Len(queue) : queue[i] = None =>
        /\ proc = "done"
        /\ Len(queue) - i + Producing <= MaxRequired - 1
        /\ lost = 0 => i = Len(queue)

Ending ==
    /\ proc = "failed" => Producing <= MaxRequired - 1 /\ lost > 0
    /\ raised > 0 => lost > 0
    /\ proc = "ending" => popped = Total
    /\ proc = "done" /\ lost = 0 => popped = Total /\ Producing = 0

Stopping ==
    /\ train \in {"final", "stopped"} => stopping
    /\ stopping => /\ train # "collect" /\ batch < Required /\ proc = "done"
                   /\ lost = 0 => queue = <<>>

\* A queue that is full has a sample in front while one is generating.
LEMMA SampleInFront ==
    ASSUME TypeOK, SignalKept, Producing > 0 \/ proc # "done"
    PROVE  Len(queue) < MaxRequired \/ queue[1] # None
<1>1. /\ Len(queue) \in Nat /\ Producing \in Nat /\ MaxRequired \in Nat \ {0}
  BY LenProperties, ProducingType, ParametersAssumption DEF TypeOK
<1>2. SUFFICES ASSUME Len(queue) >= MaxRequired, queue[1] = None PROVE FALSE
  BY <1>1
<1>3. 1 \in 1..Len(queue)
  BY <1>1, <1>2
<1>4. proc = "done" /\ Len(queue) - 1 + Producing <= MaxRequired - 1
  BY <1>2, <1>3 DEF SignalKept
<1> QED BY <1>1, <1>2, <1>4

\* A put is counted.
LEMMA PutCounted ==
    ASSUME TypeOK, SignalKept, Producing > 0 \/ proc # "done", NEW x \in Entries, Put(x)
    PROVE  \E k \in {0, 1} : /\ Samples' = Samples + SampleIn(x) - k
                             /\ dropped' = dropped + k
BY SampleInFront, PutProperties DEF TypeOK, Entries

\* A generation that ends puts a sample, which leaves room for the signal.
LEMMA TaskPutsAccounted ==
    ASSUME TypeOK, TypeOK', Counting, SignalKept, Ending, Stopping, TaskPuts
    PROVE  (Counting /\ SignalKept /\ Ending /\ Stopping)'
<1> PICK x \in Entries \ {None} : Put(x)
  BY PutStep DEF TypeOK
<1>1. /\ Producing \in Nat /\ Producing > 0 /\ Producing' = Producing - 1 /\ Put(x)
      /\ UNCHANGED <<proc, popped, raised, lost, train, stopping, batch, updates>>
      /\ InHand' = InHand
  <2>1. Producing \in Nat /\ Producing > 0 /\ Producing' = Producing - 1
    BY ProducingType, PutStep DEF TypeOK
  <2> QED BY <2>1 DEF TaskPuts, processor, control, trainer, policy, InHand
<1>2. x \in Entries /\ x # None
  OBVIOUS
<1>3. /\ queue \in Seq(Entries) /\ Len(queue) <= MaxRequired /\ dropped \in Nat
      /\ Len(queue') \in Nat /\ Len(queue) \in Nat /\ MaxRequired \in Nat
  BY LenProperties, ParametersAssumption DEF TypeOK, Entries
<1>4. Counting'
  <2>1. PICK k \in {0, 1} : Samples' = Samples + 1 - k /\ dropped' = dropped + k
    <3>1. SampleIn(x) = 1
      BY <1>2 DEF SampleIn
    <3> QED BY <1>1, <1>2, <3>1, PutCounted
  <2>2. /\ Samples \in Nat /\ Samples' \in Nat /\ dropped' \in Nat /\ InHand \in Nat
        /\ batch \in Nat /\ lost \in Nat /\ Required * updates \in Nat
    <3>1. Samples \in Nat /\ Samples' \in Nat
      <4>1. queue' \in Seq(Entries)
        BY DEF TypeOK, Entries
      <4> QED BY <1>3, <4>1, SlotsFinite DEF Samples, Queued, Slots
    <3>2. dropped' \in Nat /\ InHand \in Nat /\ batch \in Nat /\ lost \in Nat
      BY ParametersAssumption DEF TypeOK, InHand
    <3>3. Required * updates \in Nat
      BY ParametersAssumption DEF TypeOK
    <3> QED BY <3>1, <3>2, <3>3
  <2> DEFINE trained == Required * updates
  <2>3. /\ popped = Samples + Producing + InHand + trained + batch + dropped + lost
        /\ trained' = trained
    BY <1>1 DEF Counting, Outstanding
  <2>4. trained \in Nat /\ dropped \in Nat /\ Producing \in Nat
    BY <1>1, <1>3, <2>2
  <2>6. popped' = popped /\ batch' = batch /\ lost' = lost /\ InHand' = InHand
    BY <1>1
  <2>7. InHand \in Nat
    BY DEF InHand
  <2>8. Producing' = Producing - 1
    BY <1>1
  <2> HIDE DEF trained
  <2>5. popped' = Samples' + Producing' + InHand' + trained + batch' + dropped' + lost'
    BY <2>1, <2>2, <2>3, <2>4, <2>6, <2>7, <2>8
  <2> QED BY <2>3, <2>5 DEF Counting, Outstanding, trained
<1>5. lost = 0 => proc # "done"
  BY <1>1 DEF Ending
<1>6. SignalKept'
  <2> SUFFICES ASSUME NEW i \in 1..Len(queue'), queue'[i] = None
               PROVE  /\ proc' = "done"
                      /\ Len(queue') - i + Producing' <= MaxRequired - 1
                      /\ lost' = 0 => i = Len(queue')
    BY DEF SignalKept
  <2>1. PICK j \in 1..Len(queue) : /\ Len(queue') - i <= Len(queue) - j + 1
                                   /\ queue'[i] = queue[j]
    BY <1>1, <1>2, <1>3, PutEntries
  <2>2. proc = "done" /\ Len(queue) - j + Producing <= MaxRequired - 1
    BY <2>1 DEF SignalKept
  <2>3. proc' = "done" /\ lost' # 0
    BY <1>1, <1>5, <2>2
  <2>4. i \in Int /\ j \in Int /\ Len(queue') - i <= Len(queue) - j + 1
    BY <1>3, <2>1
  <2>5. Producing' = Producing - 1
    BY <1>1
  <2>6. Len(queue') - i + Producing' <= MaxRequired - 1
    <3>1. /\ Len(queue') \in Int /\ Len(queue) \in Int /\ Producing \in Int
          /\ MaxRequired \in Int
      BY <1>1, <1>3
    <3> QED BY <2>2, <2>4, <2>5, <3>1
  <2> QED BY <2>3, <2>6
<1>7. Ending' /\ Stopping'
  <2>1. Ending'
    <3>1. Producing <= MaxRequired - 1 => Producing' <= MaxRequired - 1
      BY <1>1, <1>3
    <3> QED BY <1>1, <1>5, <3>1 DEF Ending
  <2>2. Stopping'
    BY <1>1, <1>5 DEF Stopping
  <2> QED BY <2>1, <2>2
<1> QED BY <1>4, <1>6, <1>7

\* The signal is put with fewer generations running than the queue holds.
LEMMA FinishAccounted ==
    ASSUME TypeOK, TypeOK', Counting, SignalKept, Ending, Stopping, Finish
    PROVE  (Counting /\ SignalKept /\ Ending /\ Stopping)'
<1>1. /\ proc \in {"ending", "failed"} /\ proc' = "done" /\ Put(None)
      /\ UNCHANGED <<Producing, popped, raised, lost, train, stopping, batch, updates>>
      /\ InHand' = 0 /\ InHand = 0
  BY DEF Finish, tasks, trainer, policy, InHand, Producing
<1>2. None \in Entries
  BY DEF Entries
<1>3. /\ queue \in Seq(Entries) /\ Len(queue) <= MaxRequired /\ dropped \in Nat
      /\ Len(queue') \in Nat /\ Len(queue) \in Nat /\ MaxRequired \in Nat \ {0}
      /\ Producing \in Nat
  <2>1. MaxRequired \in Nat \ {0}
    BY ParametersAssumption
  <2>2. Len(queue') \in Nat /\ Len(queue) \in Nat
    BY LenProperties DEF TypeOK
  <2> QED BY <2>1, <2>2, ProducingType DEF TypeOK, Entries
<1>4. Counting'
  <2>1. PICK k \in {0, 1} : Samples' = Samples + 0 - k /\ dropped' = dropped + k
    <3>1. SampleIn(None) = 0
      BY DEF SampleIn
    <3> QED BY <1>1, <1>2, <3>1, PutCounted
  <2>2. /\ Samples \in Nat /\ Samples' \in Nat /\ dropped' \in Nat
        /\ batch \in Nat /\ lost \in Nat /\ Required * updates \in Nat
    <3>1. Samples \in Nat /\ Samples' \in Nat
      <4>1. queue' \in Seq(Entries)
        BY DEF TypeOK, Entries
      <4> QED BY <1>3, <4>1, SlotsFinite DEF Samples, Queued, Slots
    <3>2. dropped' \in Nat /\ batch \in Nat /\ lost \in Nat
      BY ParametersAssumption DEF TypeOK
    <3>3. Required * updates \in Nat
      BY ParametersAssumption DEF TypeOK
    <3> QED BY <3>1, <3>2, <3>3
  <2> DEFINE trained == Required * updates
  <2>3. /\ popped = Samples + Producing + InHand + trained + batch + dropped + lost
        /\ trained' = trained
    BY <1>1 DEF Counting, Outstanding
  <2>4. trained \in Nat /\ dropped \in Nat /\ Producing \in Nat
    BY <1>1, <1>3, <2>2
  <2>6. popped' = popped /\ batch' = batch /\ lost' = lost /\ InHand' = InHand
    BY <1>1
  <2>7. InHand \in Nat
    BY DEF InHand
  <2>8. Producing' = Producing
    BY <1>1
  <2> HIDE DEF trained
  <2>5. popped' = Samples' + Producing' + InHand' + trained + batch' + dropped' + lost'
    BY <2>1, <2>2, <2>3, <2>4, <2>6, <2>7, <2>8
  <2> QED BY <2>3, <2>5 DEF Counting, Outstanding, trained
<1>5. Producing <= MaxRequired - 1 /\ (lost = 0 => Producing = 0)
  <2>1. CASE proc = "ending"
    <3>1. Producing + finished + raised = 0 /\ finished \in Nat /\ raised \in Nat
      BY <2>1 DEF Finish, Active, TypeOK
    <3> QED BY <1>3, <3>1
  <2>2. CASE proc = "failed"
    BY <2>2 DEF Ending
  <2> QED BY <1>1, <2>1, <2>2
<1>6. SignalKept'
  <2> SUFFICES ASSUME NEW i \in 1..Len(queue'), queue'[i] = None
               PROVE  /\ proc' = "done"
                      /\ Len(queue') - i + Producing' <= MaxRequired - 1
                      /\ lost' = 0 => i = Len(queue')
    BY DEF SignalKept
  <2>1. i = Len(queue')
    <3>1. ASSUME NEW j \in 1..Len(queue), queue[j] = None PROVE FALSE
      BY <1>1, <3>1 DEF SignalKept
    <3> QED BY <1>1, <1>2, <1>3, <3>1, PutEntries
  <2> QED BY <1>1, <1>3, <1>5, <2>1
<1>7. Ending' /\ Stopping'
  <2>1. lost = 0 => popped = Total
    BY <1>1 DEF Ending
  <2>2. Ending'
    BY <1>1, <1>5, <2>1 DEF Ending
  <2>3. ~ stopping
    BY <1>1 DEF Stopping
  <2> QED BY <1>1, <2>2, <2>3 DEF Stopping
<1> QED BY <1>4, <1>6, <1>7

\* Taking the signal ends the collecting; when no generation raised it was last.
LEMMA CollectAccounted ==
    ASSUME TypeOK, TypeOK', Counting, SignalKept, Ending, Stopping, Collect
    PROVE  (Counting /\ SignalKept /\ Ending /\ Stopping)'
<1>1. /\ queue \in Seq(Entries) /\ queue # <<>> /\ queue' = Tail(queue)
      /\ train = "collect" /\ batch < Required
      /\ UNCHANGED <<proc, popped, Producing, raised, lost, dropped, updates>>
      /\ InHand' = InHand
  BY DEF Collect, TypeOK, Entries, processor, tasks, policy, InHand, Producing
<1>2. /\ Len(queue) \in Nat \ {0} /\ Len(queue') = Len(queue) - 1
      /\ \A i \in 1..Len(queue') : queue'[i] = queue[i + 1]
      /\ Head(queue) = queue[1] /\ queue' \in Seq(Entries)
  BY <1>1, HeadTailProperties, LenProperties, EmptySeq
<1>3. batch' = batch + SampleIn(queue[1])
  <2>1. batch \in Nat
    BY ParametersAssumption DEF TypeOK
  <2> QED BY <1>2, <2>1 DEF Collect, SampleIn
<1>4. Counting'
  <2>1. Samples = Samples' + SampleIn(queue[1])
    BY <1>1, SlotsOfTail DEF Samples, Queued, Slots
  <2>2. /\ Samples' \in Nat /\ InHand \in Nat /\ SampleIn(queue[1]) \in Nat
        /\ batch \in Nat /\ lost \in Nat /\ Required * updates \in Nat
        /\ dropped \in Nat /\ Producing \in Nat
    <3>1. Samples' \in Nat
      BY <1>2, SlotsFinite DEF Samples, Queued, Slots
    <3>2. /\ InHand \in Nat /\ batch \in Nat /\ lost \in Nat /\ dropped \in Nat
          /\ SampleIn(queue[1]) \in Nat /\ Producing \in Nat
      BY ParametersAssumption, ProducingType DEF TypeOK, InHand, SampleIn
    <3>3. Required * updates \in Nat
      BY ParametersAssumption DEF TypeOK
    <3> QED BY <3>1, <3>2, <3>3
  <2> DEFINE trained == Required * updates
             in == SampleIn(queue[1])
  <2>3. /\ popped = Samples + Producing + InHand + trained + batch + dropped + lost
        /\ trained' = trained
    BY <1>1 DEF Counting, Outstanding
  <2>4. /\ trained \in Nat /\ in \in Nat /\ Samples = Samples' + in
        /\ batch' = batch + in
    BY <1>3, <2>1, <2>2
  <2> HIDE DEF trained, in
  <2>6. /\ popped' = popped /\ Producing' = Producing /\ lost' = lost /\ dropped' = dropped
        /\ InHand' = InHand
    BY <1>1
  <2>5. popped' = Samples' + Producing' + InHand' + trained + batch' + dropped' + lost'
    BY <2>2, <2>3, <2>4, <2>6
  <2> QED BY <2>3, <2>5 DEF Counting, Outstanding, trained
<1>5. SignalKept'
  <2> SUFFICES ASSUME NEW i \in 1..Len(queue'), queue'[i] = None
               PROVE  /\ proc' = "done"
                      /\ Len(queue') - i + Producing' <= MaxRequired - 1
                      /\ lost' = 0 => i = Len(queue')
    BY DEF SignalKept
  <2>1. i + 1 \in 1..Len(queue) /\ queue[i + 1] = None /\ i \in Nat
    BY <1>2
  <2>2. /\ proc = "done" /\ Len(queue) - (i + 1) + Producing <= MaxRequired - 1
        /\ lost = 0 => i + 1 = Len(queue)
    BY <2>1 DEF SignalKept
  <2>3. Len(queue') - i = Len(queue) - (i + 1)
    BY <1>2, <2>1
  <2>4. i + 1 = Len(queue) => i = Len(queue')
    BY <1>2, <2>1
  <2> QED BY <1>1, <2>2, <2>3, <2>4
<1>6. Ending'
  BY <1>1 DEF Ending
<1>7. Stopping'
  <2>1. CASE queue[1] = None
    <3>1. train' = "final" /\ stopping' = TRUE /\ batch' = batch
      BY <1>2, <2>1 DEF Collect
    <3>2. 1 \in 1..Len(queue)
      BY <1>2
    <3>3. proc = "done" /\ (lost = 0 => Len(queue) = 1)
      BY <2>1, <3>2 DEF SignalKept
    <3>4. lost = 0 => queue' = <<>>
      <4>1. lost = 0 => Len(queue') = 0
        <5>1. Len(queue') = Len(queue) - 1
          BY <1>2
        <5> QED BY <3>3, <5>1
      <4>2. queue' \in Seq(Entries)
        BY <1>2
      <4> QED BY <4>1, <4>2, EmptySeq
    <3> QED BY <1>1, <3>1, <3>3, <3>4 DEF Stopping
  <2>2. CASE queue[1] # None
    <3>1. train' = "collect" /\ ~ stopping'
      BY <1>1, <1>2, <2>2 DEF Collect, Stopping
    <3> QED BY <3>1 DEF Stopping
  <2> QED BY <2>1, <2>2
<1> QED BY <1>4, <1>5, <1>6, <1>7

\* The samples are accounted for at any time, however generations fail.
LEMMA AccountedAlways == Spec => [](Counting /\ SignalKept /\ Ending /\ Stopping)
<1> DEFINE Acc == Counting /\ SignalKept /\ Ending /\ Stopping
<1>1. Init => Acc
  <2> SUFFICES ASSUME Init PROVE Acc
    OBVIOUS
  <2>1. queue \in Seq(Entries) /\ Len(queue) = 0
    BY EmptySeq DEF Init
  <2>2. Samples = 0
    <3>1. Samples \in Nat /\ Samples <= 0
      BY <2>1, SlotsFinite DEF Samples, Queued, Slots
    <3> QED BY <3>1
  <2>3. Required * updates = 0 /\ Producing = 0
    BY ParametersAssumption, EmptySeq DEF Init, Producing
  <2> QED BY <2>1, <2>2, <2>3
        DEF Init, Counting, Outstanding, InHand, SignalKept, Ending, Stopping
<1>2. TypeOK /\ TypeOK' /\ Acc /\ [Next]_vars => Acc'
  <2> SUFFICES ASSUME TypeOK, TypeOK', Acc, [Next]_vars PROVE Acc'
    OBVIOUS
  <2>0. /\ Samples \in Nat /\ Producing \in Nat /\ lost \in Nat /\ batch \in Nat
        /\ dropped \in Nat /\ Required * updates \in Nat /\ Required \in Nat
        /\ updates \in Nat /\ finished \in Nat /\ raised \in Nat
        /\ MaxConcurrent <= MaxRequired /\ MaxConcurrent \in Nat /\ MaxRequired \in Nat
    BY SamplesType, ParametersAssumption, ProducingType DEF TypeOK
  <2>a. queue' = queue => Samples' = Samples
    BY DEF Samples, Queued
  <2> USE DEF sampleQueue, tasks, control, processor, policy, trainer
  <2>1. ASSUME UNCHANGED <<sampleQueue, popped, Producing, raised, lost, trainer>>,
               UNCHANGED proc \/ (proc # "submit" /\ proc # "done" /\
                                  proc' \in {"check", "decide", "pausing", "drain"})
        PROVE  Acc'
    <3>1. InHand' = InHand
      BY <2>1 DEF InHand
    <3>2. Counting'
      BY <2>1, <2>a, <3>1 DEF Counting, Outstanding
    <3>3. SignalKept' /\ Ending' /\ Stopping'
      BY <2>1 DEF SignalKept, Ending, Stopping
    <3> QED BY <3>2, <3>3
  <2>2. CASE CheckQueue \/ Pause \/ PauseLate \/ DrainReap \/ Resumed \/ Locks \/ WaitReap
    BY <2>1, <2>2
       DEF CheckQueue, Pause, PauseLate, DrainReap, Resumed, Locks, WaitReap, Producing
  <2>3. CASE Monitor \/ UNCHANGED vars
    BY <2>1, <2>3 DEF Monitor, MonitorAsks, MonitorDecides, MonitorResumes, vars,
           Producing
  <2>4. CASE Take
    <3>1. /\ UNCHANGED <<sampleQueue, Producing, raised, lost, trainer>>
          /\ proc = "decide" /\ InHand = 0
          /\ \/ popped' = popped + 1 /\ proc' = "submit" /\ InHand' = 1
             \/ popped' = popped /\ proc' = "ending" /\ InHand' = 0 /\ popped = Total
      BY <2>4, ParametersAssumption DEF Take, InHand, TypeOK, Producing
    <3>2. Counting'
      <4> DEFINE trained == Required * updates
      <4>1. /\ popped = Samples + Producing + 0 + trained + batch + dropped + lost
            /\ trained' = trained /\ trained \in Nat
        BY <2>0, <3>1 DEF Counting, Outstanding
      <4> HIDE DEF trained
      <4>2. popped' = Samples' + Producing' + InHand' + trained + batch' + dropped' + lost'
        BY <2>0, <2>a, <3>1, <4>1
      <4> QED BY <4>1, <4>2 DEF Counting, Outstanding, trained
    <3>3. SignalKept' /\ Ending' /\ Stopping'
      BY <3>1 DEF SignalKept, Ending, Stopping
    <3> QED BY <3>2, <3>3
  <2>5. CASE ReapRaises
    <3>1. /\ UNCHANGED <<sampleQueue, popped, Producing, trainer>>
          /\ raised > 0 /\ proc # "done" /\ proc' = "failed" /\ InHand' = 0
          /\ lost' = lost + InHand /\ InHand \in {0, 1} /\ raised' = raised - 1
      BY <2>5 DEF ReapRaises, InHand, Producing
    <3>2. Counting'
      <4> DEFINE trained == Required * updates
      <4>1. /\ popped = Samples + Producing + InHand + trained + batch + dropped + lost
            /\ trained' = trained /\ trained \in Nat
        BY <2>0, <3>1 DEF Counting, Outstanding
      <4> HIDE DEF trained
      <4>2. popped' = Samples' + Producing' + InHand' + trained + batch' + dropped' + lost'
        BY <2>0, <2>a, <3>1, <4>1
      <4> QED BY <4>1, <4>2 DEF Counting, Outstanding, trained
    <3>3. lost > 0 /\ lost' > 0
      BY <2>0, <3>1 DEF Ending
    <3>4. Producing <= MaxRequired - 1
      <4>1. Producing + finished + raised <= MaxConcurrent
        BY DEF TypeOK, Active
      <4> QED BY <2>0, <3>1, <4>1
    <3>5. SignalKept'
      BY <3>1 DEF SignalKept
    <3>6. Ending' /\ Stopping'
      BY <3>1, <3>3, <3>4 DEF Ending, Stopping
    <3> QED BY <3>2, <3>5, <3>6
  <2>6. CASE Submit
    <3>1. /\ UNCHANGED <<sampleQueue, popped, raised, lost, trainer>>
          /\ proc = "submit" /\ proc' = "check" /\ InHand' = 0 /\ InHand = 1
          /\ Producing' = Producing + 1
      BY <2>6, ProducingSteps DEF Submit, InHand, TypeOK
    <3>2. Counting'
      <4> DEFINE trained == Required * updates
      <4>1. /\ popped = Samples + Producing + 1 + trained + batch + dropped + lost
            /\ trained' = trained /\ trained \in Nat
        BY <2>0, <3>1 DEF Counting, Outstanding
      <4> HIDE DEF trained
      <4>2. popped' = Samples' + Producing' + InHand' + trained + batch' + dropped' + lost'
        BY <2>0, <2>a, <3>1, <4>1
      <4> QED BY <4>1, <4>2 DEF Counting, Outstanding, trained
    <3>3. SignalKept' /\ Ending' /\ Stopping'
      BY <3>1 DEF SignalKept, Ending, Stopping
    <3> QED BY <3>2, <3>3
  <2>7. CASE Finish
    BY <2>7, FinishAccounted
  <2>8. CASE TaskPuts
    BY <2>8, TaskPutsAccounted
  <2>9. CASE TaskRaises
    <3>1. /\ UNCHANGED <<sampleQueue, proc, popped, trainer>>
          /\ Producing' = Producing - 1 /\ lost' = lost + 1 /\ InHand' = InHand
          /\ InHand \in {0, 1}
      BY <2>9, ProducingSteps DEF TaskRaises, InHand, TypeOK
    <3>2. Counting'
      <4> DEFINE trained == Required * updates
      <4>1. /\ popped = Samples + Producing + InHand + trained + batch + dropped + lost
            /\ trained' = trained /\ trained \in Nat
        BY <2>0, <3>1 DEF Counting, Outstanding
      <4> HIDE DEF trained
      <4>2. popped' = Samples' + Producing' + InHand' + trained + batch' + dropped' + lost'
        BY <2>0, <2>a, <3>1, <4>1
      <4> QED BY <4>1, <4>2 DEF Counting, Outstanding, trained
    <3>3. lost' > 0
      BY <2>0, <3>1
    <3>4. SignalKept'
      <4> SUFFICES ASSUME NEW i \in 1..Len(queue), queue[i] = None
                   PROVE  /\ proc = "done"
                          /\ Len(queue) - i + Producing' <= MaxRequired - 1
        BY <3>1, <3>3 DEF SignalKept
      <4>1. proc = "done" /\ Len(queue) - i + Producing <= MaxRequired - 1
        BY DEF SignalKept
      <4>2. Len(queue) \in Nat
        BY LenProperties DEF TypeOK
      <4> QED BY <2>0, <3>1, <4>1, <4>2
    <3>5. Ending'
      BY <2>0, <3>1, <3>3 DEF Ending
    <3>6. Stopping'
      BY <3>1, <3>3 DEF Stopping
    <3> QED BY <3>2, <3>4, <3>5, <3>6
  <2>10. CASE Collect
    BY <2>10, CollectAccounted
  <2>11. CASE Update
    <3>1. /\ UNCHANGED <<sampleQueue, processor, tasks>> /\ InHand' = InHand /\ Producing' = Producing
          /\ batch = Required /\ batch' = 0 /\ updates' = updates + 1
          /\ train = "collect" /\ train' = "sync" /\ stopping' = stopping
          /\ InHand \in {0, 1}
      BY <2>11 DEF Update, InHand, Producing
    <3>2. Counting'
      <4> DEFINE trained == Required * updates
      <4>1. /\ popped = Samples + Producing + InHand + trained + batch + dropped + lost
            /\ trained \in Nat /\ trained' = trained + Required
        BY <2>0, <3>1 DEF Counting, Outstanding
      <4> HIDE DEF trained
      <4>2. popped' = Samples' + Producing' + InHand' + trained' + batch' + dropped' + lost'
        BY <2>0, <2>a, <3>1, <4>1
      <4> QED BY <4>2 DEF Counting, Outstanding, trained
    <3>3. SignalKept' /\ Ending' /\ Stopping'
      BY <3>1 DEF SignalKept, Ending, Stopping
    <3> QED BY <3>2, <3>3
  <2>12. CASE UpdateWeights \/ ResetBegins \/ ResetEnds \/ Save \/ Final
    <3>1. /\ UNCHANGED <<sampleQueue, processor, tasks, updates, batch, stopping>>
          /\ InHand' = InHand /\ Producing' = Producing
          /\ train' = "collect" => ~ stopping
          /\ train' \in {"final", "stopped"} => stopping
      BY <2>12 DEF UpdateWeights, ResetBegins, ResetEnds, Save, Final, InHand,
           Producing
    <3>2. Counting'
      BY <3>1, <2>a DEF Counting, Outstanding
    <3>3. SignalKept' /\ Ending' /\ Stopping'
      BY <3>1 DEF SignalKept, Ending, Stopping
    <3> QED BY <3>2, <3>3
  <2>13. CASE TaskEnds
    <3>1. Producing' = Producing
      BY <2>13, ProducingSteps DEF TypeOK
    <3> QED BY <2>1, <2>13, <3>1 DEF TaskEnds
  <2> QED BY <2>2, <2>3, <2>4, <2>5, <2>6, <2>7, <2>8, <2>9, <2>10, <2>11, <2>12,
          <2>13 DEF Next, Processor, Trainer
<1> HIDE DEF Acc
<1>3. Spec => []Acc
  BY <1>1, <1>2, TypeCorrect, PTL DEF Spec
<1> QED BY <1>3 DEF Acc

\* However generations fail and queues overflow, every sample popped is accounted
\* for, and a run in which none failed trains on all but the last incomplete batch.
THEOREM NothingLost == Spec => []SamplesAccounted
<1> DEFINE Acc == Counting /\ SignalKept /\ Ending /\ Stopping
<1>1. TypeOK /\ Acc => SamplesAccounted
  <2> SUFFICES ASSUME TypeOK, Acc, train = "stopped", lost = 0
               PROVE  popped = Total /\ Outstanding = 0 /\ batch < Required
    BY DEF Counting, SamplesAccounted
  <2>1. stopping /\ batch < Required /\ proc = "done" /\ queue = <<>>
    BY DEF Stopping
  <2>2. popped = Total /\ Producing = 0
    BY <2>1 DEF Ending
  <2>3. Samples = 0
    <3>1. Samples \in Nat /\ Samples <= Len(queue) /\ Len(queue) = 0
      BY <2>1, SamplesType, EmptySeq
    <3> QED BY <3>1
  <2> QED BY <2>1, <2>2, <2>3 DEF Outstanding, InHand
<1>2. Spec => []Acc
  BY AccountedAlways
<1> HIDE DEF Acc
<1> QED BY <1>1, <1>2, TypeCorrect, PTL

-----------------------------------------------------------------------------
\* Until a period has its reset, the counter may exceed what is outstanding and
\* what the period has collected by no more than the tasks a reset counts twice;
\* or a full queue has dropped a sample, and then it cannot be emptied in the
\* period.
InPeriod ==
    /\ lost = 0 /\ proc \notin {"ending", "failed", "done"}
    /\ ~ (local = 1 /\ train \in {"sync", "reset", "resetting"})
Explained == staleness <= Outstanding + Collected + MaxConcurrent
Plenty == Len(queue) + Collected >= MaxRequired

Resetting ==
    /\ train \in {"reset", "resetting"} => local = 1
    /\ train = "resetting" => counted <= MaxConcurrent
    /\ lost = 0 \/ raised > 0 \/ proc \in {"failed", "done"}

\* The numbers the invariant adds up.
LEMMA PeriodTypes ==
    ASSUME TypeOK
    PROVE  /\ Samples \in Nat /\ Producing \in Nat /\ InHand \in {0, 1} /\ Collected \in Nat
           /\ Outstanding = Samples + Producing + InHand /\ Outstanding \in Nat
           /\ staleness \in Nat
           /\ MaxConcurrent \in Nat /\ MaxRequired \in Nat /\ Len(queue) \in Nat
           /\ Len(queue) <= MaxRequired
<1>1. /\ MaxConcurrent \in Nat /\ MaxRequired \in Nat
  BY ParametersAssumption
<1>2. Collected \in Nat
  <2>1. local - 1 \in Nat /\ Required \in Nat /\ batch \in Nat
    BY ParametersAssumption DEF TypeOK
  <2> QED BY <2>1 DEF Collected
<1>3. Len(queue) \in Nat
  BY LenProperties DEF TypeOK
<1> QED BY <1>1, <1>2, <1>3, SamplesType, ProducingType DEF TypeOK, InHand, Outstanding

\* Without the signal in it, every entry of the queue is a sample.
LEMMA AllSamples ==
    ASSUME TypeOK, SignalKept, proc # "done"
    PROVE  Samples = Len(queue)
<1>1. Len(queue) \in Nat
  BY LenProperties DEF TypeOK
<1>2. {i \in 1..Len(queue) : queue[i] # None} = 1..Len(queue)
  BY DEF SignalKept
<1>3. Cardinality(1..Len(queue)) = Len(queue)
  <2>1. 1 \in Int /\ Len(queue) \in Int
    BY <1>1
  <2>2. Cardinality(1..Len(queue)) = IF 1 > Len(queue) THEN 0 ELSE Len(queue) - 1 + 1
    BY <2>1, FS_Interval, Zenon
  <2> QED BY <1>1, <2>2
<1> QED BY <1>2, <1>3 DEF Samples, Queued

\* A generation that ends in the period moves its sample, or fills the queue.
LEMMA TaskPutsInPeriod ==
    ASSUME TypeOK, TypeOK', TaskPuts, Explained \/ Plenty
    PROVE  Explained' \/ Plenty'
<1>1. PICK x \in Entries \ {None} :
            /\ Producing > 0 /\ Producing' = Producing - 1 /\ Put(x)
            /\ UNCHANGED <<proc, staleness, local, batch>>
  BY PutStep DEF TaskPuts, TypeOK, processor, control, trainer, policy
<1>2. InHand' = InHand /\ Collected' = Collected
  BY <1>1 DEF InHand, Collected
<1>3. CASE Len(queue) >= MaxRequired
  <2>1. queue \in Seq(Entries) /\ x \in Entries /\ queue # <<>>
    <3>1. MaxRequired \in Nat \ {0}
      BY ParametersAssumption
    <3>2. Len(queue) # 0
      BY <1>3, <3>1
    <3> QED BY <3>2, EmptySeq DEF TypeOK, Entries
  <2>2. /\ queue' = Append(Tail(queue), x)
        /\ Tail(queue) \in Seq(Entries) /\ Len(Tail(queue)) = Len(queue) - 1
        /\ x \in Entries
    <3>1. queue' = Append(Tail(queue), x)
      BY <1>1, <1>3 DEF Put
    <3> QED BY <2>1, <3>1, HeadTailProperties
  <2>3. Len(queue') = Len(queue)
    <3>1. Len(queue') = Len(Tail(queue)) + 1
      BY <2>2, AppendProperties
    <3> QED BY <2>2, <3>1, PeriodTypes
  <2>4. Len(queue) + Collected >= MaxRequired
    BY <1>3, PeriodTypes
  <2> QED BY <1>2, <2>3, <2>4 DEF Plenty
<1>4. CASE ~ (Len(queue) >= MaxRequired)
  <2>1. queue' = Append(queue, x) /\ x \in Entries /\ x # None
    <3>1. queue' = Append(queue, x)
      BY <1>1, <1>4 DEF Put
    <3> QED BY <3>1
  <2>2. queue \in Seq(Entries)
    BY DEF TypeOK, Entries
  <2>3. Samples' = Samples + 1
    <3>1. Samples' = Samples + SampleIn(x)
      BY <2>1, <2>2, SlotsOfAppend DEF Samples, Queued, Slots
    <3> QED BY <2>1, <3>1 DEF SampleIn
  <2>4. Len(queue') = Len(queue) + 1
    BY <2>1, <2>2, AppendProperties
  <2>5. Outstanding' = Outstanding
    <3>1. Producing' = Producing - 1 /\ Producing \in Nat
      BY <1>1, PeriodTypes
    <3>2. Outstanding' = (Samples + 1) + (Producing - 1) + InHand
      BY <1>2, <2>3, <3>1, Zenon DEF Outstanding
    <3>3. (Samples + 1) + (Producing - 1) + InHand = Outstanding
      BY PeriodTypes
    <3> QED BY <3>2, <3>3
  <2>6. CASE Explained
    BY <1>1, <1>2, <2>5, <2>6 DEF Explained
  <2>7. CASE Plenty
    BY <1>2, <2>4, <2>7, PeriodTypes DEF Plenty
  <2> QED BY <2>6, <2>7
<1> QED BY <1>3, <1>4

\* A sample that is taken counts as collected.
LEMMA CollectInPeriod ==
    ASSUME TypeOK, TypeOK', SignalKept, proc # "done", Collect, Explained \/ Plenty
    PROVE  Explained' \/ Plenty'
<1>1. /\ queue \in Seq(Entries) /\ queue # <<>> /\ queue' = Tail(queue)
      /\ UNCHANGED <<proc, Producing, staleness, local>>
  BY DEF Collect, TypeOK, Entries, processor, tasks, control, policy, Producing
<1>2. Len(queue) \in Nat \ {0} /\ Len(queue') = Len(queue) - 1 /\ Head(queue) = queue[1]
  BY <1>1, HeadTailProperties, LenProperties, EmptySeq
<1>3. queue[1] # None
  BY <1>2 DEF SignalKept
<1>4. batch' = batch + 1
  BY <1>2, <1>3 DEF Collect
<1>5. Collected' = Collected + 1
  <2>1. batch \in Int /\ (local - 1) * Required \in Int
    BY ParametersAssumption DEF TypeOK
  <2> QED BY <1>1, <1>4, <2>1 DEF Collected
<1>6. Samples' = Samples - 1
  <2>1. Cardinality(Slots(queue)) = Cardinality(Slots(Tail(queue))) + 1
    BY <1>1, <1>3, SlotsOfTail DEF SampleIn
  <2>2. Cardinality(Slots(Tail(queue))) \in Nat
    <3>1. Tail(queue) \in Seq(Entries)
      BY <1>1, HeadTailProperties
    <3> QED BY <3>1, SlotsFinite
  <2>3. Cardinality(Slots(Tail(queue))) = Cardinality(Slots(queue)) - 1
    BY <2>1, <2>2
  <2>4. Samples' = Cardinality(Slots(Tail(queue))) /\ Samples = Cardinality(Slots(queue))
    BY <1>1 DEF Samples, Queued, Slots
  <2> QED BY <2>3, <2>4
<1>7. InHand' = InHand
  BY <1>1 DEF InHand
<1>8. Outstanding' = Outstanding - 1
  <2>1. Samples' = Samples - 1 /\ Producing' = Producing
    BY <1>1, <1>6
  <2>2. Outstanding' = (Samples - 1) + Producing + InHand
    BY <1>7, <2>1, Zenon DEF Outstanding
  <2>3. (Samples - 1) + Producing + InHand = Outstanding - 1
    BY PeriodTypes
  <2> QED BY <2>2, <2>3
<1>9. CASE Explained
  <2>1. staleness <= Outstanding + Collected + MaxConcurrent
    BY <1>9 DEF Explained
  <2>2. staleness' = staleness
    BY <1>1
  <2>3. Outstanding' = Outstanding - 1 /\ Collected' = Collected + 1
    BY <1>5, <1>8
  <2>4. staleness <= (Outstanding - 1) + (Collected + 1) + MaxConcurrent
    BY <2>1, PeriodTypes
  <2> QED BY <2>2, <2>3, <2>4, Zenon DEF Explained
<1>10. CASE Plenty
  BY <1>2, <1>5, <1>10, PeriodTypes DEF Plenty
<1> QED BY <1>9, <1>10

\* The Trainer and the Rollouter never wait for each other, provided the threshold
\* has room for the tasks that are finished and not yet discarded.
THEOREM NoMutualWait == Spec => []NeverStarved
<1> DEFINE Acc == SignalKept /\ Ending
           Due == InPeriod => Explained \/ Plenty
<1>1. Init => Resetting /\ Due
  <2> SUFFICES ASSUME Init PROVE Resetting /\ Due
    OBVIOUS
  <2>1. Len(queue) = 0 /\ queue \in Seq(Entries)
    BY EmptySeq DEF Init
  <2>2. Samples \in Nat /\ MaxConcurrent \in Nat /\ Collected = 0 /\ Producing = 0
    <3>1. Samples \in Nat
      BY <2>1, SlotsFinite DEF Samples, Queued, Slots
    <3>2. MaxConcurrent \in Nat
      BY ParametersAssumption
    <3>3. Collected = 0
      <4>1. local - 1 = 0 /\ batch = 0 /\ Required \in Nat
        BY ParametersAssumption DEF Init
      <4> QED BY <4>1 DEF Collected
    <3>4. Producing = 0
      BY EmptySeq DEF Init, Producing
    <3> QED BY <3>1, <3>2, <3>3, <3>4
  <2>3. Explained
    BY <2>2 DEF Init, Explained, Outstanding, InHand
  <2> QED BY <2>3 DEF Init, Resetting
<1>2. TypeOK /\ TypeOK' /\ Acc /\ Acc' /\ Resetting /\ Due /\ [Next]_vars
        => Resetting' /\ Due'
  <2> SUFFICES ASSUME TypeOK, TypeOK', Acc, Acc', Resetting, Due, [Next]_vars
               PROVE  Resetting' /\ Due'
    OBVIOUS
  <2>0. Producing \in Nat /\ raised \in Nat /\ lost \in Nat /\ finished \in Nat
    BY ProducingType DEF TypeOK
  <2> USE DEF sampleQueue, tasks, control, processor, policy, trainer
  <2>1. ASSUME UNCHANGED <<sampleQueue, Producing, raised, lost, staleness, counted, trainer>>,
               UNCHANGED proc \/ (proc \notin {"submit", "ending", "failed", "done"} /\
                                  proc' \in {"check", "decide", "pausing", "drain"})
        PROVE  Resetting' /\ Due'
    <3>1. InHand' = InHand /\ Samples' = Samples /\ Collected' = Collected
      BY <2>1 DEF InHand, Samples, Queued, Collected
    <3>2. Resetting'
      BY <2>1 DEF Resetting
    <3>3. InPeriod' => InPeriod
      BY <2>1 DEF InPeriod
    <3>4. (Explained \/ Plenty) => (Explained' \/ Plenty')
      BY <2>1, <3>1 DEF Explained, Plenty, Outstanding
    <3> QED BY <3>2, <3>3, <3>4
  <2>2. CASE CheckQueue \/ Pause \/ PauseLate \/ DrainReap \/ Resumed \/ Locks \/ WaitReap
    BY <2>1, <2>2
       DEF CheckQueue, Pause, PauseLate, DrainReap, Resumed, Locks, WaitReap, Producing
  <2>3. CASE Monitor \/ UNCHANGED vars
    BY <2>1, <2>3 DEF Monitor, MonitorAsks, MonitorDecides, MonitorResumes, vars,
           Producing
  <2>4. CASE Take
    <3>1. /\ UNCHANGED <<sampleQueue, Producing, raised, lost, counted, trainer>>
          /\ proc = "decide" /\ InHand = 0 /\ staleness' = staleness + 1
          /\ \/ proc' = "submit" /\ InHand' = 1
             \/ proc' = "ending"
      BY <2>4 DEF Take, InHand, Producing
    <3>2. Resetting'
      BY <3>1 DEF Resetting
    <3>3. ASSUME InPeriod' PROVE Explained' \/ Plenty'
      <4>1. InPeriod /\ InHand' = 1
        BY <3>1, <3>3 DEF InPeriod
      <4>2. Collected' = Collected /\ Samples' = Samples
        BY <3>1 DEF Collected, Samples, Queued
      <4>3. CASE Explained
        <5>1. Outstanding' = Outstanding + 1
          <6>1. Outstanding' = Samples' + Producing' + InHand'
            BY DEF Outstanding
          <6> QED BY <3>1, <4>1, <4>2, <6>1, PeriodTypes
        <5>2. Outstanding \in Nat
          BY PeriodTypes
        <5>3. staleness' <= Outstanding' + Collected' + MaxConcurrent
          BY <3>1, <4>2, <4>3, <5>1, <5>2, PeriodTypes DEF Explained
        <5> QED BY <5>3 DEF Explained
      <4>4. CASE Plenty
        BY <3>1, <4>2, <4>4 DEF Plenty
      <4> QED BY <4>1, <4>3, <4>4
    <3> QED BY <3>2, <3>3
  <2>5. CASE ReapRaises
    <3>1. proc' = "failed" /\ UNCHANGED <<counted, trainer>>
      BY <2>5 DEF ReapRaises
    <3> QED BY <3>1 DEF Resetting, InPeriod
  <2>6. CASE Submit
    <3>1. /\ UNCHANGED <<sampleQueue, raised, lost, staleness, counted, trainer>>
          /\ proc = "submit" /\ proc' = "check" /\ InHand' = 0 /\ InHand = 1
          /\ Producing' = Producing + 1
      BY <2>6, ProducingSteps DEF Submit, InHand, TypeOK
    <3>2. Resetting'
      BY <3>1 DEF Resetting
    <3>3. InPeriod' => InPeriod
      BY <3>1 DEF InPeriod
    <3>4. Collected' = Collected /\ Samples' = Samples
      BY <3>1 DEF Collected, Samples, Queued
    <3>5. Outstanding' = Outstanding
      <4>1. Outstanding' = Samples' + Producing' + InHand'
        BY DEF Outstanding
      <4> QED BY <3>1, <3>4, <4>1, PeriodTypes
    <3>6. (Explained \/ Plenty) => (Explained' \/ Plenty')
      BY <3>1, <3>4, <3>5 DEF Explained, Plenty
    <3> QED BY <3>2, <3>3, <3>6
  <2>7. CASE Finish
    <3>1. proc' = "done" /\ UNCHANGED <<counted, trainer>>
      BY <2>7 DEF Finish
    <3> QED BY <3>1 DEF Resetting, InPeriod
  <2>8. CASE TaskPuts
    <3>1. UNCHANGED <<proc, raised, lost, counted, trainer>>
      BY <2>8 DEF TaskPuts
    <3>2. Resetting' /\ (InPeriod' => InPeriod)
      BY <3>1 DEF Resetting, InPeriod
    <3> QED BY <2>8, <3>2, TaskPutsInPeriod
  <2>9. CASE TaskRaises
    <3>1. raised' > 0 /\ lost' # 0 /\ UNCHANGED <<counted, trainer>>
      BY <2>0, <2>9 DEF TaskRaises
    <3> QED BY <3>1 DEF Resetting, InPeriod
  <2>10. CASE Collect
    <3>1. /\ UNCHANGED <<proc, raised, lost, counted, local>> /\ train = "collect"
          /\ train' \in {"collect", "final"}
      BY <2>10 DEF Collect
    <3>2. Resetting' /\ (InPeriod' => InPeriod /\ proc # "done")
      BY <3>1 DEF Resetting, InPeriod
    <3> QED BY <2>10, <3>2, CollectInPeriod
  <2>11. CASE Update
    <3>1. /\ UNCHANGED <<sampleQueue, processor, tasks, control>>
          /\ batch = Required /\ batch' = 0 /\ train = "collect" /\ train' = "sync"
      BY <2>11 DEF Update
    <3>2. Resetting'
      BY <3>1 DEF Resetting
    <3>3. ASSUME InPeriod' PROVE InPeriod /\ Collected' = Collected
      <4>1. local' = local + 1 /\ InPeriod
        BY <2>11, <3>1, <3>3 DEF Update, InPeriod
      <4>2. Collected = local * Required /\ Collected' = local * Required
        <5>1. local \in Nat /\ Required \in Nat
          BY ParametersAssumption DEF TypeOK
        <5> QED BY <3>1, <4>1, <5>1 DEF Collected
      <4> QED BY <4>1, <4>2
    <3>4. Samples' = Samples /\ InHand' = InHand /\ Producing' = Producing
      BY <3>1 DEF Samples, Queued, InHand, Producing
    <3>5. InPeriod' => (Explained' \/ Plenty')
      BY <3>1, <3>3, <3>4 DEF Explained, Plenty, Outstanding
    <3> QED BY <3>2, <3>5
  <2>12. CASE UpdateWeights \/ Save \/ Final
    <3>1. /\ UNCHANGED <<sampleQueue, processor, tasks, control, local, batch>>
          /\ train = "sync" => \/ train' = "save" /\ local # 1
                               \/ train' = "reset" /\ local = 1
          /\ train # "sync" => /\ train \in {"save", "final"}
                               /\ train' \in {"stopped", "collect", "sync", "save"}
      BY <2>12 DEF UpdateWeights, Save, Final
    <3>2. Resetting'
      BY <3>1 DEF Resetting
    <3>3. InPeriod' => InPeriod
      BY <3>1 DEF InPeriod
    <3>4. Samples' = Samples /\ InHand' = InHand /\ Collected' = Collected
          /\ Producing' = Producing
      BY <3>1 DEF Samples, Queued, InHand, Collected, Producing
    <3>5. (Explained \/ Plenty) => (Explained' \/ Plenty')
      BY <3>1, <3>4 DEF Explained, Plenty, Outstanding
    <3> QED BY <3>2, <3>3, <3>5
  <2>13. CASE ResetBegins
    <3>1. /\ UNCHANGED <<proc, raised, lost, local>> /\ train = "reset"
          /\ train' = "resetting" /\ counted' = Active
      BY <2>13 DEF ResetBegins
    <3>2. Active <= MaxConcurrent
      BY DEF TypeOK
    <3> QED BY <3>1, <3>2 DEF Resetting, InPeriod
  <2>14. CASE ResetEnds
    <3>1. /\ UNCHANGED <<sampleQueue, processor, tasks, counted, local, batch>>
          /\ train = "resetting" /\ train' = "save" /\ staleness' = counted + Len(queue)
      BY <2>14 DEF ResetEnds
    <3>2. Resetting'
      BY <3>1 DEF Resetting
    <3>3. ASSUME InPeriod' PROVE Explained'
      <4>1. Samples = Len(queue)
        BY <3>1, <3>3, AllSamples DEF InPeriod
      <4>2. counted <= MaxConcurrent /\ counted \in Nat
        BY <3>1 DEF Resetting, TypeOK
      <4>3. Outstanding' = Outstanding /\ Collected' = Collected
        BY <3>1 DEF Outstanding, Samples, Queued, InHand, Collected, Producing
      <4>4. Outstanding >= Samples /\ Outstanding \in Nat
        BY PeriodTypes
      <4>5. counted + Len(queue) <= Outstanding + Collected + MaxConcurrent
        BY <4>1, <4>2, <4>4, PeriodTypes
      <4> QED BY <3>1, <4>3, <4>5 DEF Explained
    <3> QED BY <3>2, <3>3
  <2>15. CASE TaskEnds
    <3>1. Producing' = Producing
      BY <2>15, ProducingSteps DEF TypeOK
    <3> QED BY <2>1, <2>15, <3>1 DEF TaskEnds
  <2> QED BY <2>2, <2>3, <2>4, <2>5, <2>6, <2>7, <2>8, <2>9, <2>10, <2>11, <2>12, <2>13,
             <2>14, <2>15 DEF Next, Processor, Trainer
<1>3. TypeOK /\ Resetting /\ Due => NeverStarved
  <2> SUFFICES ASSUME TypeOK, Resetting, Due, MaxConcurrent <= MaxRequired - Period, Starved
               PROVE  FALSE
    BY DEF NeverStarved, Period
  <2>1. /\ train = "collect" /\ batch < Required /\ queue = <<>> /\ proc = "drain"
        /\ staleness >= MaxRequired /\ Producing + finished + raised = 0
    BY DEF Starved, Active
  <2>2. Producing = 0 /\ raised = 0
    BY <2>1, ProducingType DEF TypeOK
  <2>3. lost = 0
    BY <2>1, <2>2 DEF Resetting
  <2>4. InPeriod
    BY <2>1, <2>3 DEF InPeriod
  <2>5. Collected <= Period - 1 /\ Period \in Nat
    <3>1. /\ Trigger \in Nat /\ Required \in Nat /\ local \in Nat /\ local <= Trigger
          /\ batch \in Nat
      BY ParametersAssumption DEF TypeOK
    <3>2. PICK n \in Nat : Trigger = local + n
      <4>1. Trigger - local \in Nat /\ Trigger = local + (Trigger - local)
        BY <3>1
      <4> QED BY <4>1
    <3>3. Period = (local - 1) * Required + Required + n * Required /\ n * Required \in Nat
      BY <3>1, <3>2 DEF Period
    <3>4. (local - 1) * Required \in Int
      BY <3>1
    <3>5. Period \in Nat
      BY <3>1 DEF Period
    <3> QED BY <2>1, <3>1, <3>3, <3>4, <3>5 DEF Collected
  <2>6. Len(queue) = 0 /\ Samples = 0
    <3>1. Len(queue) = 0
      BY <2>1, EmptySeq
    <3> QED BY <3>1, SamplesType
  <2>7. Outstanding = 0
    BY <2>1, <2>2, <2>6 DEF Outstanding, InHand
  <2>8. MaxRequired >= Period
    BY ParametersAssumption DEF Period
  <2>9. ~ Plenty
    BY <2>5, <2>6, <2>8, PeriodTypes DEF Plenty
  <2>10. ~ Explained
    BY <2>1, <2>5, <2>7, PeriodTypes DEF Explained
  <2> QED BY <2>4, <2>9, <2>10
<1>4. Spec => []Acc
  BY AccountedAlways, PTL
<1> HIDE DEF Acc, Due
<1> QED BY <1>1, <1>2, <1>3, <1>4, TypeCorrect, PTL DEF Spec
=============================================================================
