------------------------- MODULE SyncTrainer_proofs -------------------------
(***************************************************************************)
(* For every number of ranks, epochs and batches, every save frequency and *)
(* retention, and any number of crashes: no batch is trained twice or      *)
(* skipped, the tracker names a complete checkpoint, a run that returned   *)
(* has saved what was due, and the checkpoints implement SavedProgress.    *)
(***************************************************************************)
EXTENDS SyncTrainer, SequenceTheorems, TLAPS

-----------------------------------------------------------------------------
(* The inductive invariant, in named parts.                                 *)

\* Between the step before and the training of this one.
Behind == {"next", "generate", "train", "ended"}

\* The weights are those of the current step.
Level == {"load", "push", "validate0", "sync", "validate"} \cup Saving

Looping == {"generate", "train", "sync", "validate"} \cup Saving

AllAt(n) == [r \in RoleNames |-> Everywhere(Weights(r, n))]

\* The step counter and the position of the data loader move together.
Counted ==
    /\ pc = "load" => step = 0 /\ epoch = 0 /\ pos = 0
    /\ pc \in {"push", "validate0"} => step = epoch * StepsPerEpoch + pos
    /\ pc \in {"next", "ended"} => step = epoch * StepsPerEpoch + pos + 1
    /\ pc \in Looping => step = epoch * StepsPerEpoch + pos /\ pos >= 1
    /\ epoch = Epochs => pos = 0
    /\ pc \notin {"save", "write", "failed", "down"} => saving = 1

\* Every rank has learned the steps so far.
Trained ==
    /\ pc \in Behind => weights = AllAt(step - 1)
    /\ pc \in Level => weights = AllAt(step)

\* This save has written the role and dealt with the role's older ones.
Registered(r) ==
    \/ pc \in {"data", "close_data", "tracker", "close_tracker"}
    \/ pc \in {"save", "write"} /\ \E i \in 1..(saving - 1) : Roles[i] = r

\* What this save has written so far is of this step.
Written ==
    /\ pc = "write" => \A rank \in Ranks : written[rank] = "done" =>
          shards[step][Role][rank] = Whole(Weights(Role, step))
    /\ \A r \in RoleNames : Registered(r) => Complete(r, step)
    /\ pc \in {"tracker", "close_tracker"} => data[step] = BatchOf(step)

\* The tracker is older than the step being trained, and written by its end.
TrackerBehind ==
    /\ pc \in {"push", "validate0"} =>
          tracker = step \/ (tracker = None /\ step = 0)
    /\ pc \in {"next", "generate", "train"} \cup Saving => tracker < step
    /\ pc \in {"sync", "validate"} => tracker <= step

\* No step that was due to be saved is newer than the tracker, once it is done.
DueSaved ==
    /\ pc \in Behind => \A n \in 1..(step - 1) : Due(n) => tracker >= n
    /\ pc \in {"sync", "validate"} => \A n \in 1..step : Due(n) => tracker >= n
    /\ pc = "ended" => step > total \/ step > StepsPerEpoch * Epochs

\* The role's directory of the tracked step was removed, being the only one.
Gone(r) == Keep[r] = 1 /\ \A rank \in Ranks : shards[tracker][r][rank] = Absent

\* What TrackedComplete says, and when its exception can happen.
Tracked ==
    tracker \in Steps =>
    /\ data[tracker] = BatchOf(tracker)
    /\ \A r \in RoleNames :
          \/ Complete(r, tracker)
          \/ Gone(r) /\ Registered(r)
          \/ /\ Gone(r) /\ pc \in {"load", "failed", "down"}
             /\ \E n \in Steps : n > tracker /\ Complete(r, n)

Increasing(s) == \A i, j \in 1..Len(s) : i < j => s[i] < s[j]

\* The checkpoints of this life are remembered in order, the tracked one last
\* but for the one being saved.
Remembered ==
    pc \notin {"failed", "down"} => \A r \in RoleNames :
    /\ Increasing(kept[r])
    /\ ~Registered(r) /\ kept[r] # <<>> => kept[r][Len(kept[r])] = tracker
    /\ Registered(r) =>
          /\ kept[r] # <<>> /\ kept[r][Len(kept[r])] = step
          /\ Len(kept[r]) > 1 /\ pc # "close_tracker" =>
                kept[r][Len(kept[r]) - 1] = tracker

Serving ==
    /\ pc \in {"validate0", "next", "generate", "validate"} =>
          awake /\ served = weights["actor"]
    /\ pc \in {"load", "push", "train", "sync"} \cup Saving => ~awake

IInv ==
    /\ TypeOK /\ Counted /\ Trained /\ Serving
    /\ Written /\ TrackerBehind /\ DueSaved /\ Tracked /\ Remembered

-----------------------------------------------------------------------------
(* Arithmetic of epochs and batches.                                        *)

\* Division with remainder: the epoch and the batch of a step.
LEMMA DivMod ==
    ASSUME NEW N \in Nat \ {0}, NEW x \in Nat
    PROVE  x = N * (x \div N) + (x % N) /\ (x % N) \in 0..(N - 1) /\ x \div N \in Nat
OBVIOUS

\* Multiplication by a natural number keeps the order.
LEMMA Monotone ==
    ASSUME NEW N \in Nat, NEW p \in Nat, NEW q \in Nat, p <= q
    PROVE  N * p <= N * q
<1>1. q = p + (q - p) /\ q - p \in Nat
  OBVIOUS
<1>2. N * q = N * p + N * (q - p)
  BY <1>1
<1>3. N * (q - p) >= 0
  BY <1>1
<1> QED
  BY <1>2, <1>3

\* A quotient and a remainder are determined by the number they make.
LEMMA Unique ==
    ASSUME NEW N \in Nat \ {0}, NEW p \in Nat, NEW q \in Nat,
           NEW r \in 0..(N - 1), NEW s \in 0..(N - 1), N * p + r = N * q + s
    PROVE  p = q /\ r = s
<1>1. ASSUME NEW a \in Nat, NEW b \in Nat, NEW c \in 0..(N - 1), NEW d \in 0..(N - 1),
             a < b
      PROVE  N * a + c < N * b + d
  <2>1. N * (a + 1) <= N * b
    BY <1>1, Monotone
  <2>2. N * (a + 1) = N * a + N
    OBVIOUS
  <2>3. N * a \in Nat /\ N * b \in Nat
    OBVIOUS
  <2> QED
    BY <2>1, <2>2, <2>3
<1>2. ~(p < q) /\ ~(q < p)
  BY <1>1
<1>3. p = q
  BY <1>2
<1> QED
  BY <1>3

\* A batch that the data loader yields inside an epoch belongs to a step.
LEMMA Position ==
    ASSUME NEW e \in 0..(Epochs - 1), NEW p \in 1..StepsPerEpoch
    PROVE  /\ e * StepsPerEpoch + p \in Steps
           /\ BatchOf(e * StepsPerEpoch + p) = p
<1> DEFINE x == e * StepsPerEpoch + p - 1
<1>1. StepsPerEpoch \in Nat \ {0} /\ Epochs \in Nat \ {0}
  BY RunAssumption
<1>2. e * StepsPerEpoch \in Nat /\ e * StepsPerEpoch = StepsPerEpoch * e
  BY <1>1
<1>3. StepsPerEpoch * (e + 1) <= StepsPerEpoch * Epochs
  BY <1>1, Monotone
<1>4. StepsPerEpoch * (e + 1) = StepsPerEpoch * e + StepsPerEpoch
  BY <1>1
<1>5. StepsPerEpoch * Epochs \in Nat
  BY <1>1
<1>6. e * StepsPerEpoch + p \in Steps
  BY <1>1, <1>2, <1>3, <1>4, <1>5 DEF Steps
<1>7. x \in Nat
  BY <1>1, <1>2
<1>8. x = StepsPerEpoch * (x \div StepsPerEpoch) + (x % StepsPerEpoch)
      /\ (x % StepsPerEpoch) \in 0..(StepsPerEpoch - 1) /\ x \div StepsPerEpoch \in Nat
  BY <1>1, <1>7, DivMod
<1>9. x = StepsPerEpoch * e + (p - 1) /\ p - 1 \in 0..(StepsPerEpoch - 1)
  BY <1>1, <1>2
<1>10. x % StepsPerEpoch = p - 1
  <2> DEFINE q == x \div StepsPerEpoch
             m == x % StepsPerEpoch
  <2>1. /\ StepsPerEpoch * q + m = StepsPerEpoch * e + (p - 1)
        /\ m \in 0..(StepsPerEpoch - 1) /\ q \in Nat /\ e \in Nat
    BY <1>8, <1>9
  <2> HIDE DEF q, m
  <2>2. m = p - 1
    BY <1>1, <1>9, <2>1, Unique
  <2> QED
    BY <2>2 DEF m
<1> QED
  BY <1>1, <1>6, <1>10 DEF BatchOf

\* A step determines the epoch and the position that the trainer resumes at.
LEMMA Resumed ==
    ASSUME NEW n \in Steps
    PROVE  /\ BatchOf(n) \in 1..StepsPerEpoch
           /\ n \div StepsPerEpoch \in 0..Epochs
           /\ AtEpochBoundary(n) => n = (n \div StepsPerEpoch) * StepsPerEpoch
           /\ ~AtEpochBoundary(n) =>
                 /\ n = (n \div StepsPerEpoch) * StepsPerEpoch + BatchOf(n)
                 /\ n \div StepsPerEpoch # Epochs
<1> DEFINE q == n \div StepsPerEpoch
           m == n % StepsPerEpoch
<1>1. StepsPerEpoch \in Nat \ {0} /\ Epochs \in Nat \ {0}
  BY RunAssumption
<1>2. n \in Nat \ {0} /\ n <= StepsPerEpoch * Epochs /\ StepsPerEpoch * Epochs \in Nat
  BY <1>1 DEF Steps
<1>3. n = StepsPerEpoch * q + m /\ m \in 0..(StepsPerEpoch - 1) /\ q \in Nat
  BY <1>1, <1>2, DivMod
<1>4. BatchOf(n) \in 1..StepsPerEpoch
  <2>1. n - 1 \in Nat
    BY <1>2
  <2>2. ((n - 1) % StepsPerEpoch) \in 0..(StepsPerEpoch - 1)
    BY <1>1, <2>1, DivMod
  <2> QED
    BY <1>1, <2>2 DEF BatchOf
<1> HIDE DEF q, m
<1>5. StepsPerEpoch * q = q * StepsPerEpoch /\ StepsPerEpoch * q \in Nat
  BY <1>1, <1>3
<1>6. q <= Epochs /\ (m # 0 => q # Epochs)
  <2>1. ASSUME q >= Epochs PROVE q = Epochs /\ m = 0
    <3>1. StepsPerEpoch * Epochs <= StepsPerEpoch * q
      BY <1>1, <1>3, <2>1, Monotone
    <3>2. m = 0 /\ StepsPerEpoch * q = StepsPerEpoch * Epochs
      BY <1>2, <1>3, <1>5, <3>1
    <3>3. StepsPerEpoch * q + 0 = StepsPerEpoch * Epochs + 0
      BY <3>2, <1>2
    <3>4. 0 \in 0..(StepsPerEpoch - 1)
      BY <1>1
    <3>5. q = Epochs
      BY <1>1, <1>3, <3>3, <3>4, Unique
    <3> QED
      BY <3>2, <3>5
  <2> QED
    BY <1>1, <1>3, <2>1
<1>7. ASSUME m # 0 PROVE BatchOf(n) = m
  <2>1. n - 1 \in Nat /\ n - 1 = StepsPerEpoch * q + (m - 1)
    BY <1>2, <1>3, <1>5
  <2>2. m - 1 \in 0..(StepsPerEpoch - 1)
    BY <1>1, <1>3, <1>7
  <2>3. n - 1 = StepsPerEpoch * ((n - 1) \div StepsPerEpoch) + ((n - 1) % StepsPerEpoch)
        /\ ((n - 1) % StepsPerEpoch) \in 0..(StepsPerEpoch - 1)
        /\ (n - 1) \div StepsPerEpoch \in Nat
    BY <1>1, <2>1, DivMod
  <2>4. (n - 1) % StepsPerEpoch = m - 1
    BY <1>1, <1>3, <2>1, <2>2, <2>3, Unique
  <2> QED
    BY <1>3, <2>4 DEF BatchOf
<1>8. AtEpochBoundary(n) <=> m = 0
  BY DEF AtEpochBoundary, m
<1>9. q = n \div StepsPerEpoch
  BY DEF q
<1> QED
  BY <1>1, <1>3, <1>4, <1>5, <1>6, <1>7, <1>8, <1>9

\* What a role has learned grows by the batch of a step, unless it is the
\* actor in the critic's warm-up.
LEMMA WeightsGrow ==
    ASSUME NEW r, NEW n \in Nat
    PROVE  /\ Weights(r, 0) = {}
           /\ Weights(r, n + 1) = Weights(r, n) \cup
                 IF r = "actor" /\ CriticWarmup > n + 1 THEN {}
                 ELSE {<<n + 1, BatchOf(n + 1)>>}
           /\ \A b : <<n + 1, b>> \notin Weights(r, n)
<1>1. CriticWarmup \in Nat
  BY RunAssumption
<1>2. 1..0 = {} /\ 1..(n + 1) = (1..n) \cup {n + 1} /\ n + 1 \notin 1..n
  OBVIOUS
<1>3. Weights(r, 0) = {}
  BY <1>2 DEF Weights
<1>4. \A b : <<n + 1, b>> \notin Weights(r, n)
  BY <1>2 DEF Weights
<1>5. CASE r = "actor" /\ CriticWarmup > n + 1
  <2>1. {k \in 1..(n + 1) : r = "actor" => k >= CriticWarmup}
        = {k \in 1..n : r = "actor" => k >= CriticWarmup}
    BY <1>1, <1>5
  <2> QED
    BY <1>3, <1>4, <1>5, <2>1 DEF Weights
<1>6. CASE ~(r = "actor" /\ CriticWarmup > n + 1)
  <2>1. {k \in 1..(n + 1) : r = "actor" => k >= CriticWarmup}
        = {k \in 1..n : r = "actor" => k >= CriticWarmup} \cup {n + 1}
    BY <1>1, <1>2, <1>6
  <2> QED
    BY <1>3, <1>4, <1>6, <2>1 DEF Weights
<1> QED
  BY <1>5, <1>6

\* What a role has learned after a step consists of trainings of the run.
LEMMA WeightsTyped ==
    ASSUME NEW r, NEW n \in Steps \cup {0}
    PROVE  Weights(r, n) \subseteq Trainings
<1>1. StepsPerEpoch * Epochs \in Nat
  BY RunAssumption
<1>2. \A k \in 1..n : k \in Steps
  BY <1>1 DEF Steps
<1> QED
  BY <1>2, Resumed DEF Weights, Trainings

\* The actor is always there, and no role is saved twice.
LEMMA RolesDistinct ==
    /\ "actor" \in RoleNames
    /\ Len(Roles) \in Nat /\ Len(Roles) > 0
    /\ \A i \in 1..Len(Roles) : Roles[i] \in RoleNames
    /\ \A i, j \in 1..Len(Roles) : Roles[i] = Roles[j] => i = j
    /\ \A r \in RoleNames : \E i \in 1..Len(Roles) : Roles[i] = r
BY WorkersAssumption DEF RoleNames

\* The step counter and the data loader stay together.
LEMMA CountedKept ==
    ASSUME IInv, [Next]_vars
    PROVE  Counted'
<1> USE DEF vars, disk, progress, loop, replicas
<1>0. TypeOK /\ Counted /\ Tracked
  BY DEF IInv
<1>1. CASE LoadRaises
  BY <1>0, <1>1 DEF LoadRaises, TypeOK, Counted, Looping, Saving
<1>2. CASE LoadScratch
  BY <1>0, <1>2, RunAssumption DEF LoadScratch, Counted, Looping, Saving
<1>3. CASE LoadCheckpoint
  <2>1. tracker \in Steps /\ data[tracker] = BatchOf(tracker)
    BY <1>0, <1>3 DEF LoadCheckpoint, Tracked
  <2>2. (tracker \div StepsPerEpoch) * StepsPerEpoch \in Nat
    BY <2>1, Resumed, RunAssumption
  <2>3. epoch' = tracker \div StepsPerEpoch /\ step' = tracker /\ pc' = "push"
        /\ pos' = (IF AtEpochBoundary(tracker) THEN 0 ELSE BatchOf(tracker))
        /\ saving' = saving /\ pc = "load"
    BY <2>1, <1>3 DEF LoadCheckpoint
  <2>4. step' = epoch' * StepsPerEpoch + pos' /\ (epoch' = Epochs => pos' = 0)
    BY <2>1, <2>2, <2>3, Resumed
  <2> QED
    BY <1>0, <2>3, <2>4 DEF Counted, Looping, Saving
<1>4. CASE PushInitial
  BY <1>0, <1>4 DEF PushInitial, TypeOK, Counted, Looping, Saving
<1>5. CASE ValidateInitial
  <2>1. epoch * StepsPerEpoch \in Nat /\ pos \in Nat
    BY <1>0, RunAssumption DEF TypeOK
  <2> QED
    BY <1>0, <2>1, <1>5 DEF ValidateInitial, Counted, Looping, Saving
<1>6. CASE NextBatch
  <2>1. epoch * StepsPerEpoch \in Nat /\ pos \in Nat /\ epoch \in Nat
    BY <1>0, RunAssumption DEF TypeOK
  <2>2. step = epoch * StepsPerEpoch + pos + 1
    BY <1>0, <1>6 DEF NextBatch, Counted
  <2>3. step = epoch * StepsPerEpoch + (pos + 1)
    BY <2>1, <2>2
  <2> QED
    BY <1>0, <2>1, <2>3, <1>6, RunAssumption DEF NextBatch, Counted, Looping, Saving
<1>7. CASE NextEpoch
  <2>1. epoch * StepsPerEpoch + StepsPerEpoch + 1 = (epoch + 1) * StepsPerEpoch + 0 + 1
    BY <1>0, RunAssumption DEF TypeOK
  <2> QED
    BY <1>0, <2>1, <1>7 DEF NextEpoch, Counted, Looping, Saving
<1>8. CASE EndOfData
  BY <1>0, <1>8 DEF EndOfData, TypeOK, Counted, Looping, Saving
<1>9. CASE Generate
  BY <1>0, <1>9 DEF Generate, TypeOK, Counted, Looping, Saving
<1>10. CASE Train
  BY <1>0, <1>10 DEF Train, TypeOK, Counted, Looping, Saving
<1>11. CASE Sync
  BY <1>0, <1>11 DEF Sync, TypeOK, Counted, Looping, Saving
<1>12. CASE Validate
  BY <1>0, <1>12 DEF Validate, TypeOK, Counted, Looping, Saving
<1>13. CASE EnsureCapacity
  BY <1>0, <1>13 DEF EnsureCapacity, TypeOK, Counted, Looping, Saving
<1>14. CASE Register
  BY <1>0, <1>14 DEF Register, TypeOK, Counted, Looping, Saving
<1>15. ASSUME NEW rank \in Ranks, OpenShard(rank) PROVE Counted'
  BY <1>0, <1>15 DEF OpenShard, TypeOK, Counted, Looping, Saving
<1>16. ASSUME NEW rank \in Ranks, CloseShard(rank) PROVE Counted'
  BY <1>0, <1>16 DEF CloseShard, TypeOK, Counted, Looping, Saving
<1>17. CASE OpenData
  BY <1>0, <1>17 DEF OpenData, TypeOK, Counted, Looping, Saving
<1>18. CASE CloseData
  BY <1>0, <1>18 DEF CloseData, TypeOK, Counted, Looping, Saving
<1>19. CASE OpenTracker
  BY <1>0, <1>19 DEF OpenTracker, TypeOK, Counted, Looping, Saving
<1>20. CASE CloseTracker
  BY <1>0, <1>20 DEF CloseTracker, TypeOK, Counted, Looping, Saving
<1>21. CASE Crash
  BY <1>0, <1>21 DEF Crash, TypeOK, Counted, Looping, Saving
<1>22. CASE Restart
  BY <1>0, <1>22 DEF Restart, TypeOK, Counted, Looping, Saving, Fresh
<1>23. CASE Rerun
  BY <1>0, <1>23 DEF Rerun, TypeOK, Counted, Looping, Saving, Fresh
<1>24. CASE UNCHANGED vars
  BY <1>0, <1>24 DEF TypeOK, Counted, Looping, Saving
<1> QED
  BY <1>1, <1>2, <1>3, <1>4, <1>5, <1>6, <1>7, <1>8, <1>9,
     <1>10, <1>11, <1>12, <1>13, <1>14, <1>15, <1>16, <1>17, <1>18,
     <1>19, <1>20, <1>21, <1>22, <1>23, <1>24
     DEF Next, Fit, Load, TrainingLoop, SaveCheckpoint


\* Inside the loop the step is one of the run's, and the batch is its own.
LEMMA StepOfBatch ==
    ASSUME TypeOK, Counted
    PROVE  /\ pc \in Looping => step \in Steps /\ BatchOf(step) = pos /\ epoch < Epochs
           /\ pc \in {"push", "validate0"} => step \in Steps \cup {0}
           /\ pc \in {"next", "ended"} => step - 1 \in Steps \cup {0}
<1>1. StepsPerEpoch \in Nat \ {0} /\ Epochs \in Nat \ {0}
      /\ epoch \in 0..Epochs /\ pos \in 0..StepsPerEpoch /\ step \in Nat
  BY RunAssumption DEF TypeOK
<1>2. StepsPerEpoch * Epochs \in Nat /\ epoch * StepsPerEpoch = StepsPerEpoch * epoch
      /\ epoch * StepsPerEpoch \in Nat
  BY <1>1
<1>3. epoch # Epochs => epoch \in 0..(Epochs - 1)
  BY <1>1
<1>4. ASSUME pos >= 1
      PROVE  epoch * StepsPerEpoch + pos \in Steps
             /\ BatchOf(epoch * StepsPerEpoch + pos) = pos /\ epoch < Epochs
  <2>1. epoch \in 0..(Epochs - 1)
    BY <1>1, <1>3, <1>4 DEF Counted
  <2>2. pos \in 1..StepsPerEpoch
    BY <1>1, <1>4
  <2> QED
    BY <1>1, <2>1, <2>2, Position
<1>5. epoch * StepsPerEpoch + pos \in Steps \cup {0}
  <2>1. CASE pos >= 1
    BY <1>4, <2>1
  <2>2. CASE pos = 0
    <3>1. StepsPerEpoch * epoch <= StepsPerEpoch * Epochs
      BY <1>1, Monotone
    <3> QED
      BY <1>2, <2>2, <3>1 DEF Steps
  <2> QED
    BY <1>1, <2>1, <2>2
<1>6. pc \in Looping => step \in Steps /\ BatchOf(step) = pos /\ epoch < Epochs
  BY <1>4 DEF Counted
<1>7. pc \in {"push", "validate0"} => step \in Steps \cup {0}
  BY <1>5 DEF Counted
<1>8. ASSUME pc \in {"next", "ended"} PROVE step - 1 \in Steps \cup {0}
  <2>1. step = epoch * StepsPerEpoch + pos + 1
    BY <1>8 DEF Counted
  <2>2. step - 1 = epoch * StepsPerEpoch + pos
    BY <1>1, <1>2, <2>1
  <2> QED
    BY <1>5, <2>2
<1> QED
  BY <1>6, <1>7, <1>8

\* The directories that are removed are those of the role being saved.
LEMMA RotateTyped ==
    ASSUME TypeOK, NEW paths \in Seq(Steps), NEW k \in 0..Len(paths), Rotate(paths, k)
    PROVE  /\ kept' \in [RoleNames -> Seq(Steps)]
           /\ shards' \in [Steps -> [RoleNames -> [Ranks -> Shards]]]
<1>1. SubSeq(paths, k + 1, Len(paths)) \in Seq(Steps)
  BY SubSeqProperties
<1>2. Everywhere(Absent) \in [Ranks -> Shards]
  BY DEF Everywhere, Absent, Shards
<1> QED
  BY <1>1, <1>2 DEF Rotate, TypeOK

\* Making room removes no more checkpoints than are kept.
LEMMA RoomBound ==
    ASSUME TypeOK
    PROVE  /\ Role \in RoleNames /\ Keep[Role] \in Nat
           /\ kept[Role] \in Seq(Steps) /\ Len(kept[Role]) \in Nat
           /\ Room(Role) \in 0..Len(kept[Role])
           /\ Room(Role) # 0 => Room(Role) < Len(kept[Role])
<1>1. Role \in RoleNames
  BY RolesDistinct DEF Role, TypeOK
<1>2. Keep[Role] \in Nat
  BY <1>1, WorkersAssumption DEF RoleNames
<1>3. kept[Role] \in Seq(Steps) /\ Len(kept[Role]) \in Nat
  BY <1>1 DEF TypeOK
<1> QED
  BY <1>1, <1>2, <1>3 DEF Room

\* Registering removes no more than were kept before: the new one stays.
LEMMA SurplusBound ==
    ASSUME TypeOK, NEW n \in Steps
    PROVE  /\ Append(kept[Role], n) \in Seq(Steps)
           /\ Len(Append(kept[Role], n)) = Len(kept[Role]) + 1
           /\ Surplus(Role, Append(kept[Role], n)) \in 0..Len(kept[Role])
           /\ Keep[Role] # 1 /\ Surplus(Role, Append(kept[Role], n)) # 0 =>
                 Surplus(Role, Append(kept[Role], n)) < Len(kept[Role])
<1>1. Append(kept[Role], n) \in Seq(Steps)
      /\ Len(Append(kept[Role], n)) = Len(kept[Role]) + 1
  BY RoomBound, AppendProperties
<1> QED
  BY <1>1, RoomBound DEF Surplus


\* A process that starts afresh is well typed.
LEMMA FreshTyped ==
    ASSUME Fresh
    PROVE  /\ pc' = "load" /\ saving' \in 1..Len(Roles)
           /\ written' \in [Ranks -> {"no", "open", "done"}]
           /\ kept' \in [RoleNames -> Seq(Steps)]
           /\ weights' \in [RoleNames -> [Ranks -> SUBSET Trainings]]
           /\ step' \in 0..(StepsPerEpoch * Epochs + 1)
           /\ total' \in Totals
           /\ epoch' \in 0..Epochs /\ pos' \in 0..StepsPerEpoch
           /\ served' \in [Ranks -> SUBSET Trainings] /\ awake' \in BOOLEAN
<1>1. StepsPerEpoch * Epochs \in Nat /\ StepsPerEpoch \in Nat /\ Epochs \in Nat
  BY RunAssumption
<1>2. <<>> \in Seq(Steps)
  OBVIOUS
<1>3. kept' \in [RoleNames -> Seq(Steps)]
  BY <1>2 DEF Fresh
<1>4. written' \in [Ranks -> {"no", "open", "done"}]
  BY DEF Fresh, Everywhere
<1>5. Everywhere({}) \in [Ranks -> SUBSET Trainings]
  BY DEF Everywhere
<1>6. weights' \in [RoleNames -> [Ranks -> SUBSET Trainings]]
  BY <1>5 DEF Fresh
<1>7. saving' \in 1..Len(Roles)
  BY RolesDistinct DEF Fresh
<1>8. /\ step' \in 0..(StepsPerEpoch * Epochs + 1)
      /\ total' \in Totals
      /\ epoch' \in 0..Epochs /\ pos' \in 0..StepsPerEpoch
  BY <1>1 DEF Fresh
<1>9. served' \in [Ranks -> SUBSET Trainings] /\ awake' \in BOOLEAN /\ pc' = "load"
  BY <1>5 DEF Fresh
<1> QED
  BY <1>3, <1>4, <1>6, <1>7, <1>8, <1>9

\* Every step keeps the types.
LEMMA TypeKept ==
    ASSUME IInv, [Next]_vars
    PROVE  TypeOK'
<1> USE DEF vars, disk, progress, loop, replicas
<1>0. TypeOK /\ Counted /\ Trained /\ Tracked
  BY DEF IInv
<1>1. CASE LoadRaises
  BY <1>0, <1>1 DEF LoadRaises, TypeOK
<1>2. CASE LoadScratch
  BY <1>0, <1>2 DEF LoadScratch, TypeOK
<1>3. CASE LoadCheckpoint
  <2>1. tracker \in Steps /\ data[tracker] = BatchOf(tracker)
    BY <1>0, <1>3 DEF LoadCheckpoint, Tracked
  <2>2. [r \in RoleNames |-> [rank \in Ranks |-> shards[tracker][r][rank].of]]
        \in [RoleNames -> [Ranks -> SUBSET Trainings]]
    BY <1>0, <2>1 DEF TypeOK, Shards
  <2>3. tracker \div StepsPerEpoch \in 0..Epochs /\ BatchOf(tracker) \in 1..StepsPerEpoch
    BY <2>1, Resumed
  <2>4. StepsPerEpoch * Epochs \in Nat
    BY RunAssumption
  <2>5. step' \in 0..(StepsPerEpoch * Epochs + 1)
    BY <2>1, <2>4, <1>3 DEF LoadCheckpoint, Steps
  <2>6. epoch' \in 0..Epochs /\ pos' \in 0..StepsPerEpoch
    BY <2>1, <2>3, <1>3, RunAssumption DEF LoadCheckpoint
  <2>7. weights' \in [RoleNames -> [Ranks -> SUBSET Trainings]]
    BY <2>2, <1>3 DEF LoadCheckpoint
  <2> QED
    BY <1>0, <1>3, <2>5, <2>6, <2>7 DEF LoadCheckpoint, TypeOK
<1>4. CASE PushInitial
  BY <1>0, <1>4, RolesDistinct DEF PushInitial, PushWeights, TypeOK
<1>5. CASE ValidateInitial
  <2>1. step \in Steps \cup {0}
    BY <1>0, <1>5, StepOfBatch DEF ValidateInitial
  <2>2. StepsPerEpoch * Epochs \in Nat
    BY RunAssumption
  <2> QED
    BY <1>0, <1>5, <2>1, <2>2 DEF ValidateInitial, TypeOK, Steps
<1>6. CASE NextBatch
  BY <1>0, <1>6, RunAssumption DEF NextBatch, TypeOK
<1>7. CASE NextEpoch
  BY <1>0, <1>7, RunAssumption DEF NextEpoch, TypeOK
<1>8. CASE EndOfData
  BY <1>0, <1>8 DEF EndOfData, TypeOK
<1>9. CASE Generate
  BY <1>0, <1>9 DEF Generate, TypeOK
<1>10. CASE Train
  <2>1. step \in Steps /\ pos \in 1..StepsPerEpoch
    BY <1>0, <1>10, StepOfBatch DEF Train, Looping, Counted, TypeOK
  <2>2. <<step, pos>> \in Trainings
    BY <2>1 DEF Trainings
  <2>3. weights' \in [RoleNames -> [Ranks -> SUBSET Trainings]]
    BY <1>0, <1>10, <2>2 DEF Train, TypeOK
  <2> QED
    BY <1>0, <1>10, <2>3 DEF Train, TypeOK, Saving
<1>11. CASE Sync
  BY <1>0, <1>11, RolesDistinct DEF Sync, PushWeights, TypeOK
<1>12. CASE Validate
  <2>1. step \in Steps
    BY <1>0, <1>12, StepOfBatch DEF Validate, Looping
  <2> QED
    BY <1>0, <1>12, <2>1, RunAssumption DEF Validate, TypeOK, Steps
<1>13. CASE EnsureCapacity
  <2>1. Everywhere("no") \in [Ranks -> {"no", "open", "done"}]
    BY DEF Everywhere
  <2> QED
    BY <1>0, <1>13, <2>1, RoomBound, RotateTyped DEF EnsureCapacity, TypeOK, Saving
<1>14. CASE Register
  <2>1. step \in Steps
    BY <1>0, <1>14, StepOfBatch DEF Register, Looping, Saving
  <2>2. kept' \in [RoleNames -> Seq(Steps)]
        /\ shards' \in [Steps -> [RoleNames -> [Ranks -> Shards]]]
    <3> DEFINE paths == Append(kept[Role], step)
    <3>1. paths \in Seq(Steps) /\ Surplus(Role, paths) \in 0..Len(paths)
      BY <1>0, <2>1, RoomBound, SurplusBound
    <3>2. Rotate(paths, Surplus(Role, paths))
      BY <1>14 DEF Register
    <3> HIDE DEF paths
    <3> QED
      BY <1>0, <3>1, <3>2, RotateTyped
  <2>3. saving' \in 1..Len(Roles) /\ pc' \in Saving
    BY <1>0, <1>14, RolesDistinct DEF Register, TypeOK, Saving
  <2> QED
    BY <1>0, <1>14, <2>2, <2>3 DEF Register, TypeOK
<1>15. ASSUME NEW rank \in Ranks, OpenShard(rank) PROVE TypeOK'
  <2>1. Opened \in Shards
    BY DEF Opened, Shards
  <2> QED
    BY <1>0, <1>15, <2>1, RoomBound DEF OpenShard, Progress, TypeOK
<1>16. ASSUME NEW rank \in Ranks, CloseShard(rank) PROVE TypeOK'
  <2>1. Whole(weights[Role][rank]) \in Shards
    BY <1>0, RoomBound, <1>16 DEF Whole, Shards, TypeOK
  <2> QED
    BY <1>0, <1>16, <2>1, RoomBound DEF CloseShard, Progress, TypeOK
<1>17. CASE OpenData
  BY <1>0, <1>17 DEF OpenData, TypeOK, Saving
<1>18. CASE CloseData
  <2>1. pos \in 1..StepsPerEpoch
    BY <1>0, <1>18 DEF CloseData, Looping, Saving, Counted, TypeOK
  <2> QED
    BY <1>0, <1>18, <2>1 DEF CloseData, TypeOK, Saving
<1>19. CASE OpenTracker
  BY <1>0, <1>19 DEF OpenTracker, TypeOK, Saving
<1>20. CASE CloseTracker
  <2>1. step \in Steps
    BY <1>0, <1>20, StepOfBatch DEF CloseTracker, Looping, Saving
  <2> QED
    BY <1>0, <1>20, <2>1 DEF CloseTracker, TypeOK
<1>21. CASE Crash
  BY <1>0, <1>21, RunAssumption DEF Crash, TypeOK
<1>22. CASE Restart
  BY <1>0, <1>22, FreshTyped DEF Restart, TypeOK
<1>23. CASE Rerun
  BY <1>0, <1>23, FreshTyped, RunAssumption DEF Rerun, TypeOK
<1>24. CASE UNCHANGED vars
  BY <1>0, <1>24 DEF TypeOK
<1> QED
  BY <1>1, <1>2, <1>3, <1>4, <1>5, <1>6, <1>7, <1>8, <1>9,
     <1>10, <1>11, <1>12, <1>13, <1>14, <1>15, <1>16, <1>17, <1>18,
     <1>19, <1>20, <1>21, <1>22, <1>23, <1>24
     DEF Next, Fit, Load, TrainingLoop, SaveCheckpoint

\* Every rank has learned the steps so far.
LEMMA TrainedKept ==
    ASSUME IInv, [Next]_vars
    PROVE  Trained'
<1> USE DEF vars, disk, progress, loop, replicas
<1>0. TypeOK /\ Counted /\ Trained /\ Tracked
  BY DEF IInv
<1>1. CASE LoadRaises
  BY <1>0, <1>1 DEF LoadRaises, TypeOK, Trained, Behind, Level, Saving
<1>2. CASE LoadScratch
  BY <1>0, <1>2 DEF LoadScratch, TypeOK, Trained, Behind, Level, Saving
<1>3. CASE LoadCheckpoint
  <2>1. tracker \in Steps /\ ShardsReadable(tracker)
    BY <1>0, <1>3 DEF LoadCheckpoint, Raises
  <2>2. \A r \in RoleNames : Complete(r, tracker)
    BY <1>0, <2>1, <1>3, WorkersAssumption
       DEF Tracked, ShardsReadable, Gone, Absent, Registered, LoadCheckpoint
  <2>3. weights' = AllAt(tracker)
    <3>1. \A r \in RoleNames, rank \in Ranks :
             shards[tracker][r][rank].of = Weights(r, tracker)
      <4>1. \A w : Whole(w).of = w
        BY DEF Whole
      <4> QED
        BY <2>2, <4>1 DEF Complete
    <3> QED
      BY <3>1, <1>3 DEF LoadCheckpoint, AllAt, Everywhere
  <2> QED
    BY <2>3, <1>3 DEF LoadCheckpoint, Trained, Behind, Level, Saving
<1>4. CASE PushInitial
  BY <1>0, <1>4 DEF PushInitial, TypeOK, Trained, Behind, Level, Saving
<1>5. CASE ValidateInitial
  <2>1. step' - 1 = step
    BY <1>0, <1>5 DEF ValidateInitial, TypeOK
  <2> QED
    BY <1>0, <1>5, <2>1 DEF ValidateInitial, Trained, Behind, Level, Saving
<1>6. CASE NextBatch
  BY <1>0, <1>6 DEF NextBatch, TypeOK, Trained, Behind, Level, Saving
<1>7. CASE NextEpoch
  BY <1>0, <1>7 DEF NextEpoch, TypeOK, Trained, Behind, Level, Saving
<1>8. CASE EndOfData
  BY <1>0, <1>8 DEF EndOfData, TypeOK, Trained, Behind, Level, Saving
<1>9. CASE Generate
  BY <1>0, <1>9 DEF Generate, TypeOK, Trained, Behind, Level, Saving
<1>10. CASE Train
  <2>1. step \in Steps /\ BatchOf(step) = pos /\ step - 1 \in Nat /\ step = (step - 1) + 1
    BY <1>0, <1>10, StepOfBatch, RunAssumption DEF Train, Looping, Steps
  <2>2. weights = AllAt(step - 1)
    BY <1>0, <1>10 DEF Train, Trained, Behind
  <2>3. \A r \in RoleNames : Weights(r, step) = Weights(r, step - 1) \cup
           IF r \in TrainedNow THEN {<<step, pos>>} ELSE {}
    <3>1. ASSUME NEW r \in RoleNames
          PROVE  Weights(r, (step - 1) + 1) = Weights(r, step - 1) \cup
                    IF r = "actor" /\ CriticWarmup > (step - 1) + 1 THEN {}
                    ELSE {<<(step - 1) + 1, BatchOf((step - 1) + 1)>>}
      BY <2>1, WeightsGrow
    <3> QED
      BY <2>1, <3>1 DEF TrainedNow, WarmingUp
  <2>4. weights' = AllAt(step)
    BY <2>2, <2>3, <1>10 DEF Train, AllAt, Everywhere
  <2> QED
    BY <1>10, <2>4 DEF Train, Trained, Behind, Level, Saving
<1>11. CASE Sync
  BY <1>0, <1>11 DEF Sync, TypeOK, Trained, Behind, Level, Saving
<1>12. CASE Validate
  <2>1. step' - 1 = step
    BY <1>0, <1>12 DEF Validate, TypeOK
  <2> QED
    BY <1>0, <1>12, <2>1 DEF Validate, Trained, Behind, Level, Saving
<1>13. CASE EnsureCapacity
  BY <1>0, <1>13 DEF EnsureCapacity, TypeOK, Trained, Behind, Level, Saving
<1>14. CASE Register
  BY <1>0, <1>14 DEF Register, TypeOK, Trained, Behind, Level, Saving
<1>15. ASSUME NEW rank \in Ranks, OpenShard(rank) PROVE Trained'
  BY <1>0, <1>15 DEF OpenShard, TypeOK, Trained, Behind, Level, Saving
<1>16. ASSUME NEW rank \in Ranks, CloseShard(rank) PROVE Trained'
  BY <1>0, <1>16 DEF CloseShard, TypeOK, Trained, Behind, Level, Saving
<1>17. CASE OpenData
  BY <1>0, <1>17 DEF OpenData, TypeOK, Trained, Behind, Level, Saving
<1>18. CASE CloseData
  BY <1>0, <1>18 DEF CloseData, TypeOK, Trained, Behind, Level, Saving
<1>19. CASE OpenTracker
  BY <1>0, <1>19 DEF OpenTracker, TypeOK, Trained, Behind, Level, Saving
<1>20. CASE CloseTracker
  BY <1>0, <1>20 DEF CloseTracker, TypeOK, Trained, Behind, Level, Saving
<1>21. CASE Crash
  BY <1>0, <1>21 DEF Crash, TypeOK, Trained, Behind, Level, Saving
<1>22. CASE Restart
  <2>1. \A r \in RoleNames : Weights(r, 0) = {}
    BY WeightsGrow
  <2> QED
    BY <1>22, <2>1 DEF Restart, Fresh, AllAt, Everywhere, Trained, Behind, Level, Saving
<1>23. CASE Rerun
  <2>1. \A r \in RoleNames : Weights(r, 0) = {}
    BY WeightsGrow
  <2> QED
    BY <1>23, <2>1 DEF Rerun, Fresh, AllAt, Everywhere, Trained, Behind, Level, Saving
<1>24. CASE UNCHANGED vars
  BY <1>0, <1>24 DEF TypeOK, Trained, Behind, Level, Saving
<1> QED
  BY <1>1, <1>2, <1>3, <1>4, <1>5, <1>6, <1>7, <1>8, <1>9,
     <1>10, <1>11, <1>12, <1>13, <1>14, <1>15, <1>16, <1>17, <1>18,
     <1>19, <1>20, <1>21, <1>22, <1>23, <1>24
     DEF Next, Fit, Load, TrainingLoop, SaveCheckpoint

\* The replicas serve the actor when they are awake.
LEMMA ServingKept ==
    ASSUME IInv, [Next]_vars
    PROVE  Serving'
<1> USE DEF vars, disk, progress, loop, replicas
<1>0. Serving /\ TypeOK
  BY DEF IInv
<1>1. CASE LoadRaises
  BY <1>0, <1>1 DEF LoadRaises, Serving, Saving
<1>2. CASE LoadScratch
  BY <1>0, <1>2 DEF LoadScratch, Serving, Saving
<1>3. CASE LoadCheckpoint
  BY <1>0, <1>3 DEF LoadCheckpoint, Serving, Saving
<1>4. CASE PushInitial
  BY <1>0, <1>4 DEF PushInitial, PushWeights, Serving, Saving
<1>5. CASE ValidateInitial
  BY <1>0, <1>5 DEF ValidateInitial, Serving, Saving
<1>6. CASE NextBatch
  BY <1>0, <1>6 DEF NextBatch, Serving, Saving
<1>7. CASE NextEpoch
  BY <1>0, <1>7 DEF NextEpoch, Serving, Saving
<1>8. CASE EndOfData
  BY <1>0, <1>8 DEF EndOfData, Serving, Saving
<1>9. CASE Generate
  BY <1>0, <1>9 DEF Generate, Serving, Saving
<1>10. CASE Train
  BY <1>0, <1>10 DEF Train, Serving, Saving
<1>11. CASE Sync
  BY <1>0, <1>11 DEF Sync, PushWeights, Serving, Saving
<1>12. CASE Validate
  BY <1>0, <1>12 DEF Validate, Serving, Saving
<1>13. CASE EnsureCapacity
  BY <1>0, <1>13 DEF EnsureCapacity, Serving, Saving
<1>14. CASE Register
  BY <1>0, <1>14 DEF Register, Serving, Saving
<1>15. ASSUME NEW rank \in Ranks, OpenShard(rank) PROVE Serving'
  BY <1>0, <1>15 DEF OpenShard, Serving, Saving
<1>16. ASSUME NEW rank \in Ranks, CloseShard(rank) PROVE Serving'
  BY <1>0, <1>16 DEF CloseShard, Serving, Saving
<1>17. CASE OpenData
  BY <1>0, <1>17 DEF OpenData, Serving, Saving
<1>18. CASE CloseData
  BY <1>0, <1>18 DEF CloseData, Serving, Saving
<1>19. CASE OpenTracker
  BY <1>0, <1>19 DEF OpenTracker, Serving, Saving
<1>20. CASE CloseTracker
  BY <1>0, <1>20 DEF CloseTracker, Serving, Saving
<1>21. CASE Crash
  BY <1>0, <1>21 DEF Crash, Serving, Saving
<1>22. CASE Restart
  BY <1>0, <1>22 DEF Restart, Serving, Saving, Fresh
<1>23. CASE Rerun
  BY <1>0, <1>23 DEF Rerun, Serving, Saving, Fresh
<1>24. CASE UNCHANGED vars
  BY <1>0, <1>24 DEF Serving, Saving
<1> QED
  BY <1>1, <1>2, <1>3, <1>4, <1>5, <1>6, <1>7, <1>8, <1>9,
     <1>10, <1>11, <1>12, <1>13, <1>14, <1>15, <1>16, <1>17, <1>18,
     <1>19, <1>20, <1>21, <1>22, <1>23, <1>24
     DEF Next, Fit, Load, TrainingLoop, SaveCheckpoint


\* The tracker is behind the step until the end of its save.
LEMMA TrackerBehindKept ==
    ASSUME IInv, [Next]_vars
    PROVE  TrackerBehind'
<1> USE DEF vars, disk, progress, loop, replicas
<1>0. TrackerBehind /\ Counted /\ step \in Nat /\ tracker \in Int
  BY RunAssumption DEF IInv, TypeOK, None, Torn, Steps
<1>1. CASE LoadRaises
  BY <1>0, <1>1 DEF LoadRaises, TrackerBehind, Saving
<1>2. CASE LoadScratch
  BY <1>0, <1>2 DEF LoadScratch, TrackerBehind, Saving, Counted
<1>3. CASE LoadCheckpoint
  BY <1>0, <1>3 DEF LoadCheckpoint, TrackerBehind, Saving
<1>4. CASE PushInitial
  BY <1>0, <1>4 DEF PushInitial, TrackerBehind, Saving
<1>5. CASE ValidateInitial
  BY <1>0, <1>5 DEF ValidateInitial, TrackerBehind, Saving, None
<1>6. CASE NextBatch
  BY <1>0, <1>6 DEF NextBatch, TrackerBehind, Saving
<1>7. CASE NextEpoch
  BY <1>0, <1>7 DEF NextEpoch, TrackerBehind, Saving
<1>8. CASE EndOfData
  BY <1>0, <1>8 DEF EndOfData, TrackerBehind, Saving
<1>9. CASE Generate
  BY <1>0, <1>9 DEF Generate, TrackerBehind, Saving
<1>10. CASE Train
  BY <1>0, <1>10, RunAssumption
     DEF Train, TrackerBehind, Saving, MustSave, IsLastStep, WarmingUp
<1>11. CASE Sync
  BY <1>0, <1>11 DEF Sync, TrackerBehind, Saving
<1>12. CASE Validate
  BY <1>0, <1>12 DEF Validate, TrackerBehind, Saving, IsLastStep
<1>13. CASE EnsureCapacity
  BY <1>0, <1>13 DEF EnsureCapacity, TrackerBehind, Saving
<1>14. CASE Register
  BY <1>0, <1>14 DEF Register, TrackerBehind, Saving
<1>15. ASSUME NEW rank \in Ranks, OpenShard(rank) PROVE TrackerBehind'
  BY <1>0, <1>15 DEF OpenShard, TrackerBehind, Saving
<1>16. ASSUME NEW rank \in Ranks, CloseShard(rank) PROVE TrackerBehind'
  BY <1>0, <1>16 DEF CloseShard, TrackerBehind, Saving
<1>17. CASE OpenData
  BY <1>0, <1>17 DEF OpenData, TrackerBehind, Saving
<1>18. CASE CloseData
  BY <1>0, <1>18 DEF CloseData, TrackerBehind, Saving
<1>19. CASE OpenTracker
  BY <1>0, <1>19 DEF OpenTracker, TrackerBehind, Saving, Torn
<1>20. CASE CloseTracker
  BY <1>0, <1>20 DEF CloseTracker, TrackerBehind, Saving
<1>21. CASE Crash
  BY <1>0, <1>21 DEF Crash, TrackerBehind, Saving
<1>22. CASE Restart
  BY <1>0, <1>22 DEF Restart, TrackerBehind, Saving, Fresh
<1>23. CASE Rerun
  BY <1>0, <1>23 DEF Rerun, TrackerBehind, Saving, Fresh
<1>24. CASE UNCHANGED vars
  BY <1>0, <1>24 DEF TrackerBehind, Saving
<1> QED
  BY <1>1, <1>2, <1>3, <1>4, <1>5, <1>6, <1>7, <1>8, <1>9,
     <1>10, <1>11, <1>12, <1>13, <1>14, <1>15, <1>16, <1>17, <1>18,
     <1>19, <1>20, <1>21, <1>22, <1>23, <1>24
     DEF Next, Fit, Load, TrainingLoop, SaveCheckpoint


\* A step that is due is saved before it is done, and a run that returns has
\* done its last step or all batches.
LEMMA DueSavedKept ==
    ASSUME IInv, [Next]_vars
    PROVE  DueSaved'
<1> USE DEF vars, disk, progress, loop, replicas
<1>0. DueSaved /\ TrackerBehind /\ Counted /\ step \in Nat /\ tracker \in Int
  BY RunAssumption DEF IInv, TypeOK, None, Torn, Steps
<1>same. total' = total => \A n : Due(n)' = Due(n)
  BY DEF Due
<1>1. CASE LoadRaises
  BY <1>0, <1>1 DEF LoadRaises, DueSaved, Behind
<1>2. CASE LoadScratch
  BY <1>0, <1>2 DEF LoadScratch, DueSaved, Behind, Counted
<1>3. CASE LoadCheckpoint
  BY <1>0, <1>3 DEF LoadCheckpoint, DueSaved, Behind
<1>4. CASE PushInitial
  BY <1>0, <1>4 DEF PushInitial, DueSaved, Behind
<1>5. CASE ValidateInitial
  BY <1>0, <1>5 DEF ValidateInitial, DueSaved, TrackerBehind, Behind, None
<1>6. CASE NextBatch
  BY <1>0, <1>same, <1>6 DEF NextBatch, DueSaved, Behind
<1>7. CASE NextEpoch
  BY <1>0, <1>same, <1>7 DEF NextEpoch, DueSaved, Behind
<1>8. CASE EndOfData
  <2>1. epoch = Epochs /\ pos = 0
    BY <1>0, <1>8, RunAssumption DEF EndOfData, Counted, IInv, TypeOK
  <2>2. step = StepsPerEpoch * Epochs + 1 /\ StepsPerEpoch * Epochs \in Nat
    BY <1>0, <2>1, <1>8, RunAssumption DEF EndOfData, Counted
  <2>3. step > StepsPerEpoch * Epochs
    BY <2>2
  <2> QED
    BY <1>0, <1>same, <2>3, <1>8 DEF EndOfData, DueSaved, Behind
<1>9. CASE Generate
  BY <1>0, <1>same, <1>9 DEF Generate, DueSaved, Behind
<1>10. CASE Train
  <2>1. /\ step' = step /\ tracker' = tracker /\ total' = total /\ step \in Nat
        /\ pc' \in {"save", "sync"} /\ \A n \in 1..(step - 1) : Due(n) => tracker >= n
    BY <1>0, <1>10 DEF Train, DueSaved, Behind
  <2>2. ASSUME Due(step) PROVE pc' = "save"
    BY <1>0, <1>10, <2>2, RunAssumption DEF Train, Due, MustSave, IsLastStep, WarmingUp
  <2>3. \A n : Due(n)' = Due(n)
    BY <1>same, <2>1
  <2>4. ASSUME pc' = "sync", NEW n \in 1..step, Due(n) PROVE tracker >= n
    <3>1. n # step
      BY <2>2, <2>4
    <3>2. n \in 1..(step - 1)
      BY <2>1, <3>1
    <3> QED BY <2>1, <2>4, <3>2
  <2> QED BY <2>1, <2>3, <2>4 DEF DueSaved, Behind
<1>11. CASE Sync
  BY <1>0, <1>same, <1>11 DEF Sync, DueSaved, Behind
<1>12. CASE Validate
  <2>1. step' - 1 = step /\ total' = total /\ tracker' = tracker /\ pc = "validate"
    BY <1>0, <1>12 DEF Validate
  <2>2. pc' = "ended" => step' > total
    <3>1. step \in Nat /\ total \in Int /\ step' = step + 1
      BY <1>0, <1>12, RunAssumption DEF Validate, IInv, TypeOK
    <3>2. pc' = "ended" => step >= total
      BY <1>0, <1>12 DEF Validate, IsLastStep
    <3> QED BY <3>1, <3>2
  <2>3. \A n \in 1..(step' - 1) : Due(n)' => tracker' >= n
    BY <1>0, <1>same, <2>1 DEF DueSaved
  <2>4. pc' \in {"ended", "next"}
    BY <1>12 DEF Validate
  <2> QED BY <2>1, <2>2, <2>3, <2>4 DEF DueSaved
<1>13. CASE EnsureCapacity
  <2>1. pc' = "write"
    BY <1>13 DEF EnsureCapacity
  <2> QED BY <2>1 DEF DueSaved, Behind
<1>14. CASE Register
  BY <1>0, <1>14 DEF Register, DueSaved, Behind
<1>15. ASSUME NEW rank \in Ranks, OpenShard(rank) PROVE DueSaved'
  BY <1>0, <1>15 DEF OpenShard, DueSaved, Behind
<1>16. ASSUME NEW rank \in Ranks, CloseShard(rank) PROVE DueSaved'
  BY <1>0, <1>16 DEF CloseShard, DueSaved, Behind
<1>17. CASE OpenData
  BY <1>0, <1>17 DEF OpenData, DueSaved, Behind
<1>18. CASE CloseData
  BY <1>0, <1>18 DEF CloseData, DueSaved, Behind
<1>19. CASE OpenTracker
  BY <1>0, <1>19 DEF OpenTracker, DueSaved, Behind, Torn
<1>20. CASE CloseTracker
  BY <1>0, <1>20 DEF CloseTracker, DueSaved, Behind
<1>21. CASE Crash
  BY <1>0, <1>21 DEF Crash, DueSaved, Behind
<1>22. CASE Restart
  BY <1>0, <1>22 DEF Restart, DueSaved, Behind, Fresh
<1>23. CASE Rerun
  BY <1>0, <1>23 DEF Rerun, DueSaved, Behind, Fresh
<1>24. CASE UNCHANGED vars
  BY <1>0, <1>same, <1>24 DEF DueSaved
<1> QED
  BY <1>1, <1>2, <1>3, <1>4, <1>5, <1>6, <1>7, <1>8, <1>9,
     <1>10, <1>11, <1>12, <1>13, <1>14, <1>15, <1>16, <1>17, <1>18,
     <1>19, <1>20, <1>21, <1>22, <1>23, <1>24
     DEF Next, Fit, Load, TrainingLoop, SaveCheckpoint


\* Which roles this save is done with.
LEMMA RegisteredRoles ==
    ASSUME TypeOK, Counted
    PROVE  /\ pc \notin Saving => \A r \in RoleNames : ~Registered(r)
           /\ pc = "save" /\ saving = 1 => \A r \in RoleNames : ~Registered(r)
           /\ pc \in {"save", "write"} => ~Registered(Role)
<1>1. saving \in 1..Len(Roles) /\ Len(Roles) \in Nat
  BY RolesDistinct DEF TypeOK
<1>2. \A i \in 1..(saving - 1) : Roles[i] # Roles[saving]
  BY <1>1, RolesDistinct
<1> QED
  BY <1>1, <1>2 DEF Registered, Saving, Role

\* A role becomes registered by its own Register, the last one with all.
LEMMA RegisterRole ==
    ASSUME TypeOK, Register
    PROVE  \A r \in RoleNames : Registered(r)' => r = Role \/ Registered(r)
<1>1. saving \in 1..Len(Roles) /\ Len(Roles) \in Nat
  BY RolesDistinct DEF TypeOK
<1>2. pc = "write"
  BY DEF Register
<1>3. CASE saving < Len(Roles)
  <2>1. saving' = saving + 1 /\ pc' = "save"
    BY <1>3 DEF Register
  <2>2. \A i \in 1..(saving' - 1) : i = saving \/ i \in 1..(saving - 1)
    BY <1>1, <2>1
  <2> QED
    BY <1>2, <2>1, <2>2 DEF Registered, Role
<1>4. CASE ~(saving < Len(Roles))
  <2>1. saving = Len(Roles)
    BY <1>1, <1>4
  <2>2. \A i \in 1..Len(Roles) : i = saving \/ i \in 1..(saving - 1)
    BY <1>1, <2>1
  <2> QED
    BY <1>2, <2>2, RolesDistinct DEF Registered, Role
<1> QED
  BY <1>3, <1>4

\* What a rotation leaves alone.
LEMMA RotateKeeps ==
    ASSUME TypeOK, NEW paths, NEW k, Rotate(paths, k),
           NEW n \in Steps, NEW r \in RoleNames,
           r # Role \/ \A i \in 1..k : paths[i] # n
    PROVE  shards'[n][r] = shards[n][r]
BY DEF Rotate


\* Registering a role's checkpoint leaves those of the other roles registered.
LEMMA RegisteredStays ==
    ASSUME TypeOK, Register
    PROVE  \A r \in RoleNames : r = Role \/ Registered(r) => Registered(r)'
<1>1. saving \in 1..Len(Roles) /\ Len(Roles) \in Nat /\ pc = "write"
  BY RolesDistinct DEF TypeOK, Register
<1>2. CASE saving < Len(Roles)
  <2>1. saving' = saving + 1 /\ pc' = "save"
    BY <1>2 DEF Register
  <2>2. saving \in 1..(saving' - 1) /\ \A i \in 1..(saving - 1) : i \in 1..(saving' - 1)
    BY <1>1, <2>1
  <2>3. \A r \in RoleNames : Registered(r) => Registered(r)'
    BY <1>1, <2>1, <2>2 DEF Registered
  <2>4. \E i \in 1..(saving' - 1) : Roles[i] = Role
    BY <2>2 DEF Role
  <2>5. \A r \in RoleNames : r = Role => Registered(r)'
    BY <2>1, <2>4 DEF Registered
  <2> QED
    BY <2>3, <2>5
<1>3. CASE ~(saving < Len(Roles))
  BY <1>3 DEF Register, Registered
<1> QED
  BY <1>2, <1>3

\* The checkpoints that a role remembers before its turn are older than the
\* step, and only the last of them is the tracked one.
LEMMA KeptOlder ==
    ASSUME IInv, pc \in {"save", "write"},
           NEW i \in 1..Len(kept[Role])
    PROVE  /\ kept[Role][i] \in Steps /\ kept[Role][i] < step
           /\ tracker \in Steps /\ kept[Role][Len(kept[Role])] = tracker
           /\ kept[Role][i] = tracker => i = Len(kept[Role])
<1>1. TypeOK /\ Counted /\ Remembered /\ TrackerBehind
  BY DEF IInv
<1>2. kept[Role] \in Seq(Steps) /\ Len(kept[Role]) \in Nat /\ Role \in RoleNames
  BY <1>1, RoomBound
<1>3. ~Registered(Role)
  BY <1>1, RegisteredRoles
<1>4. kept[Role] # <<>>
  BY <1>2
<1>5. Increasing(kept[Role]) /\ kept[Role][Len(kept[Role])] = tracker
  BY <1>1, <1>2, <1>3, <1>4 DEF Remembered
<1>6. Len(kept[Role]) \in 1..Len(kept[Role])
  BY <1>2
<1>7. tracker \in Steps /\ kept[Role][i] \in Steps
  BY <1>2, <1>5, <1>6
<1>8. tracker < step
  BY <1>1 DEF TrackerBehind, Saving
<1>9. i # Len(kept[Role]) => kept[Role][i] < tracker
  BY <1>2, <1>5, <1>6 DEF Increasing
<1>10. StepsPerEpoch * Epochs \in Nat /\ step \in Nat
  BY <1>1, RunAssumption DEF TypeOK
<1> QED
  BY <1>5, <1>7, <1>8, <1>9, <1>10 DEF Steps

\* What is left of the kept paths is increasing and holds the later ones.
LEMMA SuffixOf ==
    ASSUME NEW paths \in Seq(Steps), Increasing(paths), NEW k \in 0..Len(paths)
    PROVE  LET rest == SubSeq(paths, k + 1, Len(paths))
           IN  /\ rest \in Seq(Steps) /\ Len(rest) = Len(paths) - k
               /\ \A i \in 1..Len(rest) : rest[i] = paths[i + k]
               /\ Increasing(rest)
<1> DEFINE rest == SubSeq(paths, k + 1, Len(paths))
<1>1. Len(paths) \in Nat
  OBVIOUS
<1>2. rest \in Seq(Steps) /\ Len(rest) = Len(paths) - k
  BY <1>1, SubSeqProperties
<1>3. ASSUME NEW i \in 1..Len(rest) PROVE rest[i] = paths[i + k]
  BY <1>1, <1>2, <1>3, SubSeqProperties
<1> HIDE DEF rest
<1>4. Increasing(rest)
  BY <1>1, <1>2, <1>3 DEF Increasing
<1> QED
  BY <1>2, <1>3, <1>4 DEF rest

\* Nothing changes on disk, and no role's excuse goes away.
LEMMA TrackedSame ==
    ASSUME Tracked, UNCHANGED disk,
           \A r \in RoleNames : Registered(r) => Registered(r)',
           pc \in {"load", "failed", "down"} => pc' \in {"load", "failed", "down"}
    PROVE  Tracked'
BY DEF Tracked, Complete, Gone, disk

\* Outside a save the tracked checkpoint is complete, if it can be loaded.
LEMMA RunningTracked ==
    ASSUME TypeOK, Counted, Tracked, tracker \in Steps,
           pc \notin Saving \cup {"load", "failed", "down"}
    PROVE  \A r \in RoleNames : Complete(r, tracker)
BY RegisteredRoles DEF Tracked


\* A registered checkpoint survives the rotations that follow it.
LEMMA RotateSafe ==
    ASSUME IInv, pc \in {"save", "write"}, NEW k \in 0..Len(kept[Role]),
           NEW paths \in Seq(Steps), \A i \in 1..k : paths[i] = kept[Role][i],
           Rotate(paths, k)
    PROVE  /\ \A r \in RoleNames : shards'[step][r] = shards[step][r]
           /\ \A r \in RoleNames : tracker \in Steps /\ (r # Role \/ k < Len(kept[Role])) =>
                 shards'[tracker][r] = shards[tracker][r]
           /\ 0 < k /\ k = Len(kept[Role]) =>
                 shards'[tracker][Role] = Everywhere(Absent)
<1>1. TypeOK /\ Counted
  BY DEF IInv
<1>2. step \in Steps
  BY <1>1, StepOfBatch DEF Looping, Saving
<1>3. Len(kept[Role]) \in Nat /\ Role \in RoleNames
  BY <1>1, RoomBound
<1>4. \A i \in 1..k : i \in 1..Len(kept[Role])
  BY <1>3
<1>5. \A i \in 1..k : paths[i] # step
  <2>1. \A i \in 1..k : kept[Role][i] \in Steps /\ kept[Role][i] < step
    BY <1>4, KeptOlder
  <2>2. step \in Nat
    BY <1>1 DEF TypeOK
  <2> QED
    BY <2>1, <2>2
<1>6. k < Len(kept[Role]) => \A i \in 1..k : paths[i] # tracker
  BY <1>3, <1>4, KeptOlder
<1>7. \A r \in RoleNames : shards'[step][r] = shards[step][r]
  BY <1>1, <1>2, <1>5, RotateKeeps
<1>8. \A r \in RoleNames : tracker \in Steps /\ (r # Role \/ k < Len(kept[Role])) =>
         shards'[tracker][r] = shards[tracker][r]
  BY <1>1, <1>6, RotateKeeps
<1>9. ASSUME 0 < k, k = Len(kept[Role]) PROVE shards'[tracker][Role] = Everywhere(Absent)
  <2>1. k \in 1..k /\ k \in 1..Len(kept[Role])
    BY <1>3, <1>9
  <2>2. tracker \in Steps /\ paths[k] = tracker
    BY <1>9, <2>1, KeptOlder
  <2> QED
    BY <1>3, <2>1, <2>2 DEF Rotate
<1> QED
  BY <1>7, <1>8, <1>9

\* The paths that a register removes were all remembered before it.
LEMMA SurplusPaths ==
    ASSUME IInv, Register
    PROVE  LET paths == Append(kept[Role], step)
               k == Surplus(Role, paths)
           IN  /\ paths \in Seq(Steps) /\ k \in 0..Len(kept[Role])
               /\ \A i \in 1..k : paths[i] = kept[Role][i]
               /\ Rotate(paths, k)
<1>1. TypeOK /\ Counted /\ pc = "write"
  BY DEF IInv, Register
<1>2. step \in Steps
  BY <1>1, StepOfBatch DEF Looping, Saving
<1>3. Rotate(Append(kept[Role], step), Surplus(Role, Append(kept[Role], step)))
  BY DEF Register
<1>4. kept[Role] \in Seq(Steps) /\ Len(kept[Role]) \in Nat
  BY <1>1, RoomBound
<1>5. \A i \in 1..Len(kept[Role]) : Append(kept[Role], step)[i] = kept[Role][i]
  BY <1>2, <1>4
<1> QED
  BY <1>1, <1>2, <1>3, <1>4, <1>5, SurplusBound

\* What a save has written stays written until its end.
LEMMA WrittenKept ==
    ASSUME IInv, [Next]_vars
    PROVE  Written'
<1> USE DEF vars, disk, progress, loop, replicas
<1>0. TypeOK /\ Counted /\ Trained /\ Written
  BY RunAssumption DEF IInv
<1>1. CASE LoadRaises
  BY <1>0, <1>1 DEF LoadRaises, Written, Registered
<1>2. CASE LoadScratch
  BY <1>0, <1>2 DEF LoadScratch, Written, Registered
<1>3. CASE LoadCheckpoint
  BY <1>0, <1>3 DEF LoadCheckpoint, Written, Registered
<1>4. CASE PushInitial
  BY <1>0, <1>4 DEF PushInitial, Written, Registered
<1>5. CASE ValidateInitial
  BY <1>0, <1>5 DEF ValidateInitial, Written, Registered
<1>6. CASE NextBatch
  BY <1>0, <1>6 DEF NextBatch, Written, Registered
<1>7. CASE NextEpoch
  BY <1>0, <1>7 DEF NextEpoch, Written, Registered
<1>8. CASE EndOfData
  BY <1>0, <1>8 DEF EndOfData, Written, Registered
<1>9. CASE Generate
  BY <1>0, <1>9 DEF Generate, Written, Registered
<1>10. CASE Train
  BY <1>0, <1>10 DEF Train, Written, Registered, Counted
<1>11. CASE Sync
  BY <1>0, <1>11 DEF Sync, Written, Registered
<1>12. CASE Validate
  BY <1>0, <1>12 DEF Validate, Written, Registered
<1>13. CASE EnsureCapacity
  <2>1. \A r \in RoleNames : shards'[step][r] = shards[step][r]
    BY <1>0, <1>13, RoomBound, RotateSafe DEF EnsureCapacity
  <2>2. \A r \in RoleNames : Registered(r)' => Registered(r)
    BY <1>13 DEF EnsureCapacity, Registered
  <2> QED
    BY <1>0, <1>13, <2>1, <2>2 DEF EnsureCapacity, Written, Complete, Everywhere
<1>14. CASE Register
  <2>1. \A r \in RoleNames : shards'[step][r] = shards[step][r]
    <3> DEFINE paths == Append(kept[Role], step)
               k == Surplus(Role, paths)
    <3>1. /\ paths \in Seq(Steps) /\ k \in 0..Len(kept[Role])
          /\ \A i \in 1..k : paths[i] = kept[Role][i]
          /\ Rotate(paths, k)
      BY <1>14, SurplusPaths
    <3> HIDE DEF paths, k
    <3> QED
      BY <1>14, <3>1, RotateSafe DEF Register
  <2>2. \A r \in RoleNames : Registered(r)' => r = Role \/ Registered(r)
    BY <1>0, <1>14, RegisterRole
  <2>3. Complete(Role, step)
    BY <1>0, <1>14 DEF Register, AllWritten, Written, Complete
  <2>4. \A r \in RoleNames : Registered(r)' => Complete(r, step)
    BY <1>0, <2>2, <2>3 DEF Written
  <2>5. step' = step /\ pc' \in {"save", "data"}
    BY <1>14 DEF Register
  <2> QED
    BY <2>1, <2>4, <2>5 DEF Written, Complete
<1>15. ASSUME NEW rank \in Ranks, OpenShard(rank) PROVE Written'
  <2>1. step \in Steps
    BY <1>0, <1>15, StepOfBatch DEF OpenShard, Looping, Saving
  <2>2. ~Registered(Role) /\ Role \in RoleNames
    BY <1>0, <1>15, RegisteredRoles, RoomBound DEF OpenShard
  <2>3. \A r \in RoleNames : Registered(r)' => Registered(r)
    BY <1>15 DEF OpenShard, Registered
  <2>4. \A r \in RoleNames : Registered(r)' => Complete(r, step)'
    BY <1>0, <1>15, <2>1, <2>2, <2>3 DEF OpenShard, Written, Complete, TypeOK
  <2>5. \A other \in Ranks : written'[other] = "done" =>
           shards'[step][Role][other] = Whole(Weights(Role, step))
    BY <1>0, <1>15, <2>1, <2>2 DEF OpenShard, Progress, Written, TypeOK
  <2> QED
    BY <1>15, <2>4, <2>5 DEF OpenShard, Written, Role
<1>16. ASSUME NEW rank \in Ranks, CloseShard(rank) PROVE Written'
  <2>1. step \in Steps
    BY <1>0, <1>16, StepOfBatch DEF CloseShard, Looping, Saving
  <2>2. ~Registered(Role) /\ Role \in RoleNames
    BY <1>0, <1>16, RegisteredRoles, RoomBound DEF CloseShard
  <2>3. \A r \in RoleNames : Registered(r)' => Registered(r)
    BY <1>16 DEF CloseShard, Registered
  <2>4. \A r \in RoleNames : Registered(r)' => Complete(r, step)'
    BY <1>0, <1>16, <2>1, <2>2, <2>3 DEF CloseShard, Written, Complete, TypeOK
  <2>5. weights[Role][rank] = Weights(Role, step)
    BY <1>0, <1>16, <2>2 DEF CloseShard, Trained, Level, Saving, AllAt, Everywhere
  <2>6. \A other \in Ranks : written'[other] = "done" =>
           shards'[step][Role][other] = Whole(Weights(Role, step))
    BY <1>0, <1>16, <2>1, <2>2, <2>5 DEF CloseShard, Progress, Written, TypeOK
  <2> QED
    BY <1>16, <2>4, <2>6 DEF CloseShard, Written, Role
<1>17. CASE OpenData
  BY <1>0, <1>17 DEF OpenData, Written, Registered, Complete
<1>18. CASE CloseData
  <2>1. step \in Steps /\ BatchOf(step) = pos
    BY <1>0, <1>18, StepOfBatch DEF CloseData, Looping, Saving
  <2> QED
    BY <1>0, <1>18, <2>1 DEF CloseData, Written, Registered, Complete, TypeOK
<1>19. CASE OpenTracker
  BY <1>0, <1>19 DEF OpenTracker, Written, Registered, Complete
<1>20. CASE CloseTracker
  BY <1>0, <1>20 DEF CloseTracker, Written, Registered
<1>21. CASE Crash
  BY <1>0, <1>21 DEF Crash, Written, Registered
<1>22. CASE Restart
  BY <1>0, <1>22 DEF Restart, Written, Registered, Fresh
<1>23. CASE Rerun
  BY <1>0, <1>23 DEF Rerun, Written, Registered, Fresh
<1>24. CASE UNCHANGED vars
  BY <1>0, <1>24 DEF Written, Registered, Complete, Role
<1> QED
  BY <1>1, <1>2, <1>3, <1>4, <1>5, <1>6, <1>7, <1>8, <1>9,
     <1>10, <1>11, <1>12, <1>13, <1>14, <1>15, <1>16, <1>17, <1>18,
     <1>19, <1>20, <1>21, <1>22, <1>23, <1>24
     DEF Next, Fit, Load, TrainingLoop, SaveCheckpoint


\* Making room and writing shards leaves the tracked checkpoint alone.
LEMMA SavingLeavesTracked ==
    ASSUME IInv, tracker \in Steps,
           EnsureCapacity \/ \E rank \in Ranks : OpenShard(rank) \/ CloseShard(rank)
    PROVE  \A r \in RoleNames : shards'[tracker][r] = shards[tracker][r]
<1>1. TypeOK /\ Counted /\ TrackerBehind
  BY DEF IInv
<1>2. CASE EnsureCapacity
  <2>1. /\ Room(Role) \in 0..Len(kept[Role]) /\ kept[Role] \in Seq(Steps)
        /\ Len(kept[Role]) \in Nat /\ Role \in RoleNames
        /\ Room(Role) # 0 => Room(Role) < Len(kept[Role])
    BY <1>1, RoomBound
  <2>2. CASE Room(Role) # 0
    BY <2>1, <2>2, <1>2, RotateSafe DEF EnsureCapacity
  <2>3. CASE Room(Role) = 0
    BY <1>1, <1>2, <2>3, RotateKeeps DEF EnsureCapacity
  <2> QED
    BY <2>2, <2>3
<1>3. CASE \E rank \in Ranks : OpenShard(rank) \/ CloseShard(rank)
  <2>1. pc = "write"
    BY <1>3 DEF OpenShard, CloseShard
  <2>2. step \in Steps /\ tracker # step
    BY <1>1, <2>1, StepOfBatch DEF Looping, Saving, TrackerBehind, TypeOK
  <2> QED
    BY <1>1, <1>3, <2>2 DEF OpenShard, CloseShard, TypeOK
<1> QED
  BY <1>2, <1>3

\* Registering removes the tracked checkpoint of no role but the one being
\* saved, and of that only when it keeps a single one.
LEMMA RegisterLeavesTracked ==
    ASSUME IInv, tracker \in Steps, Register, NEW r \in RoleNames
    PROVE  \/ shards'[tracker][r] = shards[tracker][r]
           \/ r = Role /\ Keep[r] = 1 /\ shards'[tracker][r] = Everywhere(Absent)
<1> DEFINE paths == Append(kept[Role], step)
           k == Surplus(Role, paths)
<1>0. TypeOK /\ Counted /\ pc = "write"
  BY DEF IInv, Register
<1>1. /\ paths \in Seq(Steps) /\ k \in 0..Len(kept[Role])
      /\ \A i \in 1..k : paths[i] = kept[Role][i]
      /\ Rotate(paths, k)
  BY SurplusPaths
<1>2. Role \in RoleNames /\ Len(kept[Role]) \in Nat /\ Keep[Role] \in Nat
  BY <1>0, RoomBound
<1>3. step \in Steps
  BY <1>0, StepOfBatch DEF Looping, Saving
<1>4. k = 0 \/ k < Len(kept[Role]) \/ (Keep[Role] = 1 /\ 0 < k /\ k = Len(kept[Role]))
  BY <1>0, <1>2, <1>3, SurplusBound
<1> HIDE DEF paths, k
<1>5. CASE r # Role \/ k < Len(kept[Role])
  <2>1. \A q \in RoleNames : tracker \in Steps /\ (q # Role \/ k < Len(kept[Role])) =>
           shards'[tracker][q] = shards[tracker][q]
    BY <1>0, <1>1, RotateSafe
  <2> QED
    BY <1>5, <2>1
<1>6. CASE k = 0
  <2>1. \A i \in 1..k : paths[i] # tracker
    BY <1>6
  <2> QED
    BY <1>0, <1>1, <1>2, <2>1, RotateKeeps
<1>7. CASE r = Role /\ Keep[Role] = 1 /\ 0 < k /\ k = Len(kept[Role])
  BY <1>0, <1>1, <1>7, RotateSafe
<1> QED
  BY <1>2, <1>4, <1>5, <1>6, <1>7

\* The tracked checkpoint stays complete, but for a role that keeps one.
LEMMA TrackedKept ==
    ASSUME IInv, [Next]_vars
    PROVE  Tracked'
<1> USE DEF vars, disk, progress, loop, replicas
<1>0. TypeOK /\ Counted /\ Written /\ TrackerBehind /\ Tracked
  BY RunAssumption DEF IInv
<1>1. CASE LoadRaises
  BY <1>0, <1>1, TrackedSame DEF LoadRaises, Registered
<1>2. CASE LoadScratch
  BY <1>2 DEF LoadScratch, Tracked, None, Steps
<1>3. CASE LoadCheckpoint
  <2>1. tracker \in Steps /\ ShardsReadable(tracker)
    BY <1>0, <1>3 DEF LoadCheckpoint, Raises
  <2>2. \A r \in RoleNames : Complete(r, tracker)
    BY <1>0, <2>1, <1>3, WorkersAssumption
       DEF Tracked, ShardsReadable, Gone, Absent, Registered, LoadCheckpoint
  <2> QED
    BY <1>0, <2>1, <2>2, <1>3 DEF LoadCheckpoint, Tracked, Complete
<1>4. CASE PushInitial
  BY <1>0, <1>4, TrackedSame DEF PushInitial, Registered
<1>5. CASE ValidateInitial
  BY <1>0, <1>5, TrackedSame DEF ValidateInitial, Registered
<1>6. CASE NextBatch
  BY <1>0, <1>6, TrackedSame DEF NextBatch, Registered
<1>7. CASE NextEpoch
  BY <1>0, <1>7, TrackedSame DEF NextEpoch, Registered
<1>8. CASE EndOfData
  BY <1>0, <1>8, TrackedSame DEF EndOfData, Registered
<1>9. CASE Generate
  BY <1>0, <1>9, TrackedSame DEF Generate, Registered
<1>10. CASE Train
  BY <1>0, <1>10, TrackedSame DEF Train, Registered
<1>11. CASE Sync
  BY <1>0, <1>11, TrackedSame DEF Sync, Registered
<1>12. CASE Validate
  BY <1>0, <1>12, TrackedSame DEF Validate, Registered
<1>13. CASE EnsureCapacity
  <2>1. tracker \in Steps => \A r \in RoleNames : shards'[tracker][r] = shards[tracker][r]
    BY <1>13, SavingLeavesTracked
  <2>2. \A r \in RoleNames : Registered(r) => Registered(r)'
    BY <1>13 DEF EnsureCapacity, Registered
  <2> QED
    BY <1>0, <2>1, <2>2, <1>13 DEF EnsureCapacity, Tracked, Complete, Gone
<1>14. CASE Register
  <2>1. Role \in RoleNames /\ ~Registered(Role) /\ pc = "write"
    BY <1>0, <1>14, RoomBound, RegisteredRoles DEF Register
  <2>2. \A r \in RoleNames : r = Role \/ Registered(r) => Registered(r)'
    BY <1>0, <1>14, RegisteredStays
  <2>3. tracker' = tracker /\ data' = data
    BY <1>14 DEF Register
  <2>4. ASSUME tracker \in Steps, NEW r \in RoleNames
        PROVE  Complete(r, tracker)' \/ (Gone(r)' /\ Registered(r)')
    <3>1. \/ shards'[tracker][r] = shards[tracker][r]
          \/ r = Role /\ Keep[r] = 1 /\ shards'[tracker][r] = Everywhere(Absent)
      BY <1>14, <2>4, RegisterLeavesTracked
    <3>2. Complete(r, tracker) \/ (Gone(r) /\ Registered(r))
      BY <1>0, <2>1, <2>4 DEF Tracked
    <3> QED
      BY <2>1, <2>2, <2>3, <2>4, <3>1, <3>2 DEF Complete, Gone, Everywhere
  <2> QED
    BY <1>0, <2>3, <2>4 DEF Tracked
<1>15. ASSUME NEW rank \in Ranks, OpenShard(rank) PROVE Tracked'
  <2>1. tracker \in Steps => \A r \in RoleNames : shards'[tracker][r] = shards[tracker][r]
    BY <1>15, SavingLeavesTracked
  <2>2. \A r \in RoleNames : Registered(r) => Registered(r)'
    BY <1>15 DEF OpenShard, Registered
  <2> QED
    BY <1>0, <2>1, <2>2, <1>15 DEF OpenShard, Tracked, Complete, Gone
<1>16. ASSUME NEW rank \in Ranks, CloseShard(rank) PROVE Tracked'
  <2>1. tracker \in Steps => \A r \in RoleNames : shards'[tracker][r] = shards[tracker][r]
    BY <1>16, SavingLeavesTracked
  <2>2. \A r \in RoleNames : Registered(r) => Registered(r)'
    BY <1>16 DEF CloseShard, Registered
  <2> QED
    BY <1>0, <2>1, <2>2, <1>16 DEF CloseShard, Tracked, Complete, Gone
<1>17. CASE OpenData
  <2>1. step \in Steps /\ tracker # step
    BY <1>0, <1>17, StepOfBatch DEF OpenData, Looping, Saving, TrackerBehind, TypeOK
  <2>2. tracker \in Steps => data'[tracker] = data[tracker]
    BY <2>1, <1>0, <1>17 DEF OpenData, TypeOK
  <2> QED
    BY <1>0, <2>2, <1>17 DEF OpenData, Tracked, Complete, Gone, Registered
<1>18. CASE CloseData
  <2>1. step \in Steps /\ tracker # step
    BY <1>0, <1>18, StepOfBatch DEF CloseData, Looping, Saving, TrackerBehind, TypeOK
  <2>2. tracker \in Steps => data'[tracker] = data[tracker]
    BY <2>1, <1>0, <1>18 DEF CloseData, TypeOK
  <2> QED
    BY <1>0, <2>2, <1>18 DEF CloseData, Tracked, Complete, Gone, Registered
<1>19. CASE OpenTracker
  BY <1>19, RunAssumption DEF OpenTracker, Tracked, Torn, Steps
<1>20. CASE CloseTracker
  <2>1. \A r \in RoleNames : Complete(r, step)
    BY <1>0, <1>20 DEF CloseTracker, Written, Registered
  <2>2. data[step] = BatchOf(step)
    BY <1>0, <1>20 DEF CloseTracker, Written
  <2> QED
    BY <2>1, <2>2, <1>20 DEF CloseTracker, Tracked, Complete
<1>21. CASE Crash
  <2>1. ASSUME NEW r \in RoleNames, Registered(r), tracker \in Steps
        PROVE  \E n \in Steps : n > tracker /\ Complete(r, n)
    <3>1. pc \in Saving
      BY <1>0, <2>1, RegisteredRoles
    <3>2. step \in Steps /\ step > tracker
      BY <1>0, <3>1, StepOfBatch, RunAssumption DEF Looping, TrackerBehind, TypeOK, Steps
    <3> QED
      BY <1>0, <2>1, <3>2 DEF Written
  <2> QED
    BY <1>0, <2>1, <1>21 DEF Crash, Tracked, Complete, Gone, Running
<1>22. CASE Restart
  BY <1>0, <1>22 DEF Restart, Fresh, Tracked, Complete, Gone, Registered
<1>23. CASE Rerun
  <2>1. tracker \in Steps => \A r \in RoleNames : Complete(r, tracker)
    BY <1>0, <1>23, RunningTracked DEF Rerun, Saving
  <2> QED
    BY <1>0, <1>23, <2>1 DEF Rerun, Fresh, Tracked, Complete
<1>24. CASE UNCHANGED vars
  BY <1>0, <1>24 DEF Tracked, Registered, Complete, Gone
<1> QED
  BY <1>1, <1>2, <1>3, <1>4, <1>5, <1>6, <1>7, <1>8, <1>9,
     <1>10, <1>11, <1>12, <1>13, <1>14, <1>15, <1>16, <1>17, <1>18,
     <1>19, <1>20, <1>21, <1>22, <1>23, <1>24
     DEF Next, Fit, Load, TrainingLoop, SaveCheckpoint


\* The checkpoints of this life stay remembered in order.
LEMMA RememberedKept ==
    ASSUME IInv, [Next]_vars
    PROVE  Remembered'
<1> USE DEF vars, disk, progress, loop, replicas
<1>0. TypeOK /\ Counted /\ Remembered
  BY RunAssumption DEF IInv
<1>1. CASE LoadRaises
  BY <1>0, <1>1 DEF LoadRaises, Remembered, Registered
<1>2. CASE LoadScratch
  BY <1>0, <1>2 DEF LoadScratch, Remembered, Registered
<1>3. CASE LoadCheckpoint
  BY <1>0, <1>3 DEF LoadCheckpoint, Remembered, Registered
<1>4. CASE PushInitial
  BY <1>0, <1>4 DEF PushInitial, Remembered, Registered
<1>5. CASE ValidateInitial
  BY <1>0, <1>5 DEF ValidateInitial, Remembered, Registered
<1>6. CASE NextBatch
  BY <1>0, <1>6 DEF NextBatch, Remembered, Registered
<1>7. CASE NextEpoch
  BY <1>0, <1>7 DEF NextEpoch, Remembered, Registered
<1>8. CASE EndOfData
  BY <1>0, <1>8 DEF EndOfData, Remembered, Registered
<1>9. CASE Generate
  BY <1>0, <1>9 DEF Generate, Remembered, Registered
<1>10. CASE Train
  <2>1. \A r \in RoleNames : ~Registered(r) /\ ~Registered(r)'
    BY <1>0, <1>10 DEF Train, Registered, Counted
  <2> QED
    BY <1>0, <2>1, <1>10 DEF Train, Remembered
<1>11. CASE Sync
  BY <1>0, <1>11 DEF Sync, Remembered, Registered
<1>12. CASE Validate
  BY <1>0, <1>12 DEF Validate, Remembered, Registered
<1>13. CASE EnsureCapacity
  <2>1. /\ Room(Role) \in 0..Len(kept[Role]) /\ kept[Role] \in Seq(Steps)
        /\ Len(kept[Role]) \in Nat /\ Role \in RoleNames
        /\ Room(Role) # 0 => Room(Role) < Len(kept[Role])
    BY <1>0, RoomBound
  <2>2. ~Registered(Role) /\ pc = "save"
    BY <1>0, <1>13, RegisteredRoles DEF EnsureCapacity
  <2>3. Increasing(kept[Role])
        /\ (kept[Role] # <<>> => kept[Role][Len(kept[Role])] = tracker)
    BY <1>0, <2>1, <2>2 DEF Remembered
  <2> DEFINE rest == SubSeq(kept[Role], Room(Role) + 1, Len(kept[Role]))
  <2>4. /\ rest \in Seq(Steps) /\ Len(rest) = Len(kept[Role]) - Room(Role)
        /\ \A i \in 1..Len(rest) : rest[i] = kept[Role][i + Room(Role)]
        /\ Increasing(rest)
    BY <2>1, <2>3, SuffixOf
  <2>5. kept' = [kept EXCEPT ![Role] = rest] /\ pc' = "write"
        /\ saving' = saving /\ tracker' = tracker /\ step' = step
    BY <1>13 DEF EnsureCapacity, Rotate
  <2> HIDE DEF rest
  <2>6. rest # <<>> => rest[Len(rest)] = tracker
    <3>1. ASSUME rest # <<>> PROVE Len(rest) \in 1..Len(rest) /\ kept[Role] # <<>>
      BY <2>1, <2>4, <3>1
    <3>2. ASSUME rest # <<>> PROVE Len(rest) + Room(Role) = Len(kept[Role])
      BY <2>1, <2>4
    <3> QED
      BY <2>3, <2>4, <3>1, <3>2
  <2>7. kept' \in [RoleNames -> Seq(Steps)] /\ kept \in [RoleNames -> Seq(Steps)]
    BY <1>0, <2>1, <2>4, <2>5 DEF TypeOK
  <2>8. kept'[Role] = rest /\ \A r \in RoleNames : r # Role => kept'[r] = kept[r]
    BY <2>1, <2>5, <2>7
  <2>9. \A r \in RoleNames : Registered(r)' <=> Registered(r)
    BY <2>2, <2>5 DEF Registered
  <2> QED
    BY <1>0, <2>2, <2>4, <2>5, <2>6, <2>8, <2>9 DEF Remembered
<1>14. CASE Register
  <2> DEFINE paths == Append(kept[Role], step)
             k == Surplus(Role, paths)
             rest == SubSeq(paths, k + 1, Len(paths))
  <2>1. /\ paths \in Seq(Steps) /\ k \in 0..Len(kept[Role])
    BY <1>14, SurplusPaths
  <2>2. Role \in RoleNames /\ kept[Role] \in Seq(Steps) /\ Len(kept[Role]) \in Nat
        /\ ~Registered(Role) /\ pc = "write"
    BY <1>0, <1>14, RoomBound, RegisteredRoles DEF Register
  <2>3. step \in Steps
    BY <1>0, <1>14, StepOfBatch DEF Register, Looping, Saving
  <2>4. /\ Len(paths) = Len(kept[Role]) + 1 /\ paths[Len(paths)] = step
        /\ \A i \in 1..Len(kept[Role]) : paths[i] = kept[Role][i]
    BY <2>2, <2>3
  <2>5. Increasing(kept[Role])
    BY <1>0, <2>2 DEF Remembered
  <2>6. Increasing(paths)
    <3>1. \A i \in 1..Len(kept[Role]) : kept[Role][i] < step
      BY <2>2, KeptOlder
    <3>2. \A i \in 1..Len(paths) : i \in 1..Len(kept[Role]) \/ i = Len(paths)
      BY <2>2, <2>4
    <3>3. \A i, j \in 1..Len(paths) : i < j => i \in 1..Len(kept[Role])
      BY <2>2, <2>4
    <3> HIDE DEF paths
    <3> QED
      BY <2>4, <2>5, <3>1, <3>2, <3>3 DEF Increasing
  <2>7. kept' = [kept EXCEPT ![Role] = rest] /\ pc' \in {"save", "data"}
        /\ tracker' = tracker /\ step' = step
    BY <1>14 DEF Register, Rotate
  <2> HIDE DEF paths, k
  <2>8. k \in 0..Len(paths)
    BY <2>1, <2>2, <2>4
  <2>9. /\ rest \in Seq(Steps) /\ Len(rest) = Len(paths) - k
        /\ \A i \in 1..Len(rest) : rest[i] = paths[i + k]
        /\ Increasing(rest)
    BY <2>1, <2>6, <2>8, SuffixOf
  <2> HIDE DEF rest
  <2>10. rest # <<>> /\ rest[Len(rest)] = step
    <3>1. Len(rest) \in 1..Len(rest) /\ Len(rest) + k = Len(paths)
      BY <2>1, <2>2, <2>4, <2>9
    <3> QED
      BY <2>4, <2>9, <3>1
  <2>11. ASSUME Len(rest) > 1 PROVE rest[Len(rest) - 1] = tracker
    <3>1. Len(rest) - 1 \in 1..Len(rest) /\ (Len(rest) - 1) + k = Len(kept[Role])
          /\ Len(kept[Role]) \in 1..Len(kept[Role])
      BY <2>1, <2>2, <2>4, <2>9, <2>11
    <3>2. rest[Len(rest) - 1] = kept[Role][Len(kept[Role])]
      BY <2>4, <2>9, <3>1
    <3> QED
      BY <2>2, <3>1, <3>2, KeptOlder
  <2>12. kept'[Role] = rest /\ \A r \in RoleNames : r # Role => kept'[r] = kept[r]
    BY <1>0, <2>2, <2>7 DEF TypeOK
  <2>13. \A r \in RoleNames : (r = Role \/ Registered(r)) <=> Registered(r)'
    BY <1>0, <1>14, RegisterRole, RegisteredStays
  <2>14. ASSUME NEW r \in RoleNames, r = Role
         PROVE  /\ Increasing(kept'[r]) /\ Registered(r)'
                /\ kept'[r] # <<>> /\ kept'[r][Len(kept'[r])] = step'
                /\ Len(kept'[r]) > 1 => kept'[r][Len(kept'[r]) - 1] = tracker'
    BY <2>7, <2>9, <2>10, <2>11, <2>12, <2>13, <2>14
  <2>15. ASSUME NEW r \in RoleNames, r # Role
         PROVE  kept'[r] = kept[r] /\ (Registered(r) <=> Registered(r)')
    BY <2>12, <2>13, <2>15
  <2> QED
    BY <1>0, <2>2, <2>7, <2>14, <2>15 DEF Remembered
<1>15. ASSUME NEW rank \in Ranks, OpenShard(rank) PROVE Remembered'
  <2>1. \A r \in RoleNames : Registered(r)' <=> Registered(r)
    BY <1>15 DEF OpenShard, Registered
  <2> QED
    BY <1>0, <2>1, <1>15 DEF OpenShard, Remembered
<1>16. ASSUME NEW rank \in Ranks, CloseShard(rank) PROVE Remembered'
  <2>1. \A r \in RoleNames : Registered(r)' <=> Registered(r)
    BY <1>16 DEF CloseShard, Registered
  <2> QED
    BY <1>0, <2>1, <1>16 DEF CloseShard, Remembered
<1>17. CASE OpenData
  BY <1>0, <1>17 DEF OpenData, Remembered, Registered
<1>18. CASE CloseData
  BY <1>0, <1>18 DEF CloseData, Remembered, Registered
<1>19. CASE OpenTracker
  <2>1. \A r \in RoleNames : Registered(r) /\ Registered(r)'
    BY <1>19 DEF OpenTracker, Registered
  <2> QED
    BY <1>0, <2>1, <1>19 DEF OpenTracker, Remembered
<1>20. CASE CloseTracker
  <2>1. \A r \in RoleNames : Registered(r) /\ ~Registered(r)'
    BY <1>20 DEF CloseTracker, Registered
  <2> QED
    BY <1>0, <2>1, <1>20 DEF CloseTracker, Remembered
<1>21. CASE Crash
  BY <1>0, <1>21 DEF Crash, Remembered, Registered
<1>22. CASE Restart
  <2>1. \A r \in RoleNames : kept'[r] = <<>> /\ ~Registered(r)'
    BY <1>22 DEF Restart, Fresh, Registered
  <2> QED
    BY <2>1 DEF Remembered, Increasing
<1>23. CASE Rerun
  <2>1. \A r \in RoleNames : kept'[r] = <<>> /\ ~Registered(r)'
    BY <1>23 DEF Rerun, Fresh, Registered
  <2> QED
    BY <2>1 DEF Remembered, Increasing
<1>24. CASE UNCHANGED vars
  BY <1>0, <1>24 DEF Remembered, Registered
<1> QED
  BY <1>1, <1>2, <1>3, <1>4, <1>5, <1>6, <1>7, <1>8, <1>9,
     <1>10, <1>11, <1>12, <1>13, <1>14, <1>15, <1>16, <1>17, <1>18,
     <1>19, <1>20, <1>21, <1>22, <1>23, <1>24
     DEF Next, Fit, Load, TrainingLoop, SaveCheckpoint


-----------------------------------------------------------------------------
(* The theorems.                                                            *)

\* The inductive invariant holds in every state the trainer reaches.
THEOREM Invariant ==
    Spec => []IInv
<1>1. Init => IInv
  <2> SUFFICES ASSUME Init PROVE IInv
    OBVIOUS
  <2>1. \A r \in RoleNames : Weights(r, 0) = {}
    BY WeightsGrow
  <2>2. Everywhere(Absent) \in [Ranks -> Shards] /\ Everywhere({}) \in [Ranks -> SUBSET Trainings]
    BY DEF Everywhere, Absent, Shards
  <2>3. <<>> \in Seq(Steps)
    OBVIOUS
  <2>4. StepsPerEpoch * Epochs \in Nat /\ StepsPerEpoch \in Nat \ {0} /\ Epochs \in Nat \ {0}
        /\ MaxStops \in Nat
    BY RunAssumption
  <2>5. TypeOK
    <3>1. shards \in [Steps -> [RoleNames -> [Ranks -> Shards]]]
      BY <2>2 DEF Init
    <3>2. weights \in [RoleNames -> [Ranks -> SUBSET Trainings]]
          /\ served \in [Ranks -> SUBSET Trainings]
      BY <2>2 DEF Init
    <3>3. kept \in [RoleNames -> Seq(Steps)]
      BY <2>3 DEF Init
    <3>4. saving \in 1..Len(Roles)
      BY RolesDistinct DEF Init
    <3>5. step \in 0..(StepsPerEpoch * Epochs + 1) /\ total \in Totals
          /\ epoch \in 0..Epochs /\ pos \in 0..StepsPerEpoch /\ stops \in 0..MaxStops
      BY <2>4 DEF Init
    <3>6. written \in [Ranks -> {"no", "open", "done"}]
      BY DEF Init, Everywhere
    <3> QED
      BY <3>1, <3>2, <3>3, <3>4, <3>5, <3>6 DEF Init, TypeOK
  <2>6. Counted /\ Trained /\ Serving
    BY <2>1, <2>4 DEF Init, Counted, Trained, Serving, Behind, Level, Looping, Saving, AllAt
  <2>7. Written /\ TrackerBehind /\ DueSaved /\ Tracked /\ Remembered
    BY DEF Init, Written, TrackerBehind, DueSaved, Behind, Tracked, Remembered, Registered, Increasing,
           Saving, None, Steps
  <2> QED
    BY <2>5, <2>6, <2>7 DEF IInv
<1>2. IInv /\ [Next]_vars => IInv'
  BY TypeKept, CountedKept, TrainedKept, ServingKept, WrittenKept,
     TrackerBehindKept, DueSavedKept, TrackedKept, RememberedKept DEF IInv
<1> QED
  BY <1>1, <1>2, PTL DEF Spec

\* Every file, counter and rank stays in its range.
THEOREM TypeCorrect ==
    Spec => []TypeOK
<1>1. IInv => TypeOK
  BY DEF IInv
<1> QED
  BY <1>1, Invariant, PTL

\* Across any number of crashes, no batch is trained twice and none skipped.
THEOREM BatchesOnce ==
    Spec => []InStep
<1>1. IInv => InStep
  <2> SUFFICES ASSUME IInv, pc \in Looping
               PROVE  /\ step = epoch * StepsPerEpoch + pos
                      /\ \A r \in RoleNames, rank \in Ranks :
                            weights[r][rank] = Weights(r,
                               IF pc \in {"generate", "train"} THEN step - 1 ELSE step)
    BY DEF InStep, Looping
  <2>1. Counted /\ Trained
    BY DEF IInv
  <2>2. CASE pc \in {"generate", "train"}
    BY <2>1, <2>2 DEF Counted, Looping, Trained, Behind, AllAt, Everywhere
  <2>3. CASE pc \notin {"generate", "train"}
    BY <2>1, <2>3 DEF Counted, Looping, Trained, Level, AllAt, Everywhere
  <2> QED
    BY <2>2, <2>3
<1> QED
  BY <1>1, Invariant, PTL

\* The tracker names a complete checkpoint, but for the one window of a role
\* that keeps one.
THEOREM CheckpointComplete ==
    Spec => []TrackedComplete
<1>1. IInv => TrackedComplete
  <2> SUFFICES ASSUME IInv, tracker \in Steps PROVE TrackedComplete
    BY DEF TrackedComplete
  <2>1. TypeOK /\ Counted /\ Tracked /\ Written /\ TrackerBehind
    BY DEF IInv
  <2>2. ASSUME NEW r \in RoleNames, Gone(r), Registered(r)
        PROVE  Keep[r] = 1 /\ \E n \in Steps : n > tracker /\ Complete(r, n)
    <3>1. pc \in Saving
      BY <2>1, <2>2, RegisteredRoles
    <3>2. step \in Steps /\ step > tracker
      BY <2>1, <3>1, StepOfBatch, RunAssumption DEF Looping, TrackerBehind, TypeOK, Steps
    <3> QED
      BY <2>1, <2>2, <3>2 DEF Written, Gone
  <2> QED
    BY <2>1, <2>2 DEF Tracked, Gone, TrackedComplete
<1> QED
  BY <1>1, Invariant, PTL

\* The replicas generate with the actor as it was last trained.
THEOREM RolloutOnPolicy ==
    Spec => []OnPolicy
<1>1. IInv => OnPolicy
  <2> SUFFICES ASSUME IInv PROVE OnPolicy
    OBVIOUS
  <2>1. Serving
    BY DEF IInv
  <2> QED
    BY <2>1 DEF Serving, OnPolicy
<1> QED
  BY <1>1, Invariant, PTL

\* A run that returned has trained to the last step or all batches, and has
\* saved all that was due.
THEOREM DeployedAtEnd ==
    Spec => []EndsTrained
<1>1. IInv => EndsTrained
  <2> SUFFICES ASSUME IInv, pc = "ended" PROVE EndsTrained
    BY DEF EndsTrained
  <2>1. TypeOK /\ Counted /\ Trained /\ Tracked /\ DueSaved /\ step \in Nat
    BY DEF IInv, TypeOK
  <2>2. \A r \in RoleNames, rank \in Ranks : weights[r][rank] = Weights(r, step - 1)
    BY <2>1 DEF Trained, Behind, AllAt, Everywhere
  <2>3. ASSUME NEW n \in 1..(step - 1), Due(n)
        PROVE  tracker >= n /\ \A r \in RoleNames : Complete(r, tracker)
    <3>1. tracker >= n
      BY <2>1, <2>3 DEF DueSaved, Behind
    <3>2. tracker \in Steps
      BY <2>1, <3>1 DEF TypeOK, None, Torn
    <3> QED
      BY <2>1, <3>1, <3>2, RunningTracked DEF Saving
  <2>4. step > total \/ step > StepsPerEpoch * Epochs
    BY <2>1 DEF DueSaved
  <2> QED
    BY <2>2, <2>3, <2>4 DEF EndsTrained
<1> QED
  BY <1>1, Invariant, PTL


-----------------------------------------------------------------------------
(* The refinement: checkpoints implement one saved policy.                  *)

\* The tracker and the shards it names decide what a restart resumes.
LEMMA SavedSame ==
    ASSUME tracker' = tracker,
           tracker \in Steps =>
              \A r \in RoleNames : shards'[tracker][r] = shards[tracker][r],
           tracker \in {None, Torn} \cup Steps
    PROVE  saved' = saved
<1>1. CASE tracker \in Steps
  <2>1. ShardsReadable(tracker)' <=> ShardsReadable(tracker)
    BY <1>1 DEF ShardsReadable
  <2>2. [r \in RoleNames |-> shards'[tracker][r][Anyone].of]
        = [r \in RoleNames |-> shards[tracker][r][Anyone].of]
    BY <1>1
  <2> QED
    BY <1>1, <2>1, <2>2 DEF saved
<1>2. CASE tracker = None \/ tracker = Torn
  BY <1>2 DEF saved, None, Torn
<1> QED
  BY <1>1, <1>2

\* With the same shards and tracker a restart resumes the same policy.
LEMMA SavedSameDisk ==
    ASSUME TypeOK, UNCHANGED <<shards, tracker>>
    PROVE  saved' = saved
BY SavedSame DEF TypeOK

\* There is a rank whose shard stands for all.
LEMMA AnyoneIsRank == Anyone \in Ranks
BY WorkersAssumption DEF Anyone

\* A training step teaches every role the same one batch, or nothing.
LEMMA TrainLearns ==
    ASSUME IInv, Train
    PROVE  policy' = policy \/ Progressed!Learn
<1> DEFINE old == [r \in RoleNames |-> weights[r][Anyone]]
           new == [r \in RoleNames |-> weights'[r][Anyone]]
<1>1. TypeOK /\ Counted /\ Trained /\ step - 1 \in Nat /\ (step - 1) + 1 = step
  <2>1. TypeOK /\ Counted /\ Trained
    BY DEF IInv
  <2>2. step \in Steps
    BY <2>1, StepOfBatch DEF Train, Looping
  <2>3. step \in Nat /\ step >= 1
    BY <2>1, <2>2, RunAssumption DEF TypeOK, Steps
  <2> QED
    BY <2>1, <2>3
<1>2. policy = {old} /\ policy' = {new}
  BY DEF Train, policy, Up
<1>3. \A r \in RoleNames : new[r] = old[r] \cup IF r \in TrainedNow THEN {<<step, pos>>} ELSE {}
  BY <1>1, AnyoneIsRank DEF Train, TypeOK
<1>4. \A r \in RoleNames : <<step, pos>> \notin old[r]
  <2>1. \A r \in RoleNames : old[r] = Weights(r, step - 1)
    BY <1>1, AnyoneIsRank DEF Train, Trained, Behind, AllAt, Everywhere
  <2>2. \A r \in RoleNames : \A b : <<(step - 1) + 1, b>> \notin Weights(r, step - 1)
    BY <1>1, WeightsGrow
  <2> QED
    BY <1>1, <2>1, <2>2
<1> HIDE DEF old, new
<1>5. CASE \E r \in RoleNames : r \in TrainedNow
  <2>1. UNION {new[r] \ old[r] : r \in RoleNames} = {<<step, pos>>}
    BY <1>3, <1>4, <1>5
  <2>2. Progressed!Learned(old, new)
    BY <1>3, <2>1 DEF Progressed!Learned
  <2>3. saved' = saved
    BY <1>1, SavedSameDisk DEF Train, disk
  <2> QED
    BY <1>2, <2>2, <2>3 DEF Progressed!Learn
<1>6. CASE ~ \E r \in RoleNames : r \in TrainedNow
  <2>1. \A r \in RoleNames : new[r] = old[r]
    BY <1>3, <1>6
  <2>2. new = old
    BY <2>1 DEF new, old
  <2> QED
    BY <1>2, <2>2
<1> QED
  BY <1>5, <1>6

\* A load, from scratch or from a checkpoint, resumes the saved policy.
LEMMA LoadResumes ==
    ASSUME IInv, LoadScratch \/ LoadCheckpoint
    PROVE  Progressed!Resume
<1>1. TypeOK /\ Trained /\ Counted /\ pc = "load" /\ pc' = "push" /\ saved' = saved
  BY SavedSameDisk DEF IInv, LoadScratch, LoadCheckpoint, disk
<1>2. policy = {} /\ policy' = {[r \in RoleNames |-> weights'[r][Anyone]]}
  BY <1>1 DEF policy, Up
<1>3. CASE LoadScratch
  <2>1. weights' = weights /\ weights = AllAt(0) /\ saved = {[r \in RoleNames |-> {}]}
    BY <1>1, <1>3 DEF LoadScratch, Trained, Level, Counted, saved
  <2>2. \A r \in RoleNames : Weights(r, 0) = {}
    BY WeightsGrow
  <2>3. \A r \in RoleNames : weights'[r][Anyone] = {}
    BY <2>1, <2>2, AnyoneIsRank DEF AllAt, Everywhere
  <2>4. [r \in RoleNames |-> weights'[r][Anyone]] = [r \in RoleNames |-> {}]
    BY <2>3
  <2> QED
    BY <1>1, <1>2, <2>1, <2>4 DEF Progressed!Resume
<1>4. CASE LoadCheckpoint
  <2>1. tracker \in Steps /\ ShardsReadable(tracker)
    BY <1>4 DEF LoadCheckpoint, Raises
  <2>2. tracker # None /\ tracker # Torn
    BY <2>1, RunAssumption DEF Steps, None, Torn
  <2>3. saved = {[r \in RoleNames |-> shards[tracker][r][Anyone].of]}
    BY <2>1, <2>2 DEF saved
  <2>4. [r \in RoleNames |-> weights'[r][Anyone]]
        = [r \in RoleNames |-> shards[tracker][r][Anyone].of]
    BY <1>4, AnyoneIsRank DEF LoadCheckpoint
  <2> QED
    BY <1>1, <1>2, <2>3, <2>4 DEF Progressed!Resume
<1> QED
  BY <1>3, <1>4

\* A registration keeps the saved policy or removes it, as the only one kept.
LEMMA RegisterErases ==
    ASSUME IInv, Register
    PROVE  saved' = saved \/ saved' = {}
<1>1. TypeOK /\ tracker' = tracker
  BY DEF IInv, Register
<1>2. CASE tracker \notin Steps
  BY <1>1, <1>2, SavedSame DEF TypeOK
<1>3. CASE tracker \in Steps /\ \A r \in RoleNames : shards'[tracker][r] = shards[tracker][r]
  BY <1>1, <1>3, SavedSame DEF TypeOK
<1>4. ASSUME tracker \in Steps, NEW r \in RoleNames, shards'[tracker][r] # shards[tracker][r]
      PROVE  saved' = {}
  <2>1. shards'[tracker][r] = Everywhere(Absent)
    BY <1>4, RegisterLeavesTracked
  <2>2. ~ShardsReadable(tracker)'
    BY <1>1, <2>1, AnyoneIsRank DEF ShardsReadable, Everywhere, Absent
  <2>3. tracker # None
    BY <1>4, RunAssumption DEF Steps, None
  <2> QED
    BY <1>1, <2>2, <2>3 DEF saved
<1> QED
  BY <1>2, <1>3, <1>4

\* The tracker written, the saved policy is the one in training.
LEMMA CloseTrackerRecords ==
    ASSUME IInv, CloseTracker
    PROVE  saved' = policy /\ policy # {}
<1>1. TypeOK /\ Counted /\ Trained /\ Written
  BY DEF IInv
<1>2. step \in Steps /\ step # None /\ step # Torn
  <2>1. step \in Steps
    BY <1>1, StepOfBatch DEF CloseTracker, Looping, Saving
  <2> QED
    BY <2>1, RunAssumption DEF Steps, None, Torn
<1>3. \A r \in RoleNames, rank \in Ranks :
         /\ shards'[step][r][rank].state = "whole"
         /\ shards'[step][r][rank].of = Weights(r, step)
  <2>1. \A r \in RoleNames : Complete(r, step)
    BY <1>1 DEF CloseTracker, Written, Registered
  <2>2. \A w : Whole(w).of = w /\ Whole(w).state = "whole"
    BY DEF Whole
  <2> QED
    BY <2>1, <2>2 DEF CloseTracker, Complete
<1>4. tracker' = step
  BY DEF CloseTracker
<1>5. ShardsReadable(tracker)'
  BY <1>3, <1>4 DEF ShardsReadable
<1>6. saved' = {[r \in RoleNames |-> Weights(r, step)]}
  BY <1>2, <1>3, <1>4, <1>5, AnyoneIsRank DEF saved
<1>7. [r \in RoleNames |-> weights[r][Anyone]] = [r \in RoleNames |-> Weights(r, step)]
  BY <1>1, AnyoneIsRank DEF CloseTracker, Trained, Level, Saving, AllAt, Everywhere
<1> QED
  BY <1>6, <1>7 DEF CloseTracker, policy, Up

\* Every step of the trainer is a step of the abstract specification.
LEMMA StepImplements ==
    ASSUME IInv, [Next]_vars
    PROVE  [Progressed!Next]_<<policy, saved>>
<1> USE DEF disk
<1>0. TypeOK
  BY DEF IInv
<1>1. CASE LoadRaises \/ Restart \/ Rerun
  <2>1. policy = {} /\ policy' = {}
    BY <1>1 DEF LoadRaises, Restart, Rerun, Fresh, policy, Up
  <2>2. saved' = saved
    BY <1>0, <1>1, SavedSameDisk DEF LoadRaises, Restart, Rerun
  <2> QED
    BY <2>1, <2>2
<1>2. CASE LoadScratch \/ LoadCheckpoint
  BY <1>2, LoadResumes DEF Progressed!Next
<1>3. CASE PushInitial \/ ValidateInitial \/ NextBatch \/ NextEpoch \/ Generate \/ Sync
  <2>1. policy' = policy
    BY <1>3 DEF PushInitial, ValidateInitial, NextBatch, NextEpoch, Generate, Sync, policy, Up
  <2>2. saved' = saved
    BY <1>0, <1>3, SavedSameDisk
       DEF PushInitial, ValidateInitial, NextBatch, NextEpoch, Generate, Sync
  <2> QED
    BY <2>1, <2>2
<1>4. CASE EndOfData \/ Validate \/ Crash
  <2>1. policy' = policy \/ policy' = {}
    BY <1>4 DEF EndOfData, Validate, Crash, policy, Up
  <2>2. saved' = saved
    BY <1>0, <1>4, SavedSameDisk DEF EndOfData, Validate, Crash
  <2> QED
    BY <2>1, <2>2 DEF Progressed!Next, Progressed!Stop
<1>5. CASE Train
  <2>1. saved' = saved
    BY <1>0, <1>5, SavedSameDisk DEF Train
  <2> QED
    BY <1>5, <2>1, TrainLearns DEF Progressed!Next
<1>6. CASE EnsureCapacity \/ \E rank \in Ranks : OpenShard(rank) \/ CloseShard(rank)
  <2>1. tracker' = tracker /\ policy' = policy
    BY <1>6 DEF EnsureCapacity, OpenShard, CloseShard, policy, Up
  <2>2. tracker \in Steps => \A r \in RoleNames : shards'[tracker][r] = shards[tracker][r]
    BY <1>6, SavingLeavesTracked
  <2>3. saved' = saved
    BY <1>0, <2>1, <2>2, SavedSame DEF TypeOK
  <2> QED
    BY <2>1, <2>3
<1>7. CASE Register
  <2>1. policy' = policy /\ policy # {}
    BY <1>7 DEF Register, policy, Up
  <2> QED
    BY <1>7, <2>1, RegisterErases DEF Progressed!Next, Progressed!Erase
<1>8. CASE OpenData \/ CloseData
  <2>1. policy' = policy
    BY <1>8 DEF OpenData, CloseData, policy, Up
  <2>2. saved' = saved
    BY <1>0, <1>8, SavedSameDisk DEF OpenData, CloseData
  <2> QED
    BY <2>1, <2>2
<1>9. CASE OpenTracker
  <2>1. policy' = policy /\ policy # {}
    BY <1>9 DEF OpenTracker, policy, Up
  <2>2. saved' = {}
    BY <1>9 DEF OpenTracker, saved, None, Torn
  <2> QED
    BY <2>1, <2>2 DEF Progressed!Next, Progressed!Erase
<1>10. CASE CloseTracker
  <2>1. policy' = policy
    BY <1>10 DEF CloseTracker, policy, Up
  <2> QED
    BY <1>10, <2>1, CloseTrackerRecords DEF Progressed!Next, Progressed!Record
<1>11. CASE UNCHANGED vars
  <2>1. policy' = policy
    BY <1>11 DEF vars, policy, Up
  <2>2. saved' = saved
    BY <1>0, <1>11, SavedSameDisk DEF vars
  <2> QED
    BY <2>1, <2>2
<1> QED
  BY <1>1, <1>2, <1>3, <1>4, <1>5, <1>6, <1>7, <1>8, <1>9, <1>10, <1>11
     DEF Next, Fit, Load, TrainingLoop, SaveCheckpoint

\* A restart resumes exactly the policy that was in training when the tracker
\* was last written, whatever the crashes in between.
THEOREM Implements ==
    Spec => ResumesSaved
<1>1. Init => Progressed!Init
  BY DEF Init, policy, saved, Up, Progressed!Init, Progressed!Untrained
<1>2. IInv /\ [Next]_vars => [Progressed!Next]_<<policy, saved>>
  BY StepImplements
<1> QED
  BY <1>1, <1>2, Invariant, PTL DEF Spec, ResumesSaved, Progressed!Spec

=============================================================================
