---------------------------- MODULE SyncTrainer ----------------------------
(***************************************************************************)
(* The synchronous PPO trainer of verl, trainer/ppo/ray_trainer.py: the    *)
(* loop of fit over epochs and batches, the checkpoint it writes (one file *)
(* per rank and role, the position of the data loader, the tracker file),  *)
(* the rotation of old checkpoints, the weights it pushes to the rollout   *)
(* replicas, and its restart from the tracker after a crash.               *)
(*                                                                         *)
(* The weights of a model are the set of <<step, batch>> it was trained    *)
(* on. The contents of a batch, the losses and the metrics are left out.   *)
(***************************************************************************)
EXTENDS Integers, Sequences, FiniteSets

CONSTANTS
    Ranks,          \* the workers of the trainer, each writes its own shard
    Roles,          \* <<"actor">> or <<"actor", "critic">>, in saving order
    Keep,           \* max_actor_ckpt_to_keep, max_critic_ckpt_to_keep; 0: all
    StepsPerEpoch,  \* len(train_dataloader)
    Epochs,         \* total_epochs
    Totals,         \* what total_training_steps may be set to, at each start
    SaveFreq,       \* save_freq; 0 never saves
    CriticWarmup,   \* critic_warmup
    MayExpire,      \* the machine's capacity block has an expiration
    MaxStops        \* bound: crashes of the trainer and reruns of a finished one

ASSUME RunAssumption ==
    /\ StepsPerEpoch \in Nat \ {0}
    /\ Epochs \in Nat \ {0}
    /\ Totals \subseteq Int /\ Totals # {}
    /\ SaveFreq \in Nat
    /\ CriticWarmup \in Nat
    /\ MayExpire \in BOOLEAN
    /\ MaxStops \in Nat

ASSUME WorkersAssumption ==
    /\ Ranks # {}
    /\ Roles \in {<<"actor">>, <<"actor", "critic">>}
    /\ Keep \in [{Roles[i] : i \in 1..Len(Roles)} -> Nat]

Steps == 1..(StepsPerEpoch * Epochs)
RoleNames == {Roles[i] : i \in 1..Len(Roles)}

VARIABLES
    shards,   \* disk: a role's file of a step and rank, absent, torn or whole
    data,     \* disk: data.pt of a step, the batches its position is past
    tracker,  \* disk: latest_checkpointed_iteration.txt
    pc,       \* where the driver is
    saving,   \* the role being saved, an index of Roles
    written,  \* each rank's progress in the shard being saved
    kept,     \* previous_saved_paths of a role's checkpoint manager
    weights,  \* the model each rank holds
    step,     \* global_steps
    total,    \* total_training_steps, as this life of the trainer was started
    epoch,
    pos,      \* batches the data loader has yielded in this epoch
    served,   \* the weights of the replicas, gathered from the ranks
    awake,    \* the replicas have their weights in memory
    stops     \* crashes and reruns so far

disk == <<shards, data, tracker>>
progress == <<saving, written>>
loop == <<step, total, epoch, pos>>
replicas == <<served, awake>>
vars == <<disk, pc, progress, kept, weights, loop, replicas, stops>>

-----------------------------------------------------------------------------
\* A number in a file: None when there is no file, Torn when it is incomplete.
None == 0
Torn == -1

Absent == [state |-> "absent", of |-> {}]
Opened == [state |-> "torn", of |-> {}]
Whole(w) == [state |-> "whole", of |-> w]

Everywhere(x) == [rank \in Ranks |-> x]

\* The state of the workers and the driver before fit loads a checkpoint; the
\* replicas are put to sleep as soon as they are created.
Fresh ==
    /\ pc' = "load"
    /\ saving' = 1
    /\ written' = Everywhere("no")
    /\ kept' = [r \in RoleNames |-> <<>>]
    /\ weights' = [r \in RoleNames |-> Everywhere({})]
    /\ step' = 0 /\ epoch' = 0 /\ pos' = 0
    /\ total' \in Totals
    /\ served' = Everywhere({}) /\ awake' = FALSE

Init ==
    /\ shards = [n \in Steps |-> [r \in RoleNames |-> Everywhere(Absent)]]
    /\ data = [n \in Steps |-> None]
    /\ tracker = None
    /\ pc = "load"
    /\ saving = 1
    /\ written = Everywhere("no")
    /\ kept = [r \in RoleNames |-> <<>>]
    /\ weights = [r \in RoleNames |-> Everywhere({})]
    /\ step = 0 /\ epoch = 0 /\ pos = 0
    /\ total \in Totals
    /\ served = Everywhere({}) /\ awake = FALSE
    /\ stops = 0

-----------------------------------------------------------------------------
(* Loading: the tracker names the folder, a missing tracker means scratch.  *)

ShardsReadable(n) ==
    \A r \in RoleNames, rank \in Ranks : shards[n][r][rank].state = "whole"

\* A position saved at the end of an epoch says "exhausted": it is skipped.
AtEpochBoundary(n) == n % StepsPerEpoch = 0

\* A file that does not parse makes the load raise, and fit with it.
Raises ==
    \/ tracker = Torn
    \/ /\ tracker \in Steps
       /\ \/ ~ShardsReadable(tracker)
          \/ ~AtEpochBoundary(tracker) /\ data[tracker] = Torn

LoadRaises ==
    /\ pc = "load" /\ Raises
    /\ pc' = "failed"
    /\ UNCHANGED <<disk, progress, kept, weights, loop, replicas, stops>>

LoadScratch ==
    /\ pc = "load" /\ tracker = None
    /\ pc' = "push"
    /\ UNCHANGED <<disk, progress, kept, weights, loop, replicas, stops>>

\* Mutant: only the actor is loaded.
LoadCheckpointActor ==
    /\ pc = "load" /\ tracker \in Steps /\ ~Raises
    /\ weights' = [weights EXCEPT !["actor"] =
                      [rank \in Ranks |-> shards[tracker]["actor"][rank].of]]
    /\ step' = tracker
    /\ epoch' = tracker \div StepsPerEpoch
    /\ pos' = IF AtEpochBoundary(tracker) THEN 0 ELSE data[tracker]
    /\ pc' = "push"
    /\ UNCHANGED <<disk, progress, kept, total, replicas, stops>>

\* Mutant: the data loader starts every life at the first batch.
LoadCheckpointAnew ==
    /\ pc = "load" /\ tracker \in Steps /\ ~Raises
    /\ weights' = [r \in RoleNames |-> [rank \in Ranks |-> shards[tracker][r][rank].of]]
    /\ step' = tracker
    /\ epoch' = tracker \div StepsPerEpoch
    /\ pos' = 0
    /\ pc' = "push"
    /\ UNCHANGED <<disk, progress, kept, total, replicas, stops>>

LoadCheckpoint ==
    /\ pc = "load" /\ tracker \in Steps /\ ~Raises
    /\ weights' = [r \in RoleNames |-> [rank \in Ranks |-> shards[tracker][r][rank].of]]
    /\ step' = tracker
    /\ epoch' = tracker \div StepsPerEpoch
    /\ pos' = IF AtEpochBoundary(tracker) THEN 0 ELSE data[tracker]
    /\ pc' = "push"
    /\ UNCHANGED <<disk, progress, kept, total, replicas, stops>>

\* The replicas get the actor from all ranks; they are awake from then on.
PushWeights == served' = weights["actor"] /\ awake' = TRUE

PushInitial ==
    /\ pc = "push"
    /\ PushWeights
    /\ pc' = "validate0"
    /\ UNCHANGED <<disk, progress, kept, weights, loop, stops>>

\* Validation generates with the replicas and changes nothing; training
\* starts at the step after the one loaded.
ValidateInitial ==
    /\ pc = "validate0"
    /\ step' = step + 1
    /\ pc' = "next"
    /\ UNCHANGED <<disk, progress, kept, weights, total, epoch, pos, replicas, stops>>

-----------------------------------------------------------------------------
(* One pass of the training loop.                                           *)

NextBatch ==
    /\ pc = "next" /\ epoch < Epochs /\ pos < StepsPerEpoch
    /\ pos' = pos + 1
    /\ pc' = "generate"
    /\ UNCHANGED <<disk, progress, kept, weights, step, total, epoch, replicas, stops>>

\* The data loader is exhausted: the outer loop takes the next epoch.
NextEpoch ==
    /\ pc = "next" /\ epoch < Epochs /\ pos = StepsPerEpoch
    /\ epoch' = epoch + 1
    /\ pos' = 0
    /\ UNCHANGED <<disk, pc, progress, kept, weights, step, total, replicas, stops>>

\* Both loops are over: fit returns without a last step, whether there was none
\* left to train or total_training_steps is more than the batches there are.
EndOfData ==
    /\ pc = "next" /\ epoch >= Epochs
    /\ pc' = "ended"
    /\ UNCHANGED <<disk, progress, kept, weights, loop, replicas, stops>>

\* The replicas roll the batch out, then give their memory to the trainer.
Generate ==
    /\ pc = "generate"
    /\ awake' = FALSE
    /\ pc' = "train"
    /\ UNCHANGED <<disk, progress, kept, weights, loop, served, stops>>

IsLastStep == step >= total

WarmingUp == CriticWarmup > step

\* The critic learns at every step, the actor once the warm-up is over.
TrainedNow == IF WarmingUp THEN RoleNames \ {"actor"} ELSE RoleNames

\* Mutant: the last step is saved only when it is a multiple of save_freq.
MustSaveNotLast(close) == SaveFreq > 0 /\ (step % SaveFreq = 0 \/ close)

\* close: the machine's capacity block is about to expire.
MustSave(close) ==
    SaveFreq > 0 /\ (IsLastStep \/ step % SaveFreq = 0 \/ close)

Train ==
    /\ pc = "train"
    /\ weights' = [r \in RoleNames |-> [rank \in Ranks |->
                      weights[r][rank] \cup IF r \in TrainedNow THEN {<<step, pos>>} ELSE {}]]
    /\ \E close \in (IF MayExpire THEN BOOLEAN ELSE {FALSE}) :
          pc' = IF ~WarmingUp /\ MustSave(close) THEN "save" ELSE "sync"
    /\ UNCHANGED <<disk, progress, kept, loop, replicas, stops>>

\* Mutant: a warm-up step, which leaves the actor alone, pushes no weights.
SyncAfterActor ==
    /\ pc = "sync"
    /\ IF WarmingUp THEN UNCHANGED replicas ELSE PushWeights
    /\ pc' = "validate"
    /\ UNCHANGED <<disk, progress, kept, weights, loop, stops>>

Sync ==
    /\ pc = "sync"
    /\ PushWeights
    /\ pc' = "validate"
    /\ UNCHANGED <<disk, progress, kept, weights, loop, stops>>

\* The validation of this step, when it is due, and the end of the step.
Validate ==
    /\ pc = "validate"
    /\ step' = step + 1
    /\ pc' = IF IsLastStep THEN "ended" ELSE "next"
    /\ UNCHANGED <<disk, progress, kept, weights, total, epoch, pos, replicas, stops>>

-----------------------------------------------------------------------------
(* _save_checkpoint: the roles in turn, then the data position, the tracker. *)

Role == Roles[saving]

Progress(rank, p) == written' = [written EXCEPT ![rank] = p]

\* The directories of the first k paths are removed, and the paths forgotten.
Rotate(paths, k) ==
    /\ kept' = [kept EXCEPT ![Role] = SubSeq(paths, k + 1, Len(paths))]
    /\ shards' = [n \in Steps |-> [r \in RoleNames |->
          IF r = Role /\ \E i \in 1..k : paths[i] = n
            THEN Everywhere(Absent) ELSE shards[n][r]]]

\* Mutant: one more checkpoint is removed to make room.
RoomGreedy(role) ==
    IF Keep[role] > 1 /\ Len(kept[role]) >= Keep[role]
      THEN Len(kept[role]) - Keep[role] + 2 ELSE 0

\* Before a save, all but Keep - 1 go; a single one is not touched yet.
Room(role) ==
    IF Keep[role] > 1 /\ Len(kept[role]) >= Keep[role]
      THEN Len(kept[role]) - Keep[role] + 1 ELSE 0

\* After a save, all but Keep go.
Surplus(role, paths) ==
    IF Keep[role] > 0 /\ Len(paths) > Keep[role] THEN Len(paths) - Keep[role] ELSE 0

\* Rank 0 makes room, every rank makes the directory, and all wait.
EnsureCapacity ==
    /\ pc = "save"
    /\ Rotate(kept[Role], Room(Role))
    /\ pc' = "write"
    /\ written' = Everywhere("no")
    /\ UNCHANGED <<data, tracker, saving, weights, loop, replicas, stops>>

\* A rank's files are opened, which truncates what was there, and completed.
OpenShard(rank) ==
    /\ pc = "write" /\ written[rank] = "no"
    /\ shards' = [shards EXCEPT ![step][Role][rank] = Opened]
    /\ Progress(rank, "open")
    /\ UNCHANGED <<data, tracker, pc, saving, kept, weights, loop, replicas, stops>>

CloseShard(rank) ==
    /\ pc = "write" /\ written[rank] = "open"
    /\ shards' = [shards EXCEPT ![step][Role][rank] = Whole(weights[Role][rank])]
    /\ Progress(rank, "done")
    /\ UNCHANGED <<data, tracker, pc, saving, kept, weights, loop, replicas, stops>>

\* Mutant: rank 0 registers its checkpoint without waiting for the others.
AllWrittenAny == \E rank \in Ranks : written[rank] = "done"

AllWritten == \A rank \in Ranks : written[rank] = "done"

\* Past the barrier rank 0 registers the checkpoint and removes the surplus;
\* the driver goes on to the next role, or to the data loader's position.
Register ==
    /\ pc = "write" /\ AllWritten
    /\ LET paths == Append(kept[Role], step)
       IN  Rotate(paths, Surplus(Role, paths))
    /\ IF saving < Len(Roles)
         THEN saving' = saving + 1 /\ pc' = "save"
         ELSE saving' = 1 /\ pc' = "data"
    /\ UNCHANGED <<data, tracker, written, weights, loop, replicas, stops>>

OpenData ==
    /\ pc = "data"
    /\ data' = [data EXCEPT ![step] = Torn]
    /\ pc' = "close_data"
    /\ UNCHANGED <<shards, tracker, progress, kept, weights, loop, replicas, stops>>

CloseData ==
    /\ pc = "close_data"
    /\ data' = [data EXCEPT ![step] = pos]
    /\ pc' = "tracker"
    /\ UNCHANGED <<shards, tracker, progress, kept, weights, loop, replicas, stops>>

\* The tracker is opened for writing, which empties it, and then written.
OpenTracker ==
    /\ pc = "tracker"
    /\ tracker' = Torn
    /\ pc' = "close_tracker"
    /\ UNCHANGED <<shards, data, progress, kept, weights, loop, replicas, stops>>

CloseTracker ==
    /\ pc = "close_tracker"
    /\ tracker' = step
    /\ pc' = "sync"
    /\ UNCHANGED <<shards, data, progress, kept, weights, loop, replicas, stops>>

-----------------------------------------------------------------------------
(* Crashes and restarts: the disk stays, every process starts afresh.       *)

Running == pc \notin {"load", "failed", "down", "ended"}

Crash ==
    /\ Running /\ stops < MaxStops
    /\ stops' = stops + 1
    /\ pc' = "down"
    /\ UNCHANGED <<disk, progress, kept, weights, loop, replicas>>

\* The job is started again after a crash, or after a load that raised.
Restart ==
    /\ pc \in {"down", "failed"}
    /\ Fresh
    /\ UNCHANGED <<disk, stops>>

\* The same job is started again after it returned.
Rerun ==
    /\ pc = "ended" /\ stops < MaxStops
    /\ stops' = stops + 1
    /\ Fresh
    /\ UNCHANGED disk

Load == LoadRaises \/ LoadScratch \/ LoadCheckpoint

TrainingLoop ==
    \/ PushInitial \/ ValidateInitial
    \/ NextBatch \/ NextEpoch \/ EndOfData
    \/ Generate \/ Train \/ Sync \/ Validate

SaveCheckpoint ==
    \/ EnsureCapacity \/ Register
    \/ \E rank \in Ranks : OpenShard(rank) \/ CloseShard(rank)
    \/ OpenData \/ CloseData \/ OpenTracker \/ CloseTracker

Fit == Load \/ TrainingLoop \/ SaveCheckpoint

Next == Fit \/ Crash \/ Restart \/ Rerun

Spec == Init /\ [][Next]_vars

\* The processes run, and whoever started the job starts it again when it dies.
FairSpec == Spec /\ WF_vars(Fit) /\ WF_vars(Restart)

-----------------------------------------------------------------------------
(* What the trainer promises.                                               *)

\* What a role has learned after step n: every batch in the order of the data
\* loader, one per step, the actor from the end of the critic's warm-up on.
BatchOf(n) == ((n - 1) % StepsPerEpoch) + 1

Weights(role, n) ==
    {<<s, BatchOf(s)>> : s \in {k \in 1..n : role = "actor" => k >= CriticWarmup}}

Trainings == Steps \X (1..StepsPerEpoch)

Shards == [state : {"absent", "torn", "whole"}, of : SUBSET Trainings]

\* The driver is inside _save_checkpoint.
Saving == {"save", "write", "data", "close_data", "tracker", "close_tracker"}

\* Every file has a state, and the driver, the data loader and the tracker
\* stay in their ranges.
TypeOK ==
    /\ shards \in [Steps -> [RoleNames -> [Ranks -> Shards]]]
    /\ data \in [Steps -> {None, Torn} \cup (1..StepsPerEpoch)]
    /\ tracker \in {None, Torn} \cup Steps
    /\ pc \in {"load", "failed", "down", "ended", "push", "validate0", "next",
               "generate", "train", "sync", "validate"} \cup Saving
    /\ saving \in 1..Len(Roles)
    /\ written \in [Ranks -> {"no", "open", "done"}]
    /\ kept \in [RoleNames -> Seq(Steps)]
    /\ weights \in [RoleNames -> [Ranks -> SUBSET Trainings]]
    /\ step \in 0..(StepsPerEpoch * Epochs + 1)
    /\ total \in Totals
    /\ epoch \in 0..Epochs /\ pos \in 0..StepsPerEpoch
    /\ served \in [Ranks -> SUBSET Trainings]
    /\ awake \in BOOLEAN /\ stops \in 0..MaxStops

\* The shards of a role at step n are all there, and all of that step.
Complete(role, n) ==
    \A rank \in Ranks : shards[n][role][rank] = Whole(Weights(role, n))

\* ray_trainer.py:1008-1041, checkpoint_manager.py:144-172. A tracker that
\* names a step names a checkpoint that is complete on every rank and for
\* every role, with the position of the data loader, in spite of crashes in
\* the middle of this save or of an earlier one into the same folder. The one
\* exception is a role that keeps a single checkpoint: its tracked one is
\* removed as soon as its next one is registered, so a newer one is whole.
TrackedComplete ==
    tracker \in Steps =>
    /\ data[tracker] = BatchOf(tracker)
    /\ \A r \in RoleNames :
          \/ Complete(r, tracker)
          \/ Keep[r] = 1 /\ \E n \in Steps : n > tracker /\ Complete(r, n)

\* ray_trainer.py:1093-1108, 1417-1419. Across crashes and restarts, at any
\* point of the epoch, no batch is trained twice and none is skipped: on every
\* rank the weights are those of the steps so far, and so is the data loader.
InStep ==
    pc \in {"generate", "train", "sync", "validate"} \cup Saving =>
    /\ step = epoch * StepsPerEpoch + pos
    /\ \A r \in RoleNames, rank \in Ranks :
          weights[r][rank] =
             Weights(r, IF pc \in {"generate", "train"} THEN step - 1 ELSE step)

\* ray_trainer.py:1387, 1470-1471, 1640-1675. The replicas that roll a batch
\* out or validate are awake and serve the actor as it was last trained, also
\* on the warm-up steps that train only the critic, and they are asleep while
\* the trainer needs their memory.
OnPolicy ==
    /\ pc \in {"validate0", "next", "generate", "validate"} =>
          awake /\ served = weights["actor"]
    /\ pc \in {"train"} \cup Saving => ~awake

\* A step that is saved whatever the machine's capacity: a multiple of
\* save_freq or a last step, unless it warms up the critic.
Due(n) ==
    /\ SaveFreq > 0 /\ n >= CriticWarmup
    /\ n % SaveFreq = 0 \/ n >= total

\* ray_trainer.py:440-443, 1464, 1661-1672, 1755-1770. A run that returned has
\* trained to its last step or, when total_training_steps is more than that,
\* every batch of every epoch; what it trained last is there to be deployed
\* when it was due to be saved, and so is otherwise nothing older than the last
\* step that was: a run without a last step loses less than save_freq steps.
EndsTrained ==
    pc = "ended" =>
    /\ step > total \/ step > StepsPerEpoch * Epochs
    /\ \A r \in RoleNames, rank \in Ranks : weights[r][rank] = Weights(r, step - 1)
    /\ \A n \in 1..(step - 1) : Due(n) =>
          tracker >= n /\ \A r \in RoleNames : Complete(r, tracker)

\* A tracker torn by a crash, or one whose checkpoint a role that keeps one
\* has removed: every restart raises.
Unresumable ==
    \/ tracker = Torn
    \/ tracker \in Steps /\ \E r \in RoleNames : Keep[r] = 1 /\ ~Complete(r, tracker)

\* ray_trainer.py:1043-1108. Started again whenever it dies, the training
\* ends, unless a crash hit one of the two windows in which the disk holds no
\* checkpoint that the tracker names.
Completes == <>[](pc = "ended" \/ Unresumable)

-----------------------------------------------------------------------------
(* The abstract specification: files, ranks and roles are one saved policy.  *)

Up == pc \notin {"load", "failed", "down", "ended"}

Anyone == CHOOSE rank \in Ranks : TRUE

policy == IF Up THEN {[r \in RoleNames |-> weights[r][Anyone]]} ELSE {}

\* What a restart would load now, if it would load anything.
saved ==
    IF tracker = None THEN {[r \in RoleNames |-> {}]}
    ELSE IF tracker = Torn \/ ~ShardsReadable(tracker) THEN {}
    ELSE {[r \in RoleNames |-> shards[tracker][r][Anyone].of]}

Progressed == INSTANCE SavedProgress WITH Roles <- RoleNames

\* ray_trainer.py:974-1108. A restart resumes exactly the policy in training
\* when the tracker was last written, for actor and critic together, and
\* between two records that saved policy is never another one.
ResumesSaved == Progressed!Spec
=============================================================================
