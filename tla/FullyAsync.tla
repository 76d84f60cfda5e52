------------------------------ MODULE FullyAsync ------------------------------
(***************************************************************************)
(* The fully asynchronous policy: a Rollouter that streams samples into a  *)
(* bounded MessageQueue and a Trainer that takes batches out, updates the  *)
(* policy and, every few updates, pushes the weights and resets the        *)
(* Rollouter's staleness counter (verl/experimental/fully_async_policy).   *)
(*                                                                         *)
(* The Rollouter's coroutines run on one event loop and interleave only at *)
(* their awaits: an action is what a coroutine does from one await that    *)
(* yields to the next. The asyncio lock yields only when it is taken. A    *)
(* sample in the queue is the version of the weights under which its       *)
(* generation ended, with the version served when it was put. The feeder   *)
(* is the counter of samples popped: it keeps the pending queue filled     *)
(* whenever the processor yields.                                          *)
(***************************************************************************)
EXTENDS Integers, Sequences, FiniteSets

CONSTANTS
    Required,       \* required_samples: samples of one local update
    Trigger,        \* trigger_parameter_sync_step: updates per weight push
    MaxRequired,    \* int(Required * (1 + staleness_threshold) * Trigger)
    MaxConcurrent,  \* max_concurrent_samples
    Total,          \* total_rollout_steps: samples the feeder provides
    SaveFreq,       \* trainer.save_freq, 0 when checkpoints are off
    TestFreq,       \* trainer.test_freq
    MayFail         \* a generation may raise

ASSUME ParametersAssumption ==
    /\ Required \in Nat \ {0} /\ Trigger \in Nat \ {0}
    /\ MaxRequired \in Nat /\ MaxRequired >= Required * Trigger
    /\ MaxConcurrent \in 1..MaxRequired
    /\ Total \in Nat /\ SaveFreq \in Nat /\ TestFreq \in Nat \ {0}
    /\ MayFail \in BOOLEAN

VARIABLES
    queue,      \* MessageQueue.queue: samples, None at the end
    dropped,    \* dropped_samples
    proc,       \* where _processor_worker is
    queueFull,  \* _should_pause_generation's answer on the queue, once read
    popped,     \* samples taken from pending_queue
    working,    \* active tasks that are generating
    ready,      \* versions of the samples generated and not yet put, oldest first
    finished,   \* tasks that put it and are still in active_tasks
    raised,     \* tasks that raised and are still in active_tasks
    lost,       \* history: samples lost with a generation that raised
    staleness,  \* staleness_samples
    paused,     \* paused; _resume_event is its negation
    lock,       \* who has the Rollouter's lock when the coroutines change
    counted,    \* len(active_tasks) as reset_staleness read it
    monitor,    \* where _async_monitor_loop is
    train,      \* where the Trainer's fit is
    stopping,   \* the termination signal was received
    batch,      \* samples collected for the current update
    local,      \* local_trigger_step
    version,    \* current_param_version
    weights,    \* version the replicas serve
    updates,    \* history: local updates made
    synced,     \* history: local updates the replicas' weights contain
    saved,      \* history: local updates the last checkpoint contains
    lastSaved   \* last_ckpt_version

sampleQueue == <<queue, dropped>>
tasks == <<working, ready, finished, raised, lost>>
control == <<staleness, paused, lock, counted>>
processor == <<proc, queueFull, popped>>
policy == <<local, version, weights, updates, synced, saved, lastSaved>>
trainer == <<train, stopping, batch, policy>>
vars == <<sampleQueue, processor, tasks, control, monitor, trainer>>

-----------------------------------------------------------------------------
\* A sample of the version its generation ended under, put at another one.
Sample(made, put) == [made |-> made, put |-> put]

None == Sample(-1, -1)     \* the termination signal in the queue

Queued == {i \in 1..Len(queue) : queue[i] # None}
Samples == Cardinality(Queued)
Producing == working + Len(ready)
InHand == IF proc = "submit" THEN 1 ELSE 0
Active == Producing + finished + raised
Ended == proc = "done"

\* put_sample: a full deque loses its oldest entry.
Put(x) ==
    IF Len(queue) >= MaxRequired
      THEN queue' = Append(Tail(queue), x) /\ dropped' = dropped + 1
      ELSE queue' = Append(queue, x) /\ UNCHANGED dropped

-----------------------------------------------------------------------------
Init ==
    /\ queue = <<>> /\ dropped = 0
    /\ proc = "check" /\ queueFull = FALSE /\ popped = 0
    /\ working = 0 /\ ready = <<>> /\ finished = 0 /\ raised = 0 /\ lost = 0
    /\ staleness = 0 /\ paused = FALSE /\ lock = "free" /\ counted = 0
    /\ monitor = "idle"
    /\ train = "collect" /\ stopping = FALSE /\ batch = 0
    /\ local = 1 /\ version = 0 /\ weights = 0
    /\ updates = 0 /\ synced = 0 /\ saved = 0 /\ lastSaved = 0

\* _should_pause_generation asks the queue for its size ...
CheckQueue ==
    /\ proc = "check"
    /\ queueFull' = (Len(queue) >= MaxRequired)
    /\ proc' = "decide"
    /\ UNCHANGED <<sampleQueue, popped, tasks, control, monitor, trainer>>

\* Mutant: only a full queue makes the processor pause.
MustPauseWhenFull == queueFull

MustPause == queueFull \/ staleness >= MaxRequired

\* ... and decides, with the staleness of now, when the answer is there. The
\* lock is taken to pause: at once, or, if a reset has it, when that has ended.
Pause ==
    /\ proc = "decide" /\ MustPause
    /\ IF lock = "free"
         THEN paused' = TRUE /\ proc' = "drain"
         ELSE proc' = "pausing" /\ UNCHANGED paused
    /\ UNCHANGED <<sampleQueue, queueFull, popped, tasks, staleness, lock, counted,
                   monitor, trainer>>

\* It pauses then, although the reset may have removed the reason.
PauseLate ==
    /\ proc = "pausing" /\ lock = "free"
    /\ paused' = TRUE
    /\ proc' = "drain"
    /\ UNCHANGED <<sampleQueue, queueFull, popped, tasks, staleness, lock, counted,
                   monitor, trainer>>

\* The drain loop discards tasks that are done, until it sees that it is resumed,
\* and with that the ones that were done by then.
DrainReap ==
    /\ proc = "drain" /\ lock = "free"
    /\ \E k \in 1..finished : finished' = finished - k
    /\ UNCHANGED <<sampleQueue, processor, working, ready, raised, lost, control,
                   monitor, trainer>>

Resumed ==
    /\ proc = "drain" /\ ~paused
    /\ proc' = "check"
    /\ UNCHANGED <<sampleQueue, queueFull, popped, tasks, control, monitor, trainer>>

\* The next sample, or the feeder's end signal; both count as stale, and the
\* counter is incremented without the lock. What follows needs the lock: the
\* processor goes on with it, unless a reset has it.
Take ==
    /\ proc = "decide" /\ ~MustPause
    /\ staleness' = staleness + 1
    /\ IF popped < Total
         THEN popped' = popped + 1 /\ proc' = "submit"
         ELSE UNCHANGED popped /\ proc' = "ending"
    /\ lock' = IF lock = "free" THEN "processor" ELSE lock
    /\ UNCHANGED <<sampleQueue, queueFull, tasks, paused, counted, monitor, trainer>>

Locks ==
    /\ proc \in {"submit", "ending"} /\ lock = "free"
    /\ lock' = "processor"
    /\ UNCHANGED <<sampleQueue, processor, tasks, staleness, paused, counted,
                   monitor, trainer>>

\* With max_concurrent_samples tasks, or at the end with any, the processor
\* waits until some are done, and keeps the lock while it waits. A reset that
\* asked for the lock meanwhile has it next.
WaitReap ==
    /\ lock = "processor" /\ raised = 0
    /\ proc = "submit" => Active >= MaxConcurrent
    /\ \E k \in 1..finished : finished' = finished - k
    /\ \/ UNCHANGED lock
       \/ train = "reset" /\ lock' = "free"
    /\ UNCHANGED <<sampleQueue, processor, working, ready, raised, lost, staleness,
                   paused, counted, monitor, trainer>>

\* A task that raised makes the processor raise when it is awaited: the lock is
\* released on the way out, and the sample in hand is gone.
ReapRaises ==
    /\ raised > 0
    /\ \/ proc = "drain" /\ lock = "free"
       \/ proc = "submit" /\ lock = "processor" /\ Active >= MaxConcurrent
       \/ proc = "ending" /\ lock = "processor"
    /\ raised' = raised - 1
    /\ lock' = "free"
    /\ proc' = "failed"
    /\ lost' = lost + InHand
    /\ UNCHANGED <<sampleQueue, queueFull, popped, working, ready, finished, staleness,
                   paused, counted, monitor, trainer>>

Submit ==
    /\ proc = "submit" /\ Active < MaxConcurrent /\ lock = "processor"
    /\ working' = working + 1
    /\ lock' = "free"
    /\ proc' = "check"
    /\ UNCHANGED <<sampleQueue, queueFull, popped, ready, finished, raised, lost,
                   staleness, paused, counted, monitor, trainer>>

\* _process_single_sample_streaming: the generation ends under the weights of
\* now. The task then awaits the queue's statistics and after that the put ...
TaskEnds ==
    /\ working > 0
    /\ working' = working - 1
    /\ ready' = Append(ready, weights)
    /\ UNCHANGED <<sampleQueue, processor, finished, raised, lost, control, monitor,
                   trainer>>

Without(s, i) == SubSeq(s, 1, i - 1) \o SubSeq(s, i + 1, Len(s))

\* ... which reaches the queue in any order of the tasks, and under any weights;
\* the task stays in active_tasks until the processor discards it.
TaskPuts ==
    /\ \E i \in 1..Len(ready) :
          /\ ready' = Without(ready, i)
          /\ Put(Sample(ready[i], weights))
    /\ finished' = finished + 1
    /\ UNCHANGED <<processor, working, raised, lost, control, monitor, trainer>>

TaskRaises ==
    /\ MayFail /\ working > 0
    /\ working' = working - 1
    /\ raised' = raised + 1
    /\ lost' = lost + 1
    /\ UNCHANGED <<sampleQueue, processor, ready, finished, control, monitor, trainer>>

\* Mutant: the end signal does not wait for the generations that are running.
FinishEarly ==
    /\ proc \in {"ending", "failed"}
    /\ proc' = "done"
    /\ lock' = IF lock = "processor" THEN "free" ELSE lock
    /\ Put(None)
    /\ UNCHANGED <<queueFull, popped, tasks, staleness, paused, counted, monitor,
                   trainer>>

\* _streaming_generation_main's finally clause: the termination signal is put
\* once the processor has ended, drained or failed.
Finish ==
    /\ \/ proc = "ending" /\ Active = 0
       \/ proc = "failed"
    /\ proc' = "done"
    /\ lock' = IF lock = "processor" THEN "free" ELSE lock
    /\ Put(None)
    /\ UNCHANGED <<queueFull, popped, tasks, staleness, paused, counted, monitor,
                   trainer>>

\* Every ten seconds, while paused, the monitor asks the queue for its size ...
MonitorAsks ==
    /\ monitor = "idle" /\ paused /\ ~Ended
    /\ Len(queue) < MaxRequired
    /\ monitor' = "decide"
    /\ UNCHANGED <<sampleQueue, processor, tasks, control, trainer>>

\* Mutant: the monitor resumes only when nothing at all is stale.
MonitorDecidesFresh ==
    /\ monitor = "decide"
    /\ monitor' = "idle"
    /\ IF staleness = 0 /\ lock = "free" THEN paused' = FALSE ELSE UNCHANGED paused
    /\ UNCHANGED <<sampleQueue, processor, tasks, staleness, lock, counted, trainer>>

\* ... and resumes if the staleness is low: at once, or when a reset or the
\* processor has released the lock, and then without looking again.
MonitorDecides ==
    /\ monitor = "decide"
    /\ IF staleness < MaxRequired /\ lock = "free"
         THEN paused' = FALSE /\ monitor' = "idle"
         ELSE /\ monitor' = IF staleness < MaxRequired THEN "resume" ELSE "idle"
              /\ UNCHANGED paused
    /\ UNCHANGED <<sampleQueue, processor, tasks, staleness, lock, counted, trainer>>

MonitorResumes ==
    /\ monitor = "resume" /\ lock = "free"
    /\ paused' = FALSE
    /\ monitor' = "idle"
    /\ UNCHANGED <<sampleQueue, processor, tasks, staleness, lock, counted, trainer>>

-----------------------------------------------------------------------------
\* Mutant: the newest entry is taken.
CollectNewest ==
    /\ train = "collect" /\ batch < Required /\ queue # <<>>
    /\ queue' = SubSeq(queue, 1, Len(queue) - 1)
    /\ IF queue[Len(queue)] = None
         THEN train' = "final" /\ stopping' = TRUE /\ UNCHANGED batch
         ELSE batch' = batch + 1 /\ UNCHANGED <<train, stopping>>
    /\ UNCHANGED <<dropped, processor, tasks, control, monitor, policy>>

\* _get_samples_from_queue takes one entry. The signal discards the batch.
Collect ==
    /\ train = "collect" /\ batch < Required /\ queue # <<>>
    /\ queue' = Tail(queue)
    /\ IF Head(queue) = None
         THEN train' = "final" /\ stopping' = TRUE /\ UNCHANGED batch
         ELSE batch' = batch + 1 /\ UNCHANGED <<train, stopping>>
    /\ UNCHANGED <<dropped, processor, tasks, control, monitor, policy>>

\* One local update, then _fit_update_local_step.
Update ==
    /\ train = "collect" /\ batch = Required
    /\ batch' = 0
    /\ updates' = updates + 1
    /\ IF local < Trigger
         THEN local' = local + 1 /\ UNCHANGED version
         ELSE local' = 1 /\ version' = version + 1
    /\ train' = "sync"
    /\ UNCHANGED <<sampleQueue, processor, tasks, control, monitor, stopping,
                   weights, synced, saved, lastSaved>>

\* _fit_update_weights returns in the middle of a trigger period; otherwise it
\* pushes the weights and then calls reset_staleness.
UpdateWeights ==
    /\ train = "sync"
    /\ IF local # 1
         THEN train' = "save" /\ UNCHANGED <<weights, synced>>
         ELSE train' = "reset" /\ weights' = version /\ synced' = updates
    /\ UNCHANGED <<sampleQueue, processor, tasks, control, monitor, stopping, batch,
                   local, version, updates, saved, lastSaved>>

\* reset_staleness resumes the rollouter and reads len(active_tasks) ...
ResetBegins ==
    /\ train = "reset" /\ lock = "free"
    /\ lock' = "reset"
    /\ paused' = FALSE
    /\ counted' = Active
    /\ train' = "resetting"
    /\ UNCHANGED <<sampleQueue, processor, tasks, staleness, monitor, stopping, batch,
                   policy>>

\* Mutant: the counter is added to, not reset.
ResetAdds ==
    /\ train = "resetting"
    /\ staleness' = staleness + counted + Len(queue)
    /\ lock' = "free"
    /\ train' = "save"
    /\ UNCHANGED <<sampleQueue, processor, tasks, paused, counted, monitor, stopping,
                   batch, policy>>

\* ... and adds the queue's size when that call has returned.
ResetEnds ==
    /\ train = "resetting"
    /\ staleness' = counted + Len(queue)
    /\ lock' = "free"
    /\ train' = "save"
    /\ UNCHANGED <<sampleQueue, processor, tasks, paused, counted, monitor, stopping,
                   batch, policy>>

\* _fit_save_checkpoint, forced when training stops.
Save ==
    /\ train = "save"
    /\ IF /\ version # lastSaved
          /\ SaveFreq > 0
          /\ stopping \/ version % SaveFreq = 0
         THEN saved' = updates /\ lastSaved' = version
         ELSE UNCHANGED <<saved, lastSaved>>
    /\ train' = IF stopping THEN "stopped" ELSE "collect"
    /\ UNCHANGED <<sampleQueue, processor, tasks, control, monitor, stopping, batch,
                   local, version, weights, updates, synced>>

\* The end of fit: what is left to push and to validate is pushed.
Final ==
    /\ train = "final"
    /\ train' = IF version % TestFreq # 0 \/ local > 1 THEN "sync" ELSE "save"
    /\ UNCHANGED <<sampleQueue, processor, tasks, control, monitor, stopping, batch,
                   policy>>

-----------------------------------------------------------------------------
Processor ==
    \/ CheckQueue \/ Pause \/ PauseLate \/ DrainReap \/ Resumed \/ Take
    \/ Locks \/ WaitReap \/ ReapRaises \/ Submit \/ Finish

Monitor == MonitorAsks \/ MonitorDecides \/ MonitorResumes

Trainer ==
    \/ Collect \/ Update \/ UpdateWeights \/ ResetBegins \/ ResetEnds
    \/ Save \/ Final

Next == Processor \/ TaskEnds \/ TaskPuts \/ TaskRaises \/ Monitor \/ Trainer

\* Each coroutine and each generation goes on; the asyncio lock serves its
\* waiters in order, so that nobody waits for it forever. A generation need
\* not raise.
Fairness ==
    /\ WF_vars(Processor) /\ SF_vars(PauseLate) /\ SF_vars(Locks)
    /\ WF_vars(TaskEnds) /\ WF_vars(TaskPuts)
    /\ SF_vars(MonitorAsks) /\ WF_vars(MonitorDecides) /\ SF_vars(MonitorResumes)
    /\ WF_vars(Trainer) /\ SF_vars(ResetBegins)

Spec == Init /\ [][Next]_vars
FairSpec == Spec /\ Fairness

-----------------------------------------------------------------------------
\* Samples popped for training and not yet taken by the Trainer.
Outstanding == Samples + Producing + InHand

\* Types; the deque never exceeds its length, and the lock has its owner.
TypeOK ==
    /\ queue \in Seq([made : Nat, put : Nat] \cup {None}) /\ Len(queue) <= MaxRequired
    /\ dropped \in Nat
    /\ proc \in {"check", "decide", "pausing", "drain", "submit", "ending", "failed",
                 "done"}
    /\ queueFull \in BOOLEAN /\ paused \in BOOLEAN /\ stopping \in BOOLEAN
    /\ popped \in 0..Total
    /\ working \in Nat /\ ready \in Seq(Nat) /\ finished \in Nat /\ raised \in Nat /\ lost \in Nat
    /\ Active <= MaxConcurrent
    /\ staleness \in Nat /\ counted \in Nat
    /\ lock \in {"free", "processor", "reset"}
    /\ lock = "processor" => proc \in {"submit", "ending"}
    /\ lock = "reset" <=> train = "resetting"
    /\ monitor \in {"idle", "decide", "resume"}
    /\ train \in {"collect", "sync", "reset", "resetting", "save", "final", "stopped"}
    /\ batch \in 0..Required /\ local \in 1..Trigger
    /\ version \in Nat /\ weights \in 0..version /\ lastSaved \in 0..version
    /\ updates \in Nat /\ synced \in 0..updates /\ saved \in 0..updates

\* The freshness control, as strong as the code enforces it: one sample more
\* than max_required_samples, because a reset may overwrite the increment of
\* the sample the processor has in its hands.
OutstandingBounded == Outstanding <= MaxRequired + 1

\* Every sample popped is somewhere: in hand, generating, queued, trained on,
\* dropped by a full queue, or lost with a generation that raised; a Trainer
\* that stops after a run in which none did has left nothing behind but a batch
\* too small to train on. The termination signal itself is never dropped.
SamplesAccounted ==
    /\ popped = Outstanding + Required * updates + batch + dropped + lost
    /\ train = "stopped" /\ lost = 0 =>
          popped = Total /\ Outstanding = 0 /\ batch < Required

\* The Trainer waits for samples, and the Rollouter waits for the Trainer to
\* push weights: nothing but a reset could resume it.
Starved ==
    /\ train = "collect" /\ batch < Required /\ queue = <<>>
    /\ proc = "drain" /\ paused /\ Active = 0 /\ staleness >= MaxRequired

\* The two never wait for each other, provided the tasks that are finished but
\* not yet discarded, which a reset counts again, fit into what the staleness
\* threshold allows on top of a trigger period. (Without the proviso, at
\* staleness_threshold = 0, they do when the processor learns of the last
\* samples' end only after the reset.)
NeverStarved ==
    MaxConcurrent <= MaxRequired - Required * Trigger => ~Starved

\* FIFO order and the queue's limit bound how long a sample waits for training:
\* one version may be due at once, and each further one takes a whole period's
\* samples, all from in front of it.
Wait == 1 + (MaxRequired - 1) \div (Required * Trigger)

\* No queued sample was put under weights more than this many versions old. One
\* whose generation ended earlier than that can only be of a task that was held
\* up before its put, for which the code knows no limit, while others went on;
\* but at any time no more of them are queued than tasks run at once.
QueueIsFresh ==
    /\ \A i \in Queued : version - queue[i].put <= Wait
    /\ Cardinality({i \in Queued : version - queue[i].made > Wait}) <= MaxConcurrent

\* The checkpoint comment's second condition, "it's the last training step":
\* a Trainer that stops with checkpoints on has saved all its updates.
LastUpdatesSaved == train = "stopped" /\ SaveFreq > 0 => saved = updates

\* Training ends: the Rollouter delivers its termination signal and the
\* Trainer stops, whatever pauses and resumes happened before.
Terminates == <>[](Ended /\ train = "stopped")
=============================================================================
