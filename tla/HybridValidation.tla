--------------------------- MODULE HybridValidation ---------------------------
(***************************************************************************)
(* The inference engines behind the load balancer, the client that resumes *)
(* aborted generations, and the trainer that stops the engines to push     *)
(* weights and, for trainer-side validation, lends them its own GPUs:      *)
(* hybrid replicas are woken, added to the pool, removed and put to sleep  *)
(* (fully_async_trainer.py, checkpoint_engine/base.py, vllm_async_server.py*)
(* and the client in fully_async_rollouter.py). The pool and its counts    *)
(* are those of LoadBalancer, which this module composes with the rest.    *)
(*                                                                         *)
(* vLLM 0.12 is the version pinned: a paused engine aborts what it runs    *)
(* and makes new calls wait. Responses are abstracted to the versions of   *)
(* the weights that computed their tokens.                                 *)
(***************************************************************************)
EXTENDS LoadBalancer, Integers

CONSTANTS
    Validation,   \* the requests of validation; the others are of training
    MaxVersion    \* bound: weight versions the trainer makes

ASSUME HybridAssumption ==
    /\ Standalone # Servers
    /\ Validation \subseteq Requests
    /\ MaxVersion \in Nat

VARIABLES
    pc,         \* the trainer: position in Steps
    done,       \* replicas that have answered the call gathered there
    version,    \* current_param_version
    asleep,     \* engines whose weights and kv cache are released
    paused,     \* engines between pause_generation and resume_generation
    served,     \* global_steps of each server: the version it was given last
    call,       \* of a conversation: its generation, as the client sees it
    made,       \* versions that computed the tokens of its response
    oldest,     \* min_global_steps of its response
    newest,     \* max_global_steps of its response
    late        \* history: calls on their way when their server was removed

engines == <<asleep, paused, served>>
response == <<made, oldest, newest>>
trainer == <<pc, done, version>>
hvars == <<vars, trainer, engines, call, response, late>>

-----------------------------------------------------------------------------
None == -1    \* no label yet; also the version of tokens computed asleep
Hybrid == Servers \ Standalone

\* Mutant: weights are pushed to engines that run, and nothing is validated.
StepsPushRunning ==
    << [op |-> "train",  on |-> {}],
       [op |-> "push",   on |-> Standalone],
       [op |-> "resume", on |-> Standalone] >>

\* What the trainer does between two versions: update_weights of the manager of
\* the standalone replicas, then, if it validates, _trainer_side_validate. A
\* step is one call, and the replicas its answers are gathered from.
Steps ==
    << [op |-> "train",    on |-> {}],
       [op |-> "abort",    on |-> Standalone],
       [op |-> "push",     on |-> Standalone],
       [op |-> "resume",   on |-> Standalone],
       [op |-> "wake",     on |-> Hybrid],
       [op |-> "abort",    on |-> Standalone],
       [op |-> "abort",    on |-> Hybrid],
       [op |-> "add",      on |-> {}],
       [op |-> "resume",   on |-> Standalone],
       [op |-> "resume",   on |-> Hybrid],
       [op |-> "validate", on |-> {}],
       [op |-> "abort",    on |-> Standalone],
       [op |-> "abort",    on |-> Hybrid],
       [op |-> "remove",   on |-> {}],
       [op |-> "sleep",    on |-> Hybrid],
       [op |-> "resume",   on |-> Standalone],
       [op |-> "resume",   on |-> Hybrid] >>

Does(op) == Steps[pc].op = op
Following == IF pc = Len(Steps) THEN 1 ELSE pc + 1

\* A replica answers the call under way.
Answers(s) ==
    /\ s \in Steps[pc].on \ done
    /\ done' = done \cup {s}
    /\ UNCHANGED <<pc, version>>

\* The version a token computed on s now is of.
Weights(s) == IF s \in asleep THEN None ELSE served[s]

HInit ==
    /\ Init
    /\ pc = 1 /\ done = {} /\ version = 0
    /\ asleep = Hybrid /\ paused = {}
    /\ served = [s \in Servers |-> 0]
    /\ call = [r \in Requests |-> "none"]
    /\ made = [r \in Requests |-> {}]
    /\ oldest = [r \in Requests |-> None]
    /\ newest = [r \in Requests |-> None]
    /\ late = {}

-----------------------------------------------------------------------------
\* A turn of FullyAsyncLLMServerClient's loop begins: it acquires a server and
\* calls it. A turn after an abort continues the response, any other one starts
\* a new one. Validation generates only while the trainer awaits it.
Ask(r, s) ==
    /\ Acquire(r, s)
    /\ r \in Validation => Does("validate")
    /\ call' = [call EXCEPT ![r] = "sent"]
    /\ IF call[r] = "aborted"
         THEN UNCHANGED <<response, late>>
         ELSE /\ made' = [made EXCEPT ![r] = {}]
              /\ oldest' = [oldest EXCEPT ![r] = None]
              /\ newest' = [newest EXCEPT ![r] = None]
              /\ late' = late \ {r}
    /\ UNCHANGED <<trainer, engines>>

\* The server's generate hands the prompt to the engine, which makes it wait as
\* long as it is paused; whether it sleeps is not asked.
Start(r) ==
    /\ call[r] = "sent" /\ at[r] \notin paused
    /\ call' = [call EXCEPT ![r] = "running"]
    /\ UNCHANGED <<vars, trainer, engines, response, late>>

Produce(r) ==
    /\ call[r] \in {"running", "producing"}
    /\ call' = [call EXCEPT ![r] = "producing"]
    /\ made' = [made EXCEPT ![r] = @ \cup {Weights(at[r])}]
    /\ UNCHANGED <<vars, trainer, engines, oldest, newest, late>>

\* The client merges a reply with the label v: the first label stays the oldest.
OldestWith(r, v) == IF oldest[r] = None THEN v ELSE oldest[r]

\* The last token: the reply is labelled with the server's version of now.
Complete(r) ==
    /\ call[r] = "producing"
    /\ Finish(r)
    /\ call' = [call EXCEPT ![r] = "completed"]
    /\ oldest' = [oldest EXCEPT ![r] = OldestWith(r, served[at[r]])]
    /\ newest' = [newest EXCEPT ![r] = served[at[r]]]
    /\ UNCHANGED <<trainer, engines, made, late>>

\* generate raises: the finally clause releases the server.
Fail(r) ==
    /\ call[r] \in {"sent", "running", "producing"}
    /\ Finish(r)
    /\ call' = [call EXCEPT ![r] = "failed"]
    /\ UNCHANGED <<trainer, engines, response, late>>

\* The client has the reply of an aborted call, releases and goes on.
MergeAborted(r) ==
    /\ call[r] = "aborting"
    /\ Finish(r)
    /\ call' = [call EXCEPT ![r] = "aborted"]
    /\ UNCHANGED <<trainer, engines, response, late>>

-----------------------------------------------------------------------------
\* The local updates of a period are over: a new version, to be pushed.
TrainStep ==
    /\ Does("train") /\ version < MaxVersion
    /\ version' = version + 1
    /\ pc' = Following
    /\ UNCHANGED <<vars, done, engines, call, response, late>>

\* abort_all_requests on a replica. The calls it runs leave the engine before it
\* answers, with what they have; with no token the reply may be empty, and has
\* then no label.
AbortReplica(s) ==
    /\ Does("abort") /\ Answers(s)
    /\ paused' = paused \cup {s}
    /\ \E empty \in SUBSET {r \in Requests : call[r] = "running" /\ at[r] = s} :
          LET stopped == {r \in Requests :
                             call[r] \in {"running", "producing"} /\ at[r] = s}
          IN  /\ call' = [r \in Requests |->
                             IF r \in stopped THEN "aborting" ELSE call[r]]
              /\ oldest' = [r \in Requests |->
                              IF r \in stopped \ empty
                                THEN OldestWith(r, served[s]) ELSE oldest[r]]
              /\ newest' = [r \in Requests |->
                              IF r \in stopped \ empty THEN served[s]
                              ELSE IF r \in empty THEN None ELSE newest[r]]
    /\ UNCHANGED <<vars, asleep, served, made, late>>

ResumeReplica(s) ==
    /\ Does("resume") /\ Answers(s)
    /\ paused' = paused \ {s}
    /\ UNCHANGED <<vars, asleep, served, call, response, late>>

\* The checkpoint engine's transfer to a standalone replica.
PushReplica(s) ==
    /\ Does("push") /\ Answers(s)
    /\ served' = [served EXCEPT ![s] = version]
    /\ UNCHANGED <<vars, asleep, paused, call, response, late>>

\* Mutant: the woken replica keeps the weights it went to sleep with.
WakeStale(s) ==
    /\ Does("wake") /\ Answers(s)
    /\ asleep' = asleep \ {s}
    /\ UNCHANGED <<vars, paused, served, call, response, late>>

\* update_weights with the naive backend: memory, the weights, their version.
WakeReplica(s) ==
    /\ Does("wake") /\ Answers(s)
    /\ asleep' = asleep \ {s}
    /\ served' = [served EXCEPT ![s] = version]
    /\ UNCHANGED <<vars, paused, call, response, late>>

SleepReplica(s) ==
    /\ Does("sleep") /\ Answers(s)
    /\ asleep' = asleep \cup {s}
    /\ UNCHANGED <<vars, paused, served, call, response, late>>

\* add_replicas and remove_replicas of the rollouter's server manager.
AddReplicas ==
    /\ Does("add")
    /\ AddServers(Hybrid)
    /\ pc' = Following
    /\ UNCHANGED <<done, version, engines, call, response, late>>

RemoveReplicas ==
    /\ Does("remove")
    /\ RemoveServers(Hybrid)
    /\ pc' = Following
    /\ late' = late \cup {r \in Requests : call[r] = "sent" /\ at[r] \in Hybrid}
    /\ UNCHANGED <<done, version, engines, call, response>>

\* do_validate returns when all the responses it asked for are there.
Validated ==
    /\ Does("validate")
    /\ \A r \in Validation : call[r] \notin {"sent", "running", "producing"}
    /\ pc' = Following
    /\ UNCHANGED <<vars, done, version, engines, call, response, late>>

\* All replicas have answered. After the push, training goes on unless this
\* version is to be validated.
Gathered ==
    /\ done # {} /\ done = Steps[pc].on
    /\ done' = {}
    /\ \/ pc' = Following
       \/ Steps[Following].op = "wake" /\ pc' = 1
    /\ UNCHANGED <<vars, version, engines, call, response, late>>

-----------------------------------------------------------------------------
Client(r) ==
    \/ Complete(r) \/ Fail(r) \/ MergeAborted(r)
    \/ Release(r) /\ UNCHANGED <<trainer, engines, call, response, late>>

Replica(s) ==
    \/ AbortReplica(s) \/ ResumeReplica(s) \/ PushReplica(s)
    \/ WakeReplica(s) \/ SleepReplica(s)

Trainer == TrainStep \/ AddReplicas \/ RemoveReplicas \/ Validated \/ Gathered

HNext ==
    \/ \E r \in Requests, s \in Servers : Ask(r, s)
    \/ \E r \in Requests : Start(r) \/ Produce(r) \/ Client(r)
    \/ \E s \in Servers : Replica(s)
    \/ Trainer

\* Calls that run end and are released, replicas answer, the trainer goes on;
\* nobody must ask for another generation.
HFairness ==
    /\ \A r \in Requests : WF_hvars(Start(r)) /\ WF_hvars(Produce(r))
                           /\ WF_hvars(Client(r))
    /\ \A s \in Servers : WF_hvars(Replica(s))
    /\ WF_hvars(Trainer)

HSpec == HInit /\ [][HNext]_hvars
HFairSpec == HSpec /\ HFairness

-----------------------------------------------------------------------------
\* What min_global_steps and max_global_steps say of a response is true of its
\* tokens, however often it was aborted and resumed: each was computed by a
\* version between them, and in validation by the one validated, which all
\* servers of the pool serve then. Only a call that was on its way to a hybrid
\* server when that was removed can have run on a sleeping engine.
VersionsTrue ==
    /\ \A r \in Requests : call[r] = "completed" =>
          /\ \A v \in made[r] \ {None} : oldest[r] <= v /\ v <= newest[r]
          /\ None \in made[r] => r \in late
          /\ r \in Validation => made[r] \subseteq {newest[r]}
    /\ Does("validate") => \A s \in active : served[s] = version
=============================================================================
