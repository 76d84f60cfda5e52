---------------------------- MODULE SavedProgress ----------------------------
(***************************************************************************)
(* What checkpointing promises, without files, ranks or roles of writing:  *)
(* a policy that learns one batch at a time, and one saved policy that a   *)
(* restart resumes. Both are sets of at most one element: no policy means  *)
(* that the trainer is not running, no saved policy that what is on disk   *)
(* cannot be loaded.                                                       *)
(***************************************************************************)
CONSTANT Roles  \* the models that learn: the actor and, with one, the critic

VARIABLES
    policy,  \* for each role the batches its weights have learned
    saved    \* the policy that a restart resumes

Untrained == [r \in Roles |-> {}]

Init == policy = {} /\ saved = {Untrained}

\* Every role learns the same one batch, or keeps what it has.
Learned(old, new) ==
    /\ \A r \in Roles : old[r] \subseteq new[r]
    /\ LET gained == UNION {new[r] \ old[r] : r \in Roles}
       IN  \E batch \in gained : gained = {batch}

Learn ==
    /\ \E old \in policy, new \in policy' : Learned(old, new)
    /\ UNCHANGED saved

\* The policy in training becomes the one that a restart resumes.
Record ==
    /\ policy # {}
    /\ saved' = policy
    /\ UNCHANGED policy

\* Between two records the disk may hold no policy that can be loaded.
Erase ==
    /\ policy # {}
    /\ saved' = {}
    /\ UNCHANGED policy

Stop == policy' = {} /\ UNCHANGED saved

Resume ==
    /\ policy = {}
    /\ policy' = saved
    /\ UNCHANGED saved

Next == Learn \/ Record \/ Erase \/ Stop \/ Resume

Spec == Init /\ [][Next]_<<policy, saved>>
=============================================================================
