---------------------------- MODULE MCSyncTrainer ----------------------------
(***************************************************************************)
(* Two ranks with an actor that keeps two checkpoints and a critic that    *)
(* keeps one, two epochs of three batches, and a warm-up step that trains  *)
(* only the critic. A start is to train five steps, which leaves the last  *)
(* batch for a rerun, or seven, one more than there are batches.           *)
(***************************************************************************)
EXTENDS SyncTrainer

MCRoles == <<"actor", "critic">>
MCKeep == [r \in {"actor", "critic"} |-> IF r = "actor" THEN 2 ELSE 1]
=============================================================================
