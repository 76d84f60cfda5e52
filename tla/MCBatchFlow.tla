----------------------------- MODULE MCBatchFlow ----------------------------
(***************************************************************************)
(* Three workers and two ranks. The batches: six rows of one kind, four    *)
(* rows and their baselines, a validation batch that is padded more than   *)
(* once, one that fits, and one of each size that is refused.              *)
(***************************************************************************)
EXTENDS BatchFlow

MCBatches ==
    {[kind |-> "train", prompts |-> 2, n |-> 3],
     [kind |-> "remax", prompts |-> 2, n |-> 2],
     [kind |-> "validate", prompts |-> 1, n |-> 1],
     [kind |-> "validate", prompts |-> 2, n |-> 2],
     [kind |-> "train", prompts |-> 2, n |-> 2],
     [kind |-> "train", prompts |-> 3, n |-> 1]}
MCLengths == {1, 2, 4, 7}
=============================================================================
