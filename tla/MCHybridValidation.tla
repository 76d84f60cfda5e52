-------------------------- MODULE MCHybridValidation --------------------------
(***************************************************************************)
(* One standalone server and a hybrid one, a conversation of training and  *)
(* one of validation, and a cache for one of them, so that routes are      *)
(* evicted.                                                                *)
(***************************************************************************)
EXTENDS HybridValidation

CONSTANTS standalone, hybrid, t1, v1

MCServers == {standalone, hybrid}
MCStandalone == {standalone}
MCRequests == {t1, v1}
MCValidation == {v1}
=============================================================================
