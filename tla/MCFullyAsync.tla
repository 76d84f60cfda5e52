----------------------------- MODULE MCFullyAsync -----------------------------
(***************************************************************************)
(* Small instances of the fully asynchronous policy. The constants are     *)
(* given in the .cfg files.                                                *)
(***************************************************************************)
EXTENDS FullyAsync
=============================================================================
