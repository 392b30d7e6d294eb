----------------------------- MODULE MCRecovery -----------------------------
(***************************************************************************)
(* Recovery on the types and starts of MCVersioned.                        *)
(***************************************************************************)
EXTENDS MCVersioned, Recovery
=============================================================================
