----------------------------- MODULE MCReentry -----------------------------
(***************************************************************************)
(* The instance of StatsdReentry for TLC, with configurations of MCSession *)
(* that have the module on.                                                *)
(***************************************************************************)
EXTENDS MCSession, StatsdReentry
=============================================================================
