------------------------------- MODULE MCBulk -------------------------------
(***************************************************************************)
(* The bulk execution for TLC: the ways the rows may be provided.          *)
(***************************************************************************)
EXTENDS Bulk

OnlySeq == {"seq"}
============================================================================
