--------------------------- MODULE MCUpdateRollout ---------------------------
(***************************************************************************)
(* UpdateRollout for TLC: three devices in batches of two, so that a batch *)
(* follows the canary and a canary can be skipped and replaced.            *)
(***************************************************************************)
EXTENDS UpdateRollout
=============================================================================
