-------------------------- MODULE MCCollectorPush --------------------------
(* A small instance of CollectorPush for TLC; its constants are numbers. *)
EXTENDS CollectorPush
=============================================================================
