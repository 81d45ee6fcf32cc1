--------------------------- MODULE MCSerialQueue ---------------------------
(* Small instances of SerialQueue for TLC. *)
EXTENDS SerialQueue
CONSTANTS d1, d2, t1, t2, t3
=============================================================================
