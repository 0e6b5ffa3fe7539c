------------------------------- MODULE MCChild -------------------------------
(* Child with values for TLC. *)
EXTENDS Child

CONSTANTS r1    \* a polling client
=============================================================================
