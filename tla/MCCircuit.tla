----------------------------- MODULE MCCircuit -----------------------------
(* Circuit with values for TLC. *)
EXTENDS Circuit

CONSTANTS g1, g2, g3, p1, p2    \* model values: guarded and peeking callers
=============================================================================
