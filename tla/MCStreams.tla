----------------------------- MODULE MCStreams -----------------------------
(* Streams with values for TLC. *)
EXTENDS Streams, TLC

CONSTANTS c1, c2    \* model values

Symmetry == Permutations(Client)
=============================================================================
