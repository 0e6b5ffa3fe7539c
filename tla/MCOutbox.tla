------------------------------ MODULE MCOutbox ------------------------------
(* Outbox with values for TLC. *)
EXTENDS Outbox, TLC

CONSTANTS w, h     \* model values: the worker, and a handler

(* The worker takes two rows at a time, a handler one. *)
TwoForDaily == [d \in Drainer |-> IF d = Daily THEN 2 ELSE 1]

Symmetry == Permutations(Task)
=============================================================================
