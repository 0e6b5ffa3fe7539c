------------------------------ MODULE MCBackoff ------------------------------
(* Backoff with values for TLC. *)
EXTENDS Backoff

Bases == {1, 3, 13, 24, 30}
=============================================================================
