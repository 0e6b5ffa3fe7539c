------------------------------ MODULE MCStartup ------------------------------
(* Startup with values for TLC. *)
EXTENDS Startup

CONSTANTS s1, s2, p1, p2    \* two scripts, two daemons
=============================================================================
