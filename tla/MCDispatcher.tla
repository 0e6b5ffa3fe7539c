---------------------------- MODULE MCDispatcher ----------------------------
(* Dispatcher with values for TLC: the small sets are given in the .cfg     *)
(* files, the functions and sets of sets by the definitions below.          *)
EXTENDS Dispatcher, TLC

CONSTANTS h1, h2, v1, k1, b1, b2    \* model values

(* One retry for every verb; a verb that sets retries: 0. *)
OneRetry  == [v \in Verb |-> 1]
NoRetries == [v \in Verb |-> 0]

(* The catalog never changes; it may lose and regain verbs at each boot. *)
FullCatalog == {Verb}
AnyCatalog  == SUBSET Verb

(* Rows claimed in the order they were inserted, or the other way round. *)
InOrder  == [t \in 1 .. MaxTasks |-> t]
Backward == [t \in 1 .. MaxTasks |-> MaxTasks - t]

(* Handlers are interchangeable: no safety property names one. *)
Symmetry == Permutations(Handler)
=============================================================================
