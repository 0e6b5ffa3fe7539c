---------------------------- MODULE TaskLifecycle ----------------------------
(***************************************************************************)
(* What the daemon promises about one task (the states of                  *)
(* internal/queue/task.go, spec section 9.1), with no handlers, no worker  *)
(* and no crashes: who may move a task from which state to which, and what *)
(* must have happened first.  Dispatcher is shown to implement it.         *)
(***************************************************************************)
EXTENDS Naturals

CONSTANTS Task, Verb,
          Allowance     \* Allowance[v]: retries a task of verb v is granted

VARIABLES status, verb, tries,
          won,          \* tasks one of whose runs ended well
          withdrawn     \* verbs the catalog does not offer at present

vars == <<status, verb, tries, won, withdrawn>>

Init ==
    /\ status \in [Task -> {"free", "pending_approval"}]
    /\ verb \in [Task -> Verb \cup {"none"}]
    /\ tries = [t \in Task |-> 0]
    /\ won = {}
    /\ withdrawn \in SUBSET Verb

Move(t, from, to) ==
    /\ status[t] \in from
    /\ status' = [status EXCEPT ![t] = to]

Accept(t) ==
    /\ Move(t, {"free"}, "accepted")
    /\ \E v \in Verb \ withdrawn : verb' = [verb EXCEPT ![t] = v]
    /\ UNCHANGED <<tries, won, withdrawn>>

(* Only a task that was never queued can be canceled. *)
Cancel(t) ==
    /\ Move(t, {"accepted", "pending_approval"}, "canceled")
    /\ UNCHANGED <<verb, tries, won, withdrawn>>

Queue(t) ==
    /\ Move(t, {"accepted"}, "pending")
    /\ UNCHANGED <<verb, tries, won, withdrawn>>

(* Claimed by the worker, or executed inline. *)
Start(t) ==
    /\ Move(t, {"accepted", "pending", "retry_scheduled"}, "executing")
    /\ UNCHANGED <<verb, tries, won, withdrawn>>

Succeed(t) ==
    /\ status[t] = "executing"
    /\ won' = won \cup {t}
    /\ UNCHANGED <<status, verb, tries, withdrawn>>

Finish(t) ==
    /\ t \in won
    /\ Move(t, {"executing"}, "executed")
    /\ UNCHANGED <<verb, tries, won, withdrawn>>

(* One more attempt, if the policy grants one. *)
Retry(t) ==
    /\ Move(t, {"executing"}, "retry_scheduled")
    /\ tries[t] < Allowance[verb[t]]
    /\ tries' = [tries EXCEPT ![t] = @ + 1]
    /\ UNCHANGED <<verb, won, withdrawn>>

(* Given up: the retries are used up, or the verb is gone. *)
GiveUp(t) ==
    /\ Move(t, {"executing"}, "exhausted")
    /\ tries[t] >= Allowance[verb[t]] \/ verb[t] \in withdrawn
    /\ UNCHANGED <<verb, tries, won, withdrawn>>

(* Put off by an open breaker: no attempt is used. *)
Defer(t) ==
    /\ Move(t, {"executing"}, "retry_scheduled")
    /\ verb[t] \notin withdrawn
    /\ UNCHANGED <<verb, tries, won, withdrawn>>

(* Interrupted, and queued again after the restart. *)
Recover(t) ==
    /\ Move(t, {"executing"}, "pending")
    /\ UNCHANGED <<verb, tries, won, withdrawn>>

NewCatalog ==
    /\ withdrawn' \in SUBSET Verb
    /\ UNCHANGED <<status, verb, tries, won>>

Next ==
    \/ \E t \in Task :
          \/ Accept(t) \/ Cancel(t) \/ Queue(t) \/ Start(t) \/ Succeed(t)
          \/ Finish(t) \/ Retry(t) \/ GiveUp(t) \/ Defer(t) \/ Recover(t)
    \/ NewCatalog

Spec == Init /\ [][Next]_vars
=============================================================================
