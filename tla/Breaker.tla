------------------------------- MODULE Breaker -------------------------------
(***************************************************************************)
(* One verb's circuit breaker (internal/circuit/breaker.go, type Breaker)  *)
(* as operators on a record, so that the daemon can keep one per verb and  *)
(* a stand-alone system can hammer a single one.                           *)
(*                                                                         *)
(* Every method holds b.mu for its whole body: each is one atomic          *)
(* operator.  Clock arithmetic is reduced to the two comparisons the code  *)
(* makes: cooled is "OpenFor has elapsed since openedAt" and lapsed is     *)
(* "the probe lease has run out since trialStarted".  Both become TRUE by  *)
(* the passage of time (Cool, Lapse) and are reset when the instant they   *)
(* are measured from is taken anew.  failures goes past the threshold when *)
(* callers admitted earlier fail while the breaker is open.                *)
(***************************************************************************)
EXTENDS Naturals

CONSTANT Trip      \* consecutive failures that open the breaker (TripThreshold)

ASSUME TripAssumption == Trip \in Nat \ {0}   \* New replaces trip <= 0 by 5

BreakerState == {"closed", "open", "half_open"}

BreakerType == [state : BreakerState, failures : Nat,
                cooled : BOOLEAN, trial : BOOLEAN, lapsed : BOOLEAN]

NewBreaker == [state |-> "closed", failures |-> 0,
               cooled |-> FALSE, trial |-> FALSE, lapsed |-> FALSE]

(* Time passes: OpenFor elapses, or the outstanding probe's lease does. *)
Cool(b)  == [b EXCEPT !.cooled = TRUE]
Lapse(b) == [b EXCEPT !.lapsed = TRUE]

(* Mutant: the open state is never left. *)
MaybeTransition_Never(b) == b

(* maybeTransitionLocked, the first thing Snapshot and Allow do. *)
MaybeTransition(b) ==
    IF b.state = "open" /\ b.cooled
    THEN [b EXCEPT !.state = "half_open", !.trial = FALSE, !.lapsed = FALSE]
    ELSE b

(* What Snapshot reports; it leaves MaybeTransition(b) behind. *)
Snapshot(b) == MaybeTransition(b).state

(* Mutant: the lease of a probe never runs out. *)
Allow_NoLease(b) ==
    LET c == MaybeTransition(b) IN
    \/ c.state = "closed"
    \/ c.state = "half_open" /\ ~c.trial

(* A half-open breaker admits a caller if no probe is out or its lease lapsed. *)
Allow(b) ==
    LET c == MaybeTransition(b) IN
    \/ c.state = "closed"
    \/ c.state = "half_open" /\ (c.trial => c.lapsed)

(* Mutant: the probe is let through but not marked. *)
AfterAllow_Unmarked(b) == MaybeTransition(b)

AfterAllow(b) ==
    LET c == MaybeTransition(b) IN
    IF c.state = "half_open" /\ Allow(b)
    THEN [c EXCEPT !.trial = TRUE, !.lapsed = FALSE]
    ELSE c

(* Whatever the state, a success closes the breaker. *)
AfterSuccess(b) == NewBreaker

(* openedAt is now; a probe, if there was one, is over. *)
Opened(n) == [state |-> "open", failures |-> n,
              cooled |-> FALSE, trial |-> FALSE, lapsed |-> FALSE]

(* Mutant: one failure early. *)
AfterFailure_OffByOne(b) ==
    IF b.state = "half_open" THEN Opened(Trip)
    ELSE IF b.failures + 2 >= Trip THEN Opened(b.failures + 1)
    ELSE [b EXCEPT !.failures = @ + 1]

AfterFailure(b) ==
    IF b.state = "half_open" THEN Opened(Trip)
    ELSE IF b.failures + 1 >= Trip THEN Opened(b.failures + 1)
    ELSE [b EXCEPT !.failures = @ + 1]
=============================================================================
