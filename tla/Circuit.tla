------------------------------ MODULE Circuit ------------------------------
(***************************************************************************)
(* One circuit breaker (internal/circuit/breaker.go) and the goroutines    *)
(* that share it.  A guarded caller asks Allow before it runs the command, *)
(* as the worker does; a peeking caller only looks at Snapshot, as the     *)
(* inline-execution and stream handlers do.  Both report Success or        *)
(* Failure -- or never do, the case the probe lease is for.  Between the   *)
(* question and the report anything may happen to the breaker.             *)
(***************************************************************************)
EXTENDS Breaker

CONSTANTS Guarded, Peeking    \* the callers, by how they ask

ASSUME CircuitAssumption == Guarded \cap Peeking = {}

Caller == Guarded \cup Peeking

VARIABLES
    b,          \* the breaker
    running,    \* callers whose command runs
    probes,     \* ghost: probes of this half-open period with a valid lease
    streak      \* ghost: failures reported since the last success, at most Trip

vars == <<b, running, probes, streak>>

TypeOK ==
    /\ b \in BreakerType
    /\ running \in SUBSET Caller
    /\ probes \in SUBSET Caller
    /\ streak \in 0 .. Trip

Init ==
    /\ b = NewBreaker
    /\ running = {} /\ probes = {} /\ streak = 0

(* The breaker becomes c.  Probes belong to the half-open period they were
   granted in. *)
Becomes(c, granted) ==
    /\ b' = c
    /\ probes' = IF c.state = "half_open" /\ b.state = "half_open"
                 THEN probes \cup granted
                 ELSE IF c.state = "half_open" THEN granted ELSE {}

(* Allow. *)
Ask(p) ==
    /\ p \in Guarded \ running
    /\ IF Allow(b)
       THEN /\ Becomes(AfterAllow(b),
                       IF AfterAllow(b).state = "half_open" THEN {p} ELSE {})
            /\ running' = running \cup {p}
       ELSE /\ Becomes(AfterAllow(b), {})
            /\ UNCHANGED running
    /\ UNCHANGED streak

(* Snapshot, and a start unless it says open. *)
Peek(p) ==
    /\ p \in Peeking \ running
    /\ Becomes(MaybeTransition(b), {})
    /\ running' = IF Snapshot(b) = "open" THEN running ELSE running \cup {p}
    /\ UNCHANGED streak

ReportSuccess(p) ==
    /\ p \in running
    /\ Becomes(AfterSuccess(b), {})
    /\ running' = running \ {p}
    /\ streak' = 0

ReportFailure(p) ==
    /\ p \in running
    /\ Becomes(AfterFailure(b), {})
    /\ running' = running \ {p}
    /\ streak' = IF streak = Trip THEN Trip ELSE streak + 1

(* The verdict never arrives. *)
Abandon(p) ==
    /\ p \in running
    /\ running' = running \ {p}
    /\ UNCHANGED <<b, probes, streak>>

(* The clock passes openedAt + OpenFor, or trialStarted + ProbeTimeout. *)
OpenForElapses ==
    /\ b.state = "open" /\ ~b.cooled
    /\ b' = Cool(b)
    /\ UNCHANGED <<running, probes, streak>>

LeaseEnds ==
    /\ b.trial /\ ~b.lapsed
    /\ b' = Lapse(b)
    /\ probes' = {}
    /\ UNCHANGED <<running, streak>>

Next ==
    \/ \E p \in Caller :
          Ask(p) \/ Peek(p) \/ ReportSuccess(p) \/ ReportFailure(p) \/ Abandon(p)
    \/ OpenForElapses \/ LeaseEnds

Spec == Init /\ [][Next]_vars

(* Only the clock is relied upon; callers need do nothing. *)
FairSpec == Spec /\ WF_vars(OpenForElapses) /\ WF_vars(LeaseEnds)

-----------------------------------------------------------------------------
(* Properties.                                                             *)

(* "Only one probe" (breaker.go): of the callers Allow let through in one
   half-open period, at most one holds a lease that has not run out, with
   late verdicts, peeking callers and lost probes interleaved at will. *)
OneProbeAtATime == \A p, q \in probes : p = q

(* A closed breaker opens only on Trip consecutive failures: a success in
   between, whoever reports it, starts the count again. *)
OpensOnStreak ==
    [][b.state = "closed" /\ b'.state = "open" => streak' >= Trip]_vars

(* Liveness: whatever callers fail, succeed late or vanish, the breaker
   keeps letting guarded callers try again; it is never wedged shut. *)
NeverWedged == []<>Allow(b)
=============================================================================
