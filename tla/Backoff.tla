------------------------------- MODULE Backoff -------------------------------
(***************************************************************************)
(* The waiting time between the attempts of one task: the loop of          *)
(* DelayAfterFailureCapped (internal/retry/backoff.go) on integers of      *)
(* fixed width, next_run_at as the worker writes it                        *)
(* (internal/worker/worker.go), and ClaimDue's comparison of texts         *)
(* (internal/queue/sqlite.go).  Time is in ticks.                          *)
(***************************************************************************)
EXTENDS Integers, TimeText

CONSTANTS
    MaxInt,         \* the largest time.Duration
    MaxDelay,       \* the cap of the exponential part
    MaxJitter,
    BackoffBase,    \* what the configuration may ask for
    MaxAttempt,     \* bound: attempts
    MaxNow          \* bound: the clock

ASSUME BackoffAssumption ==
    /\ MaxInt \in Nat /\ MaxDelay \in Nat \ {0} /\ MaxJitter \in Nat \ {0}
    /\ MaxDelay + MaxJitter <= MaxInt
    /\ BackoffBase \subseteq 1 .. MaxInt
    /\ MaxAttempt \in Nat /\ MaxNow \in Nat

VARIABLES
    base,       \* Worker.BackoffBase
    now,        \* the clock
    attempt,    \* the row's attempt
    at,         \* "running", "doubling" (the loop), "scheduled"
    i, d,       \* the loop's counter and the delay so far
    next,       \* next_run_at
    exact,      \* ghost: base * 2^i, unbounded
    earliest    \* ghost: when the delay of the last failure is over

vars == <<base, now, attempt, at, i, d, next, exact, earliest>>

BackoffTypeOK ==
    /\ base \in BackoffBase
    /\ now \in Nat /\ attempt \in Nat
    /\ at \in {"running", "doubling", "scheduled"}
    /\ i \in Nat /\ d \in Int
    /\ next \in Nat /\ exact \in Nat /\ earliest \in Nat

Init ==
    /\ base \in BackoffBase
    /\ now = 0 /\ attempt = 0
    /\ at = "running"
    /\ i = 0 /\ d = 0 /\ next = 0
    /\ exact = 0 /\ earliest = 0

(* Doubling a duration, two's complement. *)
Wrapped(x) == IF x > MaxInt THEN x - 2 * (MaxInt + 1) ELSE x

(* The attempt fails. *)
Fail ==
    /\ at = "running"
    /\ attempt < MaxAttempt
    /\ at' = "doubling"
    /\ i' = 0 /\ d' = base /\ exact' = base
    /\ UNCHANGED <<base, now, attempt, next, earliest>>

(* Mutant: overflow is looked for by size alone. *)
Double_NoSign ==
    /\ at = "doubling" /\ i < attempt
    /\ d < MaxDelay
    /\ d' = LET e == Wrapped(2 * d) IN IF e >= MaxDelay THEN MaxDelay ELSE e
    /\ i' = IF d' = MaxDelay THEN attempt ELSE i + 1
    /\ exact' = 2 * exact
    /\ UNCHANGED <<base, now, attempt, at, next, earliest>>

(* One turn of the loop: either limit ends it early. *)
Double ==
    /\ at = "doubling" /\ i < attempt
    /\ d < MaxDelay
    /\ d' = LET e == Wrapped(2 * d)
            IN  IF e < 0 \/ e >= MaxDelay THEN MaxDelay ELSE e
    /\ i' = IF d' = MaxDelay THEN attempt ELSE i + 1
    /\ exact' = 2 * exact
    /\ UNCHANGED <<base, now, attempt, at, next, earliest>>

Break ==
    /\ at = "doubling" /\ i < attempt
    /\ d >= MaxDelay
    /\ d' = MaxDelay
    /\ i' = attempt
    /\ UNCHANGED <<base, now, attempt, at, next, exact, earliest>>

Capped == IF d > MaxDelay THEN MaxDelay ELSE d

(* Mutant: next_run_at is the instant of the failure. *)
Schedule_Now ==
    /\ at = "doubling" /\ i = attempt
    /\ next' = now
    /\ d' = Capped
    /\ earliest' = now + (IF exact < MaxDelay THEN exact ELSE MaxDelay)
    /\ attempt' = attempt + 1
    /\ at' = "scheduled"
    /\ UNCHANGED <<base, now, i, exact>>

(* The cap once more, jitter, and the row. *)
Schedule ==
    /\ at = "doubling" /\ i = attempt
    /\ \E jitter \in 0 .. (MaxJitter - 1) : next' = now + Capped + jitter
    /\ d' = Capped
    /\ earliest' = now + (IF exact < MaxDelay THEN exact ELSE MaxDelay)
    /\ attempt' = attempt + 1
    /\ at' = "scheduled"
    /\ UNCHANGED <<base, now, i, exact>>

(* next_run_at <= now, as texts *)
DueText == ~TextBefore(now, next)

ClaimDue ==
    /\ at = "scheduled" /\ DueText
    /\ at' = "running"
    /\ UNCHANGED <<base, now, attempt, i, d, next, exact, earliest>>

Tick ==
    /\ now < MaxNow
    /\ now' = now + 1
    /\ UNCHANGED <<base, attempt, at, i, d, next, exact, earliest>>

Next == Fail \/ Double \/ Break \/ Schedule \/ ClaimDue \/ Tick

Spec == Init /\ [][Next]_vars

-----------------------------------------------------------------------------
(* The delay before jitter is base * 2^n as long as that stays below the   *)
(* cap, and the cap from then on: no width of integer lets a product wrap  *)
(* into something short or negative.                                       *)
DelaySaturates ==
    at = "scheduled" =>
        d = IF exact < MaxDelay THEN exact ELSE MaxDelay

(* A task is not run again before its delay is over, however the instants are
   written; trailing zeros in their texts may cost less than a second.  (For a
   clock that is not set back.) *)
WaitKept ==
    at = "running" /\ attempt > 0 => now > earliest - Base ^ Digits
=============================================================================
