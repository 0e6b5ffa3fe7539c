--------------------------- MODULE CircuitProofs ---------------------------
(***************************************************************************)
(* Circuit: one probe at a time, opening on a streak, and what the count   *)
(* of failures says and how far past the threshold it goes, for any        *)
(* threshold and any set of callers.                                       *)
(***************************************************************************)
EXTENDS Circuit, FiniteSetTheorems, TLAPS

(* The breaker's methods keep its fields in range. *)
LEMMA MethodTypes ==
    ASSUME NEW c \in BreakerType
    PROVE  /\ MaybeTransition(c) \in BreakerType
           /\ AfterAllow(c) \in BreakerType
           /\ AfterFailure(c) \in BreakerType
           /\ NewBreaker \in BreakerType
           /\ Cool(c) \in BreakerType
           /\ Lapse(c) \in BreakerType
  <1> USE TripAssumption DEF BreakerType, BreakerState
  <1>1. MaybeTransition(c) \in BreakerType
    BY DEF MaybeTransition
  <1>2. AfterAllow(c) \in BreakerType
    BY <1>1 DEF AfterAllow
  <1>3. AfterFailure(c) \in BreakerType
    BY DEF AfterFailure, Opened
  <1>4. NewBreaker \in BreakerType
    BY DEF NewBreaker
  <1>5. Cool(c) \in BreakerType /\ Lapse(c) \in BreakerType
    BY DEF Cool, Lapse
  <1> QED BY <1>1, <1>2, <1>3, <1>4, <1>5

(* The initial state is well typed. *)
LEMMA TypeInit == Init => TypeOK
  BY TripAssumption DEF Init, TypeOK, NewBreaker, BreakerType, BreakerState

(* Every step keeps the types: the breaker by MethodTypes, the sets because
   only callers enter them. *)
LEMMA TypeStep == TypeOK /\ [Next]_vars => TypeOK'
  <1> SUFFICES ASSUME TypeOK, [Next]_vars PROVE TypeOK'
    OBVIOUS
  <1> USE TripAssumption DEF TypeOK
  <1>1. ASSUME NEW p \in Caller, Ask(p) PROVE TypeOK'
    BY <1>1, MethodTypes DEF Ask, Becomes, Caller
  <1>2. ASSUME NEW p \in Caller, Peek(p) PROVE TypeOK'
    BY <1>2, MethodTypes DEF Peek, Becomes, Caller
  <1>3. ASSUME NEW p \in Caller, ReportSuccess(p) PROVE TypeOK'
    BY <1>3, MethodTypes DEF ReportSuccess, Becomes, AfterSuccess
  <1>4. ASSUME NEW p \in Caller, ReportFailure(p) PROVE TypeOK'
    BY <1>4, MethodTypes DEF ReportFailure, Becomes
  <1>5. ASSUME NEW p \in Caller, Abandon(p) PROVE TypeOK'
    BY <1>5 DEF Abandon
  <1>6. CASE OpenForElapses
    BY <1>6, MethodTypes DEF OpenForElapses
  <1>7. CASE LeaseEnds
    BY <1>7, MethodTypes DEF LeaseEnds
  <1>8. CASE UNCHANGED vars
    BY <1>8 DEF vars
  <1> QED BY <1>1, <1>2, <1>3, <1>4, <1>5, <1>6, <1>7, <1>8 DEF Next

(* The breaker's fields have their types whatever its callers do. *)
THEOREM TypeCorrect == Spec => []TypeOK
  <1> QED BY TypeInit, TypeStep, PTL DEF Spec

(* What the half-open breaker knows of its probe: while one with a valid
   lease is out, trial is set and not lapsed, so Allow refuses. *)
ProbeInv ==
    /\ OneProbeAtATime
    /\ probes # {} => b.state = "half_open" /\ b.trial /\ ~b.lapsed

(* One step of any caller, or of the clock, preserves it. *)
LEMMA ProbeStep == TypeOK /\ ProbeInv /\ [Next]_vars => ProbeInv'
  <1> SUFFICES ASSUME TypeOK, ProbeInv, [Next]_vars PROVE ProbeInv'
    OBVIOUS
  <1> USE DEF TypeOK, ProbeInv, OneProbeAtATime, BreakerType
  <1>1. ASSUME NEW p \in Caller, Ask(p) PROVE ProbeInv'
    <2>1. CASE Allow(b) /\ AfterAllow(b).state = "half_open"
      <3>1. probes = {} \/ b.state # "half_open"
        BY <2>1 DEF Allow, MaybeTransition
      <3>2. probes' = {p}
        BY <1>1, <2>1, <3>1 DEF Ask, Becomes
      <3>3. b' = AfterAllow(b) /\ AfterAllow(b).trial /\ ~AfterAllow(b).lapsed
        BY <1>1, <2>1 DEF Ask, Becomes, AfterAllow, Allow, MaybeTransition
      <3> QED BY <2>1, <3>2, <3>3
    <2>2. CASE ~(Allow(b) /\ AfterAllow(b).state = "half_open")
      <3>1. /\ b' = AfterAllow(b)
            /\ probes' \subseteq probes
            /\ probes' # {} => b.state = "half_open" /\ ~Allow(b)
        BY <1>1, <2>2 DEF Ask, Becomes
      <3>2. b.state = "half_open" /\ ~Allow(b) => AfterAllow(b) = b
        BY DEF AfterAllow, MaybeTransition
      <3> QED BY <3>1, <3>2
    <2> QED BY <2>1, <2>2
  <1>2. ASSUME NEW p \in Caller, Peek(p) PROVE ProbeInv'
    <2>1. b.state = "half_open" => MaybeTransition(b) = b
      BY DEF MaybeTransition
    <2>2. /\ b' = MaybeTransition(b)
          /\ probes' \subseteq probes
          /\ probes' # {} => b.state = "half_open"
      BY <1>2 DEF Peek, Becomes
    <2> QED BY <2>1, <2>2
  <1>3. ASSUME NEW p \in Caller, ReportSuccess(p) PROVE ProbeInv'
    <2>1. probes' = {}
      BY <1>3 DEF ReportSuccess, Becomes, AfterSuccess, NewBreaker
    <2> QED BY <2>1
  <1>4. ASSUME NEW p \in Caller, ReportFailure(p) PROVE ProbeInv'
    <2>1. AfterFailure(b).state # "half_open"
      BY DEF AfterFailure, Opened
    <2>2. probes' = {}
      BY <1>4, <2>1 DEF ReportFailure, Becomes
    <2> QED BY <2>2
  <1>5. ASSUME NEW p \in Caller, Abandon(p) PROVE ProbeInv'
    BY <1>5 DEF Abandon
  <1>6. CASE OpenForElapses
    BY <1>6 DEF OpenForElapses, Cool
  <1>7. CASE LeaseEnds
    BY <1>7 DEF LeaseEnds, Lapse
  <1>8. CASE UNCHANGED vars
    BY <1>8 DEF vars
  <1> QED BY <1>1, <1>2, <1>3, <1>4, <1>5, <1>6, <1>7, <1>8 DEF Next

(* In a half-open period never two probes with a valid lease, however many
   callers ask, report late, or never report. *)
THEOREM OneProbe == Spec => []OneProbeAtATime
  <1>1. Init => ProbeInv
    BY DEF Init, ProbeInv, OneProbeAtATime
  <1>2. ProbeInv => OneProbeAtATime
    BY DEF ProbeInv
  <1> QED BY <1>1, <1>2, ProbeStep, TypeCorrect, PTL DEF Spec

(***************************************************************************)
(* The count.  It is what Snapshot tells GET /v1/health besides the state. *)
(***************************************************************************)

(* The two agree: a breaker that is not closed shows its threshold or more,
   with verdicts arriving late or never, and a closed one the failures since
   the last success, fewer than the threshold. *)
CountShown ==
    /\ b.state = "closed" <=> b.failures < Trip
    /\ b.state = "closed" => b.failures = streak

LEMMA CountStep == TypeOK /\ CountShown /\ [Next]_vars => CountShown'
  <1> SUFFICES ASSUME TypeOK, CountShown, [Next]_vars PROVE CountShown'
    OBVIOUS
  <1> USE TripAssumption DEF TypeOK, CountShown, BreakerType, BreakerState
  <1>1. ASSUME NEW p \in Caller, Ask(p) \/ Peek(p) PROVE CountShown'
    <2>1. /\ b'.failures = b.failures /\ streak' = streak
          /\ b'.state = "closed" <=> b.state = "closed"
      BY <1>1 DEF Ask, Peek, Becomes, AfterAllow, MaybeTransition
    <2> QED BY <2>1
  <1>2. ASSUME NEW p \in Caller, ReportSuccess(p) PROVE CountShown'
    <2>1. b' = NewBreaker /\ streak' = 0
      BY <1>2 DEF ReportSuccess, Becomes, AfterSuccess
    <2> QED BY <2>1 DEF NewBreaker
  <1>3. ASSUME NEW p \in Caller, ReportFailure(p) PROVE CountShown'
    <2>1. /\ b' = AfterFailure(b)
          /\ streak' = (IF streak = Trip THEN Trip ELSE streak + 1)
      BY <1>3 DEF ReportFailure, Becomes
    <2>2. CASE b.state = "half_open" \/ b.failures + 1 >= Trip
      BY <2>1, <2>2 DEF AfterFailure, Opened
    <2>3. CASE ~(b.state = "half_open" \/ b.failures + 1 >= Trip)
      BY <2>1, <2>3 DEF AfterFailure
    <2> QED BY <2>2, <2>3
  <1>4. ASSUME NEW p \in Caller, Abandon(p) PROVE CountShown'
    BY <1>4 DEF Abandon
  <1>5. CASE OpenForElapses
    BY <1>5 DEF OpenForElapses, Cool
  <1>6. CASE LeaseEnds
    BY <1>6 DEF LeaseEnds, Lapse
  <1>7. CASE UNCHANGED vars
    BY <1>7 DEF vars
  <1> QED BY <1>1, <1>2, <1>3, <1>4, <1>5, <1>6, <1>7 DEF Next

LEMMA CountInit == Init => CountShown
  BY TripAssumption DEF Init, CountShown, NewBreaker

(* breaker.go:126-142: the state and the count that health shows agree. *)
THEOREM CountAgrees == Spec => []CountShown
  <1> QED BY CountInit, CountStep, TypeInit, TypeStep, PTL DEF Spec

(* While it is open nobody starts, so that only callers that run already can
   raise the count; when it is half-open a failure sets it back. *)
LateFailures ==
    /\ b.state = "open" => b.failures + Cardinality(running) < Trip + Cardinality(Caller)
    /\ b.state = "half_open" => b.failures < Trip + Cardinality(Caller)

CountBounded == b.failures < Trip + Cardinality(Caller)

LEMMA LateStep ==
    ASSUME IsFiniteSet(Caller), TypeOK, CountShown, LateFailures, [Next]_vars
    PROVE  LateFailures'
  <1> USE TripAssumption DEF TypeOK, LateFailures, BreakerType, BreakerState
  <1>1. IsFiniteSet(running) /\ Cardinality(running) \in Nat /\ Cardinality(Caller) \in Nat
    BY FS_Subset, FS_CardinalityType
  <1>2. ASSUME NEW p \in Caller, Ask(p) \/ Peek(p) PROVE LateFailures'
    <2>1. b'.failures = b.failures
      BY <1>2 DEF Ask, Peek, Becomes, AfterAllow, MaybeTransition
    <2>2. b'.state = "open" => b.state = "open" /\ running' = running
      BY <1>2 DEF Ask, Peek, Becomes, Allow, AfterAllow, MaybeTransition, Snapshot
    <2>3. b'.state = "half_open" => b.state \in {"open", "half_open"}
      BY <1>2 DEF Ask, Peek, Becomes, AfterAllow, MaybeTransition
    <2> QED BY <1>1, <2>1, <2>2, <2>3
  <1>3. ASSUME NEW p \in Caller, ReportSuccess(p) PROVE LateFailures'
    BY <1>3 DEF ReportSuccess, Becomes, AfterSuccess, NewBreaker
  <1>4. ASSUME NEW p \in Caller, ReportFailure(p) PROVE LateFailures'
    <2>1. p \in running /\ running' = running \ {p} /\ b' = AfterFailure(b)
      BY <1>4 DEF ReportFailure, Becomes
    <2>2. Cardinality(running') = Cardinality(running) - 1
      BY <1>1, <2>1, FS_RemoveElement
    <2>3. Cardinality(running) <= Cardinality(Caller)
      BY FS_Subset
    <2>4. b'.state # "half_open"
      BY <2>1 DEF AfterFailure, Opened
    <2>5. CASE b.state = "half_open"
      BY <1>1, <2>1, <2>2, <2>3, <2>4, <2>5 DEF AfterFailure, Opened
    <2>6. CASE b.state # "half_open" /\ b.failures + 1 >= Trip
      BY <1>1, <2>1, <2>2, <2>3, <2>4, <2>6 DEF AfterFailure, Opened, CountShown
    <2>7. CASE b.state # "half_open" /\ ~(b.failures + 1 >= Trip)
      BY <2>1, <2>7 DEF AfterFailure, CountShown
    <2> QED BY <2>5, <2>6, <2>7
  <1>5. ASSUME NEW p \in Caller, Abandon(p) PROVE LateFailures'
    <2>1. p \in running /\ running' = running \ {p} /\ b' = b
      BY <1>5 DEF Abandon
    <2>2. Cardinality(running') = Cardinality(running) - 1
      BY <1>1, <2>1, FS_RemoveElement
    <2> QED BY <1>1, <2>1, <2>2
  <1>6. CASE OpenForElapses
    BY <1>6 DEF OpenForElapses, Cool
  <1>7. CASE LeaseEnds
    BY <1>7 DEF LeaseEnds, Lapse
  <1>8. CASE UNCHANGED vars
    BY <1>8 DEF vars
  <1> QED BY <1>2, <1>3, <1>4, <1>5, <1>6, <1>7, <1>8 DEF Next

(* breaker.go:136: however late failures are reported, the count passes the
   threshold by less than the number of callers that can run at once. *)
THEOREM CountStaysBounded ==
    ASSUME IsFiniteSet(Caller)
    PROVE  Spec => []CountBounded
  <1>1. Init => LateFailures
    BY DEF Init, LateFailures, NewBreaker
  <1>2. TypeOK /\ CountShown /\ LateFailures /\ [Next]_vars => LateFailures'
    BY LateStep
  <1>3. TypeOK /\ CountShown /\ LateFailures => CountBounded
    <2>1. TypeOK => Cardinality(running) \in Nat /\ Cardinality(Caller) \in Nat
      BY FS_Subset, FS_CardinalityType DEF TypeOK
    <2> QED BY <2>1, TripAssumption
            DEF TypeOK, CountShown, LateFailures, CountBounded, BreakerType, BreakerState
  <1> QED BY <1>1, <1>2, <1>3, CountInit, CountStep, TypeInit, TypeStep, PTL DEF Spec

(* A closed breaker opens on the Trip-th consecutive failure and not before,
   for every Trip. *)
THEOREM OpensOnlyOnStreak == Spec => OpensOnStreak
  <1> USE TripAssumption
  <1>1. TypeOK /\ CountShown /\ [Next]_vars =>
           [b.state = "closed" /\ b'.state = "open" => streak' >= Trip]_vars
    <2> SUFFICES ASSUME TypeOK, CountShown, [Next]_vars, b.state = "closed", b'.state = "open"
                 PROVE  streak' >= Trip
      OBVIOUS
    <2> USE DEF TypeOK, CountShown, BreakerType, BreakerState
    <2>1. ASSUME NEW p \in Caller, Ask(p) \/ Peek(p) PROVE FALSE
      BY <2>1 DEF Ask, Peek, Becomes, AfterAllow, MaybeTransition
    <2>2. ASSUME NEW p \in Caller, ReportSuccess(p) PROVE FALSE
      BY <2>2 DEF ReportSuccess, Becomes, AfterSuccess, NewBreaker
    <2>3. ASSUME NEW p \in Caller, ReportFailure(p) PROVE streak' >= Trip
      <3>1. b' = AfterFailure(b) /\ streak' = streak + 1
        BY <2>3 DEF ReportFailure, Becomes
      <3> QED BY <3>1 DEF AfterFailure, Opened
    <2>4. ASSUME NEW p \in Caller, Abandon(p) PROVE FALSE
      BY <2>4 DEF Abandon
    <2>5. CASE OpenForElapses \/ LeaseEnds \/ UNCHANGED vars
      BY <2>5 DEF OpenForElapses, LeaseEnds, Lapse, vars
    <2> QED BY <2>1, <2>2, <2>3, <2>4, <2>5 DEF Next
  <1> QED BY <1>1, CountInit, CountStep, TypeCorrect, PTL DEF Spec, OpensOnStreak
=============================================================================
