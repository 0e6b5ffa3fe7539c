---------------------------- MODULE BackoffProofs ----------------------------
(***************************************************************************)
(* Backoff: the delay is exact up to the cap and never above it, for every *)
(* width of integer, every cap below it, every base and any number of      *)
(* attempts.                                                               *)
(***************************************************************************)
EXTENDS Backoff, WellFoundedInduction, TLAPS

(* In the loop the delay is the exact product, or it is the cap, the product
   has passed it and the loop is over. *)
LoopInv ==
    at = "doubling" =>
        /\ i <= attempt
        /\ d \in 1 .. MaxInt
        /\ \/ d = exact
           \/ d = MaxDelay /\ exact >= MaxDelay /\ i = attempt

BackoffInv == BackoffTypeOK /\ LoopInv /\ DelaySaturates

LEMMA InitInv == Init => BackoffInv
  BY BackoffAssumption DEF Init, BackoffInv, BackoffTypeOK, LoopInv, DelaySaturates

(* A product that no longer fits is negative, so the loop sees it. *)
LEMMA WrapsNegative ==
    ASSUME NEW x \in 1 .. MaxInt, 2 * x > MaxInt
    PROVE  Wrapped(2 * x) < 0
  BY BackoffAssumption DEF Wrapped

LEMMA DoubleInv == ASSUME BackoffInv, Double PROVE BackoffInv'
  <1> USE BackoffAssumption DEF BackoffInv, BackoffTypeOK, LoopInv
  <1>1. d \in 1 .. (MaxDelay - 1) /\ d = exact
    BY DEF Double
  <1>2. CASE 2 * d > MaxInt
    <2>1. Wrapped(2 * d) < 0
      BY <1>1, <1>2, WrapsNegative
    <2>2. d' = MaxDelay /\ exact' = 2 * d /\ i' = attempt
      BY <1>1, <2>1 DEF Double
    <2> QED BY <1>1, <1>2, <2>2 DEF Double, DelaySaturates
  <1>3. CASE 2 * d <= MaxInt
    <2>1. Wrapped(2 * d) = 2 * d
      BY <1>1, <1>3 DEF Wrapped
    <2>2. d' = IF 2 * d >= MaxDelay THEN MaxDelay ELSE 2 * d
      BY <1>1, <2>1 DEF Double
    <2>3. exact' = 2 * d /\ i' = IF d' = MaxDelay THEN attempt ELSE i + 1
      BY <1>1 DEF Double
    <2> QED BY <1>1, <1>3, <2>2, <2>3 DEF Double, DelaySaturates
  <1> QED BY <1>1, <1>2, <1>3

LEMMA NextInv == ASSUME BackoffInv, [Next]_vars PROVE BackoffInv'
  <1> USE BackoffAssumption DEF BackoffInv, BackoffTypeOK, LoopInv, DelaySaturates
  <1>1. CASE Fail
    <2>1. base \in 1 .. MaxInt
      OBVIOUS
    <2> QED BY <1>1, <2>1 DEF Fail
  <1>2. CASE Double
    BY <1>2, DoubleInv
  <1>3. CASE Break
    BY <1>3 DEF Break
  <1>4. CASE Schedule
    <2>1. d' = IF exact < MaxDelay THEN exact ELSE MaxDelay
      BY <1>4 DEF Schedule, Capped
    <2>2. PICK jitter \in 0 .. (MaxJitter - 1) : next' = now + Capped + jitter
      BY <1>4 DEF Schedule
    <2>3. next' \in Nat /\ earliest' \in Nat
      BY <1>4, <2>2 DEF Schedule, Capped
    <2> QED BY <1>4, <2>1, <2>3 DEF Schedule
  <1>5. CASE ClaimDue
    BY <1>5 DEF ClaimDue
  <1>6. CASE Tick
    BY <1>6 DEF Tick
  <1>7. CASE UNCHANGED vars
    BY <1>7 DEF vars
  <1> QED BY <1>1, <1>2, <1>3, <1>4, <1>5, <1>6, <1>7 DEF Next

(* The invariant behind the theorems. *)
LEMMA Invariance == Spec => []BackoffInv
  <1>1. Init => BackoffInv
    BY InitInv
  <1>2. BackoffInv /\ [Next]_vars => BackoffInv'
    BY NextInv
  <1> QED BY <1>1, <1>2, PTL DEF Spec

(* The delay of attempt n before jitter is the lesser of base * 2^n and the  *)
(* cap (backoff.go:42-59), whatever the width of a duration.                 *)
THEOREM DelayExact == Spec => []DelaySaturates
  <1>1. BackoffInv => DelaySaturates
    BY DEF BackoffInv
  <1> QED BY <1>1, Invariance, PTL

(* A set of numbers that is not empty has a least one. *)
LEMMA LeastNatural ==
    ASSUME NEW S \in SUBSET Nat, S # {}
    PROVE  \E n \in S : \A m \in S : n <= m
  <1> DEFINE R == {p \in Nat \X Nat : p[1] < p[2]}
  <1>1. IsWellFoundedOn(R, Nat)
    BY NatLessThanWellFounded DEF OpToRel
  <1>2. PICK n \in S : \A m \in S : <<m, n>> \notin R
    <2> HIDE DEF R
    <2> QED BY <1>1, WFMin
  <1>3. ASSUME NEW m \in S, m < n PROVE FALSE
    BY <1>2, <1>3
  <1> QED BY <1>3

(* A power of the base is a positive number. *)
LEMMA Powers ==
    ASSUME NEW k \in 0 .. Digits PROVE Base ^ k \in Nat \ {0}
  <1> DEFINE S == {m \in 0 .. Digits : Base ^ m \notin Nat \ {0}}
  <1>1. ASSUME S # {} PROVE FALSE
    <2>1. PICK m \in S : \A j \in S : m <= j
      <3>1. S \in SUBSET Nat
        BY TimeTextAssumption
      <3> HIDE DEF S
      <3> QED BY <1>1, <3>1, LeastNatural
    <2>2. m \in 1 .. Digits
      BY TimeTextAssumption
    <2>3. Base ^ (m - 1) \in Nat \ {0}
      <3>1. m - 1 \in 0 .. Digits /\ ~(m <= m - 1)
        BY <2>2, TimeTextAssumption
      <3>2. m - 1 \notin S
        <4> HIDE DEF S
        <4> QED BY <2>1, <3>1
      <3> QED BY <3>1, <3>2
    <2>4. Base ^ m = Base * Base ^ (m - 1) /\ Base \in Nat \ {0}
      BY <2>2, TimeTextAssumption
    <2>5. \A a, b \in Nat \ {0} : a * b \in Nat \ {0}
      OBVIOUS
    <2> DEFINE p == Base ^ (m - 1)
               q == Base ^ m
    <2>6. q = Base * p /\ p \in Nat \ {0}
      BY <2>3, <2>4
    <2>7. q \notin Nat \ {0}
      OBVIOUS
    <2> HIDE DEF p, q
    <2> QED BY <2>4, <2>5, <2>6, <2>7
  <1> QED BY <1>1

LEMMA PowerType == Base ^ Digits \in Nat \ {0}
  BY Powers, TimeTextAssumption

(* An instant of no earlier second is earlier by less than a second. *)
LEMMA SecondsOrder ==
    ASSUME NEW a \in Nat, NEW b \in Nat, Second(a) >= Second(b)
    PROVE  a > b - Base ^ Digits
  <1> DEFINE S == Base ^ Digits
  <1>1. S \in Nat \ {0}
    BY PowerType
  <1>2. a \div S >= b \div S
    BY DEF Second
  <1> HIDE DEF S
  <1>3. a = S * (a \div S) + (a % S) /\ a % S >= 0 /\ a \div S \in Int
    BY <1>1
  <1>4. b = S * (b \div S) + (b % S) /\ b % S < S /\ b \div S \in Int
    BY <1>1
  <1>5. ASSUME NEW p \in Int, NEW q \in Int, p >= q PROVE S * p >= S * q
    BY <1>1, <1>5
  <1>6. S * (a \div S) >= S * (b \div S)
    BY <1>2, <1>3, <1>4, <1>5
  <1>7. a > b - S
    <2> DEFINE m == S * (a \div S)  n == S * (b \div S)
    <2>1. m \in Int /\ n \in Int /\ a % S \in Int /\ b % S \in Int
      BY <1>1, <1>3, <1>4
    <2>2. a = m + (a % S) /\ b = n + (b % S) /\ m >= n
      BY <1>3, <1>4, <1>6
    <2> HIDE DEF m, n
    <2> QED BY <1>1, <1>3, <1>4, <2>1, <2>2
  <1> QED BY <1>7 DEF S

(* Nobody waits less than asked for before the row is claimed. *)
WaitInv ==
    /\ BackoffInv
    /\ at = "scheduled" => next >= earliest
    /\ WaitKept

LEMMA WaitInit == Init => WaitInv
  BY InitInv DEF Init, WaitInv, WaitKept

LEMMA WaitNext == ASSUME WaitInv, [Next]_vars PROVE WaitInv'
  <1> USE BackoffAssumption, PowerType DEF WaitInv, BackoffInv, BackoffTypeOK
  <1>0. BackoffInv'
    BY NextInv
  <1> HIDE DEF BackoffInv
  <1>T. BackoffTypeOK /\ LoopInv
    BY DEF BackoffInv
  <1>1. CASE Fail
    BY <1>0, <1>1 DEF Fail, WaitKept
  <1>2. CASE Double
    BY <1>0, <1>2 DEF Double, WaitKept
  <1>3. CASE Break
    BY <1>0, <1>3 DEF Break, WaitKept
  <1>4. CASE Schedule
    <2>1. Capped = IF exact < MaxDelay THEN exact ELSE MaxDelay
      BY <1>4, <1>T DEF Schedule, Capped, LoopInv
    <2>2. PICK jitter \in 0 .. (MaxJitter - 1) : next' = now + Capped + jitter
      BY <1>4 DEF Schedule
    <2>3. earliest' = now + Capped /\ at' = "scheduled"
      BY <1>4, <2>1 DEF Schedule
    <2>4. Capped \in Nat
      BY <1>T, <2>1
    <2>5. next' >= earliest'
      BY <1>T, <2>2, <2>3, <2>4
    <2> QED BY <1>0, <2>3, <2>5 DEF WaitKept
  <1>5. CASE ClaimDue
    <2>1. Second(now) >= Second(next)
      <3>1. ~(Second(now) < Second(next))
        BY <1>5 DEF ClaimDue, DueText, TextBefore
      <3>2. Second(now) \in Int /\ Second(next) \in Int
        BY <1>T DEF Second
      <3> QED BY <3>1, <3>2
    <2>2. now > next - Base ^ Digits
      BY <1>T, <2>1, SecondsOrder
    <2>3. next >= earliest
      BY <1>5 DEF ClaimDue
    <2> DEFINE S == Base ^ Digits
    <2>4. S \in Nat
      OBVIOUS
    <2> HIDE DEF S
    <2>5. now > earliest - S
      BY <1>T, <2>2, <2>3, <2>4 DEF S
    <2> QED BY <1>0, <1>5, <2>5 DEF ClaimDue, WaitKept, S
  <1>6. CASE Tick
    <2> DEFINE S == Base ^ Digits
    <2>1. S \in Nat
      OBVIOUS
    <2> HIDE DEF S
    <2>2. now > earliest - S => now + 1 > earliest - S
      BY <1>T, <2>1
    <2> QED BY <1>0, <1>6, <2>2 DEF Tick, WaitKept, S
  <1>7. CASE UNCHANGED vars
    BY <1>0, <1>7 DEF vars, WaitKept
  <1> QED BY <1>1, <1>2, <1>3, <1>4, <1>5, <1>6, <1>7 DEF Next

(* A retry starts no earlier than its delay asks for, but for less than a    *)
(* second that the texts of instants may cost (sqlite.go:406).               *)
THEOREM RetryWaits == Spec => []WaitKept
  <1>1. WaitInv => WaitKept
    BY DEF WaitInv
  <1> QED BY <1>1, WaitInit, WaitNext, PTL DEF Spec
=============================================================================
