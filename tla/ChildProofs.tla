---------------------------- MODULE ChildProofs -----------------------------
(***************************************************************************)
(* Child: the ring's window and its polls; what is left of a process group *)
(* after a timeout or a kill; and that a stream loses no line and behaves  *)
(* as its ring, for every child, whatever it and its descendants do,       *)
(* however many lines there are and however long the pipe.                 *)
(***************************************************************************)
EXTENDS Child, WellFoundedInduction, TLAPS

-----------------------------------------------------------------------------
(* The ring. *)

(* A set of numbers that is not empty has a least one. *)
LEMMA LeastNatural ==
    ASSUME NEW S \in SUBSET Nat, S # {}
    PROVE  \E n \in S : \A m \in S : n <= m
  <1> DEFINE R == {p \in Nat \X Nat : p[1] < p[2]}
  <1>1. IsWellFoundedOn(R, Nat)
    BY NatLessThanWellFounded DEF OpToRel
  <1>2. PICK n \in S : \A m \in S : <<m, n>> \notin R
    <2> HIDE DEF R
    <2> QED BY <1>1, WFMin
  <1>3. ASSUME NEW m \in S, m < n PROVE FALSE
    BY <1>2, <1>3
  <1> QED BY <1>3

(* Slots wrap around once at most. *)
LEMMA Wrap ==
    ASSUME NEW s \in Slot, NEW i \in Slot
    PROVE  (s + i) % Cap = IF s + i < Cap THEN s + i ELSE s + i - Cap
  <1> USE RingAssumption DEF Slot
  <1>1. CASE s + i < Cap
    <2>1. s + i \in 0 .. (Cap - 1)
      BY <1>1
    <2> QED BY <1>1, <2>1
  <1>2. CASE s + i >= Cap
    <2>1. s + i - Cap \in 0 .. (Cap - 1)
      BY <1>2
    <2> QED BY <1>2, <2>1
  <1> QED BY <1>1, <1>2

(* A ring that is not full has not moved its start. *)
RingInv == RingTypeOK /\ Window /\ (len < Cap => start = 0)

(* The empty ring. *)
LEMMA RingInit == Init => RingInv
  BY RingAssumption DEF Init, RingInv, RingTypeOK, Window, Slot

(* Push while there is room: the new line goes to slot len. *)
LEMMA PushFills ==
    ASSUME RingInv, Push, len < Cap PROVE RingInv'
  <1> USE RingAssumption DEF RingInv, RingTypeOK
  <1>1. (start + len) % Cap = len
    <2>1. start \in Slot /\ len \in Slot /\ start = 0
      BY DEF Slot
    <2>2. (start + len) % Cap = IF start + len < Cap THEN start + len ELSE start + len - Cap
      BY <2>1, Wrap
    <2> QED BY <2>1, <2>2
  <1>2. /\ next' = next + 1 /\ len' = len + 1 /\ start' = 0
        /\ buf' = [buf EXCEPT ![len] = next + 1]
    BY <1>1 DEF Push
  <1>3. next = len
    BY DEF Window
  <1>4. RingTypeOK'
    BY <1>2 DEF Slot
  <1>5. Window'
    <2>1. ASSUME NEW i \in 0 .. (len' - 1) PROVE At(i)' = i + 1
      <3>1. i \in Slot /\ 0 \in Slot
        BY <1>2, <1>4 DEF Slot
      <3>2. (0 + i) % Cap = i
        <4>1. (0 + i) % Cap = IF 0 + i < Cap THEN 0 + i ELSE 0 + i - Cap
          BY <3>1, Wrap
        <4> QED BY <3>1, <4>1 DEF Slot
      <3>3. At(i)' = buf'[i]
        BY <1>2, <3>2 DEF At
      <3>4. CASE i = len
        BY <1>2, <1>3, <3>1, <3>3, <3>4
      <3>5. CASE i < len
        <4>1. At(i) = i + 1
          BY <1>3, <3>5, <3>1 DEF Window, Slot
        <4>2. At(i) = buf[i]
          BY <3>2 DEF At
        <4> QED BY <1>2, <3>1, <3>3, <3>5, <4>1, <4>2 DEF Slot
      <3> QED BY <1>2, <3>1, <3>4, <3>5 DEF Slot
    <2> QED BY <1>2, <1>3, <2>1 DEF Window
  <1> QED BY <1>2, <1>4, <1>5

(* Push when it is full: the new line replaces the oldest, and the start
   moves on to the next oldest. *)
LEMMA PushEvicts ==
    ASSUME RingInv, Push, len = Cap PROVE RingInv'
  <1> USE RingAssumption DEF RingInv, RingTypeOK
  <1>1. /\ next' = next + 1 /\ len' = Cap
        /\ start' = (start + 1) % Cap
        /\ buf' = [buf EXCEPT ![start] = next + 1]
    BY DEF Push
  <1>2. next >= Cap
    BY DEF Window
  <1>3. start' = IF start = Cap - 1 THEN 0 ELSE start + 1
    <2>1. CASE Cap = 1
      BY <1>1, <2>1 DEF Slot
    <2>2. CASE Cap > 1
      <3>1. 1 \in Slot /\ start \in Slot
        BY <2>2 DEF Slot
      <3>2. (start + 1) % Cap = IF start + 1 < Cap THEN start + 1 ELSE start + 1 - Cap
        BY <3>1, Wrap
      <3> QED BY <1>1, <3>1, <3>2 DEF Slot
    <2> QED BY <2>1, <2>2
  <1>4. RingTypeOK'
    BY <1>1, <1>3 DEF Slot
  <1>5. ASSUME NEW i \in 0 .. (Cap - 1) PROVE At(i)' = next + 1 - Cap + i + 1
    <2>1. start \in Slot /\ start' \in Slot /\ i \in Slot
      BY <1>4 DEF Slot
    <2> DEFINE k == (start' + i) % Cap
    <2>2. k = IF start' + i < Cap THEN start' + i ELSE start' + i - Cap
      BY <2>1, Wrap
    <2>3. At(i)' = buf'[k]
      BY DEF At
    <2>4. CASE i = Cap - 1
      <3>1. k = start
        BY <1>3, <2>1, <2>2, <2>4 DEF Slot
      <3> QED BY <1>1, <2>1, <2>3, <2>4, <3>1
    <2>5. CASE i < Cap - 1
      <3>1. i + 1 \in Slot
        BY <2>1, <2>5 DEF Slot
      <3>2. (start + (i + 1)) % Cap
               = IF start + (i + 1) < Cap THEN start + (i + 1) ELSE start + (i + 1) - Cap
        BY <2>1, <3>1, Wrap
      <3>3. k = (start + (i + 1)) % Cap
        BY <1>3, <2>1, <2>2, <2>5, <3>2 DEF Slot
      <3>4. k \in Slot /\ k # start
        <4>1. CASE start + (i + 1) < Cap
          <5>1. k = start + (i + 1)
            BY <3>2, <3>3, <4>1
          <5> HIDE DEF k
          <5> QED BY <2>1, <4>1, <5>1 DEF Slot
        <4>2. CASE ~(start + (i + 1) < Cap)
          <5>1. k = start + (i + 1) - Cap
            BY <3>2, <3>3, <4>2
          <5> HIDE DEF k
          <5> QED BY <2>1, <2>5, <4>2, <5>1 DEF Slot
        <4> QED BY <4>1, <4>2
      <3>5. At(i + 1) = next - Cap + (i + 1) + 1
        BY <3>1 DEF Window, Slot
      <3>6. At(i + 1) = buf[k]
        BY <3>3 DEF At
      <3>7. buf'[k] = buf[k]
        BY <1>1, <3>4
      <3> HIDE DEF k
      <3> QED BY <2>1, <2>3, <3>5, <3>6, <3>7 DEF Slot
    <2> QED BY <2>1, <2>4, <2>5 DEF Slot
  <1>6. Window'
    BY <1>1, <1>2, <1>5 DEF Window
  <1> QED BY <1>1, <1>4, <1>6

(* Nothing but Push touches the ring. *)
LEMMA RingStep == RingInv /\ [Next]_vars => RingInv'
  <1> SUFFICES ASSUME RingInv, [Next]_vars PROVE RingInv'
    OBVIOUS
  <1>1. CASE Push
    <2>1. len < Cap \/ len = Cap
      BY RingAssumption DEF RingInv, RingTypeOK
    <2> QED BY <1>1, <2>1, PushFills, PushEvicts
  <1>2. CASE UNCHANGED ring
    BY <1>2 DEF ring, RingInv, RingTypeOK, Window, At
  <1>3. ASSUME NEW r \in Reader, Poll(r) \/ Answer(r) \/ Again(r)
        PROVE  UNCHANGED ring
    BY <1>3 DEF Poll, Answer, Again
  <1> QED BY <1>1, <1>2, <1>3 DEF Next, vars

(* After any number of lines, wrapped around any number of times, the ring
   holds the last min(next, Cap) lines, oldest first. *)
THEOREM WindowAlways == Spec => []Window
  <1>1. RingInv => Window
    BY DEF RingInv
  <1> QED BY <1>1, RingInit, RingStep, PTL DEF Spec

-----------------------------------------------------------------------------
(* Polls. *)

(* The m numbers after b. *)
Numbers(b, m) == [j \in 1 .. m |-> b + j]

LEMMA OneMoreNumber ==
    ASSUME NEW b \in Nat, NEW m \in Nat
    PROVE  /\ Numbers(b, m) \in Seq(Nat) /\ Len(Numbers(b, m)) = m
           /\ Numbers(b, m + 1) = Append(Numbers(b, m), b + m + 1)
  BY DEF Numbers

(* The loop of Since over a ring in order: the lines after n are the last
   ones, without a gap. *)
LEMMA SinceCounts ==
    ASSUME RingInv, NEW n \in Nat
    PROVE  LET first == IF n < next - Cap THEN next - Cap ELSE n
           IN  /\ Since(n) = Numbers(first, next - first)
               /\ Since(n) \in Seq(Nat)
               /\ Len(Since(n)) <= len
  <1> DEFINE low == next - len
             base == IF n < low THEN low ELSE n
             size(i) == IF low + i < base THEN 0 ELSE low + i - base
             Taken(f, i) == IF i = 0 THEN <<>>
                            ELSE IF At(i - 1) > n THEN Append(f[i - 1], At(i - 1))
                            ELSE f[i - 1]
             g == [i \in 0 .. len |-> Numbers(base, size(i))]
  <1>1. /\ Cap \in Nat \ {0} /\ next \in Nat /\ len \in Nat
        /\ len = (IF next < Cap THEN next ELSE Cap)
        /\ \A i \in 1 .. len : At(i - 1) = low + i
    <2>1. Cap \in Nat \ {0} /\ next \in Nat /\ len \in 0 .. Cap
      BY RingAssumption DEF RingInv, RingTypeOK
    <2>2. ASSUME NEW i \in 1 .. len PROVE At(i - 1) = low + i
      <3>1. i - 1 \in 0 .. (len - 1)
        BY <2>1
      <3>2. At(i - 1) = next - len + (i - 1) + 1
        BY <3>1 DEF RingInv, Window
      <3> QED BY <2>1, <3>2
    <2> QED BY <2>1, <2>2 DEF RingInv, Window
  <1>2. low \in Nat /\ base \in Nat /\ low <= base /\ (base = low \/ base = n) /\ n <= base
    BY <1>1
  <1>3. \A i \in 0 .. len : size(i) \in Nat
    BY <1>1, <1>2
  <1>4. \A i \in 0 .. len : g[i] = Taken(g, i)
    <2> SUFFICES ASSUME NEW i \in 0 .. len PROVE Numbers(base, size(i)) = Taken(g, i)
      OBVIOUS
    <2> HIDE DEF base, low
    <2>1. CASE i = 0
      <3>1. size(i) = 0
        BY <1>2, <2>1
      <3>2. Numbers(base, 0) = <<>>
        BY DEF Numbers
      <3> QED BY <2>1, <3>1, <3>2
    <2>2. CASE i # 0 /\ At(i - 1) > n
      <3>1. i - 1 \in 0 .. len /\ At(i - 1) = low + i
        BY <1>1, <2>2
      <3>2. low + i > base
        BY <1>1, <1>2, <2>2, <3>1
      <3>3. size(i) = size(i - 1) + 1 /\ At(i - 1) = base + size(i - 1) + 1
        BY <1>1, <1>2, <3>1, <3>2
      <3>4. size(i - 1) \in Nat
        BY <1>3, <3>1
      <3> HIDE DEF size
      <3>5. Numbers(base, size(i)) = Append(Numbers(base, size(i - 1)), At(i - 1))
        BY <1>2, <3>3, <3>4, OneMoreNumber
      <3> QED BY <2>2, <3>1, <3>5
    <2>3. CASE i # 0 /\ ~(At(i - 1) > n)
      <3>1. i - 1 \in 0 .. len /\ At(i - 1) = low + i
        BY <1>1, <2>3
      <3>2. low + i <= base
        BY <1>1, <1>2, <2>3, <3>1
      <3>3. size(i) = 0 /\ size(i - 1) = 0
        BY <1>1, <1>2, <3>1, <3>2
      <3> HIDE DEF size
      <3> QED BY <2>3, <3>1, <3>3
    <2> QED BY <2>1, <2>2, <2>3
  <1>5. ASSUME NEW h, h = [i \in 0 .. len |-> Taken(h, i)] PROVE h = g
    <2> DEFINE S == {i \in 0 .. len : h[i] # g[i]}
    <2>1. CASE S # {}
      <3>1. PICK i \in S : \A j \in S : i <= j
        <4>1. S \in SUBSET Nat
          BY <1>1
        <4> HIDE DEF S
        <4> QED BY <2>1, <4>1, LeastNatural
      <3>2. i \in 0 .. len /\ h[i] = Taken(h, i) /\ g[i] = Taken(g, i)
        BY <1>4, <1>5
      <3>3. i # 0 => h[i - 1] = g[i - 1]
        <4>1. i # 0 => i - 1 \in 0 .. len /\ ~(i <= i - 1)
          BY <1>1, <3>2
        <4> HIDE DEF g
        <4> QED BY <3>1, <4>1
      <3>4. Taken(h, i) = Taken(g, i)
        <4> HIDE DEF g
        <4> QED BY <3>3
      <3> HIDE DEF g, Taken
      <3> QED BY <3>1, <3>2, <3>4
    <2>2. CASE S = {}
      <3>1. \A i \in 0 .. len : h[i] = g[i]
        BY <2>2
      <3>2. DOMAIN h = 0 .. len /\ h = [i \in 0 .. len |-> h[i]]
        BY <1>5
      <3> QED BY <3>1, <3>2
    <2> QED BY <2>1, <2>2
  <1>6. Since(n) = g[len]
    <2>1. g = [i \in 0 .. len |-> Taken(g, i)]
      BY <1>4
    <2> HIDE DEF g
    <2> QED BY <1>5, <2>1 DEF Since
  <1>7. Since(n) = Numbers(base, size(len)) /\ size(len) \in Nat
    BY <1>1, <1>3, <1>6
  <1>8. Since(n) \in Seq(Nat) /\ Len(Since(n)) = size(len)
    <2> HIDE DEF base, size
    <2> QED BY <1>2, <1>7, OneMoreNumber
  <1>9. size(len) <= len
    BY <1>1, <1>2
  <1>10. base = IF n < next - Cap THEN next - Cap ELSE n
    BY <1>1
  <1>11. Numbers(base, size(len)) = Numbers(base, next - base)
    <2>1. 1 .. size(len) = 1 .. (next - base)
      BY <1>1, <1>2
    <2> HIDE DEF base, size
    <2> QED BY <2>1 DEF Numbers
  <1> QED BY <1>7, <1>8, <1>9, <1>10, <1>11

(* What a poll got is what there was when it looked, and no more than the
   ring has held ever since, for the ring never shrinks. *)
Complete(p) ==
    LET first == IF p.from < p.at - Cap THEN p.at - Cap ELSE p.from
    IN  p.events = [i \in 1 .. (p.at - first) |-> first + i]

PollInv ==
    /\ ReadersTypeOK
    /\ \A r \in Reader : pc[r] # "since" => Complete(poll[r])
    /\ BufferedCovers
    /\ \A r \in Reader : pc[r] = "len" => Len(poll[r].events) <= len

LEMMA PollInit == Init => PollInv
  BY DEF Init, PollInv, ReadersTypeOK, BufferedCovers

LEMMA PollStep == RingInv /\ RingInv' /\ PollInv /\ [Next]_vars => PollInv'
  <1> SUFFICES ASSUME RingInv, RingInv', PollInv, [Next]_vars PROVE PollInv'
    OBVIOUS
  <1>1. len \in Nat /\ next \in Nat /\ len' \in Nat
    BY DEF RingInv, RingTypeOK
  <1>2. ASSUME UNCHANGED readers, len' >= len PROVE PollInv'
    <2>1. ASSUME NEW r \in Reader, pc[r] = "len" PROVE Len(poll[r].events) <= len'
      <3>1. Len(poll[r].events) \in Nat /\ Len(poll[r].events) <= len
        BY <2>1 DEF PollInv, ReadersTypeOK
      <3> QED BY <1>1, <1>2, <3>1
    <2> QED BY <1>2, <2>1 DEF readers, PollInv, ReadersTypeOK, BufferedCovers
  <1>3. CASE Push
    BY <1>1, <1>2, <1>3 DEF Push
  <1>4. ASSUME NEW r \in Reader, Poll(r) PROVE PollInv'
    <2> DEFINE n == since[r]
               first == IF n < next - Cap THEN next - Cap ELSE n
               p == [from |-> n, at |-> next, events |-> Since(n), buffered |-> 0]
    <2>1. n \in Nat
      BY DEF PollInv, ReadersTypeOK
    <2>2. Since(n) = Numbers(first, next - first) /\ Since(n) \in Seq(Nat) /\ Len(Since(n)) <= len
      BY <2>1, SinceCounts
    <2>3. /\ p \in [from : Nat, at : Nat, events : Seq(Nat), buffered : Nat]
          /\ Complete(p)
      BY <1>1, <2>1, <2>2 DEF Numbers, Complete
    <2>4. /\ poll' = [poll EXCEPT ![r] = p] /\ pc' = [pc EXCEPT ![r] = "len"]
          /\ UNCHANGED <<since, len>>
      BY <1>4 DEF Poll, ring
    <2>5. p.from = n /\ p.at = next /\ p.events = Since(n)
      OBVIOUS
    <2> HIDE DEF p
    <2>6. ReadersTypeOK'
      BY <2>3, <2>4 DEF PollInv, ReadersTypeOK
    <2>7. /\ poll'[r] = p /\ pc'[r] = "len"
          /\ \A q \in Reader : q # r => poll'[q] = poll[q] /\ pc'[q] = pc[q]
      BY <2>4 DEF PollInv, ReadersTypeOK
    <2>8. \A q \in Reader : pc'[q] # "since" => Complete(poll'[q])
      BY <2>3, <2>7 DEF PollInv
    <2>9. BufferedCovers' /\ \A q \in Reader : pc'[q] = "len" => Len(poll'[q].events) <= len'
      BY <2>2, <2>4, <2>5, <2>7 DEF PollInv, BufferedCovers
    <2> QED BY <2>6, <2>8, <2>9 DEF PollInv
  <1>5. ASSUME NEW r \in Reader, Answer(r) PROVE PollInv'
    <2>1. /\ poll' = [poll EXCEPT ![r].buffered = len] /\ pc' = [pc EXCEPT ![r] = "done"]
          /\ UNCHANGED <<since, len>> /\ pc[r] = "len"
      BY <1>5 DEF Answer, ring
    <2>2. /\ poll'[r] = [poll[r] EXCEPT !.buffered = len] /\ pc'[r] = "done"
          /\ \A q \in Reader : q # r => poll'[q] = poll[q] /\ pc'[q] = pc[q]
      BY <2>1 DEF PollInv, ReadersTypeOK
    <2>3. /\ poll'[r] \in [from : Nat, at : Nat, events : Seq(Nat), buffered : Nat]
          /\ poll'[r].from = poll[r].from /\ poll'[r].at = poll[r].at
          /\ poll'[r].events = poll[r].events /\ poll'[r].buffered = len
      BY <1>1, <2>2 DEF PollInv, ReadersTypeOK
    <2>4. ReadersTypeOK'
      BY <2>1, <2>2, <2>3 DEF PollInv, ReadersTypeOK
    <2>5. \A q \in Reader : pc'[q] # "since" => Complete(poll'[q])
      <3>1. Complete(poll[r])
        BY <2>1 DEF PollInv
      <3>2. Complete(poll'[r])
        BY <2>3, <3>1 DEF Complete
      <3> QED BY <2>2, <3>2 DEF PollInv
    <2>6. BufferedCovers' /\ \A q \in Reader : pc'[q] = "len" => Len(poll'[q].events) <= len'
      BY <2>1, <2>2, <2>3 DEF PollInv, BufferedCovers
    <2> QED BY <2>4, <2>5, <2>6 DEF PollInv
  <1>6. ASSUME NEW r \in Reader, Again(r) PROVE PollInv'
    <2>1. /\ UNCHANGED <<poll, len>> /\ pc' = [pc EXCEPT ![r] = "since"]
      BY <1>6 DEF Again, ring
    <2>2. since' \in [Reader -> Nat]
      <3> DEFINE got == poll[r].events
      <3>1. got \in Seq(Nat) /\ (got # <<>> => got[Len(got)] \in Nat)
        BY DEF PollInv, ReadersTypeOK
      <3> QED BY <1>6, <3>1 DEF Again, PollInv, ReadersTypeOK
    <2>3. ReadersTypeOK'
      BY <2>1, <2>2 DEF PollInv, ReadersTypeOK
    <2>4. pc'[r] = "since" /\ \A q \in Reader : q # r => pc'[q] = pc[q]
      BY <2>1 DEF PollInv, ReadersTypeOK
    <2> QED BY <2>1, <2>3, <2>4 DEF PollInv, BufferedCovers
  <1>7. CASE UNCHANGED vars
    BY <1>1, <1>2, <1>7 DEF vars, ring, readers
  <1> QED BY <1>3, <1>4, <1>5, <1>6, <1>7 DEF Next

(* Whatever number a client names, and whatever the child writes between the
   poll's two looks at the ring: ring.go Since and Len. *)
THEOREM PollsAlwaysFaithful == Spec => [](PollComplete /\ BufferedCovers)
  <1>1. PollInv => PollComplete /\ BufferedCovers
    BY DEF PollInv, PollComplete, Complete
  <1> QED BY <1>1, RingInit, RingStep, PollInit, PollStep, PTL DEF Spec

-----------------------------------------------------------------------------
(* execx.Run *)

NoneGrouped == child # "running" /\ \A k \in kin : ~k.grouped

(* A result stands from Inspect on, and only then; a process that was never
   started has no descendants. *)
RunInv ==
    /\ result # "none" => at \in {"stop", "cancel", "returned"}
    /\ child = "none" => kin = {}
    /\ result = "timeout" => NoneGrouped

LEMMA RunInit == ChildInit => RunInv
  BY DEF ChildInit, RunInv

(* A group without members gets none: only members fork members. *)
LEMMA NoNewMembers ==
    ASSUME NoneGrouped, Live
    PROVE  NoneGrouped'
  BY DEF NoneGrouped, Live, ChildEnds, Forks, KinEnds

LEMMA GroupKilled == ASSUME KillGroup PROVE NoneGrouped'
  BY DEF KillGroup, ChildKilled, NoneGrouped

(* Every step of the goroutine that runs Run. *)
LEMMA RunSteps == ASSUME RunInv, Run PROVE RunInv'
  <1> USE DEF RunInv, NoneGrouped, RunStep, tree
  <1>1. CASE Check
    BY <1>1 DEF Check
  <1>2. CASE Fork
    BY <1>2 DEF Fork
  <1>3. CASE ForkFails
    BY <1>3 DEF ForkFails
  <1>4. CASE Wait
    BY <1>4 DEF Wait, Reap
  <1>5. CASE Copied
    BY <1>5 DEF Copied
  <1>6. CASE Inspect
    <2>1. at' = "stop"
      BY <1>6 DEF Inspect
    <2>2. CASE ctx # "deadline"
      <3>1. result' # "timeout" /\ UNCHANGED tree
        BY <1>6, <2>2 DEF Inspect, Outcome
      <3> QED BY <2>1, <3>1
    <2>3. CASE ctx = "deadline" /\ child = "none"
      <3>1. UNCHANGED tree
        BY <1>6, <2>3 DEF Inspect, killProcessGroup
      <3> QED BY <2>1, <2>3, <3>1
    <2>4. CASE ctx = "deadline" /\ child # "none"
      <3>1. KillGroup
        BY <1>6, <2>4 DEF Inspect, killProcessGroup
      <3>2. NoneGrouped' /\ child' # "none"
        BY <2>4, <3>1, GroupKilled DEF KillGroup, ChildKilled
      <3> QED BY <2>1, <3>2
    <2> QED BY <2>2, <2>3, <2>4
  <1>7. CASE Stop
    BY <1>7 DEF Stop
  <1>8. CASE Cancel
    BY <1>8 DEF Cancel
  <1> QED BY <1>1, <1>2, <1>3, <1>4, <1>5, <1>6, <1>7, <1>8 DEF Run

LEMMA RunKept == RunInv /\ [ChildNext]_childVars => RunInv'
  <1> SUFFICES ASSUME RunInv, [ChildNext]_childVars PROVE RunInv'
    OBVIOUS
  <1>1. ASSUME UNCHANGED tree, UNCHANGED run PROVE RunInv'
    BY <1>1 DEF RunInv, NoneGrouped, tree, run
  <1>2. CASE Live
    <2>1. UNCHANGED run
      BY <1>2 DEF Live
    <2>2. child = "none" => child' = "none" /\ kin' = {}
      BY <1>2 DEF RunInv, Live, ChildEnds, Forks, KinEnds
    <2>3. child' = "none" => child = "none"
      BY <1>2 DEF Live, ChildEnds, Forks, KinEnds
    <2> QED BY <1>2, <2>1, <2>2, <2>3, NoNewMembers DEF RunInv, run
  <1>3. CASE CmdKill
    <2>1. UNCHANGED run /\ child = "running" /\ child' = "zombie"
      BY <1>3 DEF CmdKill, KillChild, ChildKilled
    <2> QED BY <2>1 DEF RunInv, NoneGrouped, run
  <1>4. CASE WatcherKills
    <2>1. UNCHANGED <<at, result>> /\ killProcessGroup
      BY <1>4 DEF WatcherKills
    <2>2. CASE child = "none"
      BY <2>1, <2>2 DEF killProcessGroup, RunInv, NoneGrouped, tree
    <2>3. CASE child # "none"
      <3>1. NoneGrouped' /\ child' # "none"
        BY <2>1, <2>3, GroupKilled DEF killProcessGroup, KillGroup, ChildKilled
      <3> QED BY <2>1, <3>1 DEF RunInv
    <2> QED BY <2>2, <2>3
  <1>5. CASE WatcherStops
    BY <1>5 DEF WatcherStops, RunInv, NoneGrouped, tree
  <1>6. CASE ReaderDone
    BY <1>6 DEF ReaderDone, Reap, RunInv, NoneGrouped, run
  <1>7. CASE KillSignals
    <2>1. UNCHANGED run
      BY <1>7 DEF KillSignals
    <2>2. CASE child = "reaped"
      BY <1>1, <1>7, <2>1, <2>2 DEF KillSignals
    <2>3. CASE child # "reaped"
      <3>1. KillGroup /\ NoneGrouped'
        BY <1>7, <2>3, GroupKilled DEF KillSignals
      <3>2. child = "none" => kin' = {}
        BY <3>1 DEF KillGroup, RunInv
      <3> QED BY <2>1, <3>1, <3>2 DEF RunInv, KillGroup, ChildKilled, run
    <2> QED BY <2>2, <2>3
  <1>8. CASE WriteLine \/ WriteLong \/ Deadline \/ CallerCancels
    BY <1>1, <1>8 DEF WriteLine, WriteLong, Deadline, CallerCancels
  <1>9. CASE Scan \/ ScanFails \/ ScanEnds \/ KillCancels \/ ClientPolls
    BY <1>1, <1>9 DEF Scan, ScanFails, ScanEnds, KillCancels, ClientPolls
  <1>10. CASE Run
    BY <1>10, RunSteps
  <1>11. CASE UNCHANGED childVars
    BY <1>1, <1>11 DEF childVars
  <1> QED
    BY <1>2, <1>3, <1>4, <1>5, <1>6, <1>7, <1>8, <1>9, <1>10, <1>11
       DEF ChildNext, Watcher, ReadLoop

(* When execx.Run reports a timeout, and ever after, the child's group is
   empty: exec.go:72-80. *)
THEOREM TimeoutKillsGroup == ChildSpec => []TimedOutGroupDead
  <1>1. RunInv => TimedOutGroupDead
    BY DEF RunInv, NoneGrouped, TimedOutGroupDead, GroupLives
  <1> QED BY <1>1, RunInit, RunKept, PTL DEF ChildSpec

-----------------------------------------------------------------------------
(* A stream *)

(* Lines are in the ring or in the pipe; a reader that saw the end of the
   pipe has emptied it, and nobody is left to write; only the reader reaps;
   after Kill the group is gone, for Kill signals it unless it finds a child
   that is reaped, whose reader had seen the end. *)
StreamInv ==
    /\ next \in Nat /\ unread \in Nat /\ written \in Nat
    /\ next + unread = written
    /\ follower \in {"run", "stream"}
    /\ follower = "run" => reader = "scan" /\ killer = "idle"
    /\ follower = "stream" => child # "none"
    /\ follower = "stream" /\ child = "reaped" => reader = "done"
    /\ reader # "scan" /\ ~scanErr => unread = 0 /\ ~PipeHeld
    /\ killer = "gone" /\ ~scanErr =>
           child # "running" /\ ~ \E k \in kin : k.grouped /\ k.holds

LEMMA StreamInit == ChildInit => StreamInv
  BY DEF ChildInit, Init, StreamInv, PipeHeld

(* A pipe without a holder finds none, nor a group without one. *)
LEMMA NoNewHolders ==
    ASSUME Live
    PROVE  /\ ~PipeHeld => ~PipeHeld'
           /\ child # "running" => child' # "running"
           /\ child # "running" /\ ~(\E k \in kin : k.grouped /\ k.holds) =>
                  ~(\E k \in kin' : k.grouped /\ k.holds)
           /\ child' = "none" => child = "none"
           /\ child' = "reaped" => child = "reaped"
  <1>1. CASE ChildEnds
    BY <1>1 DEF ChildEnds, PipeHeld
  <1>2. ASSUME NEW k \in Kin, Forks(k)
        PROVE  /\ ~PipeHeld => ~PipeHeld'
               /\ child # "running" /\ ~(\E j \in kin : j.grouped /\ j.holds) =>
                      ~(\E j \in kin' : j.grouped /\ j.holds)
               /\ child' = child
    BY <1>2 DEF Forks, PipeHeld
  <1>3. ASSUME NEW k \in Kin, KinEnds(k)
        PROVE  kin' \subseteq kin /\ child' = child
    BY <1>3 DEF KinEnds
  <1> QED BY <1>1, <1>2, <1>3 DEF Live, PipeHeld

(* A step that kills members of the tree and does nothing else. *)
LEMMA StreamKilled ==
    ASSUME StreamInv, ChildKilled, kin' \subseteq kin,
           UNCHANGED <<follower, reader, scanErr, killer, next, unread, written>>
    PROVE  StreamInv'
  BY DEF StreamInv, ChildKilled, PipeHeld

(* The reader: what it takes out of the pipe goes into the ring. *)
LEMMA ReaderSteps == ASSUME StreamInv, ReadLoop PROVE StreamInv'
  <1> USE DEF StreamInv, PipeHeld
  <1>1. CASE Scan
    BY <1>1 DEF Scan, Push, tree, loop, context
  <1>2. CASE ScanFails
    BY <1>2 DEF ScanFails, tree, pipe, ring, context
  <1>3. CASE ScanEnds
    BY <1>3 DEF ScanEnds, tree, pipe, ring, context
  <1>4. CASE ReaderDone
    BY <1>4 DEF ReaderDone, Reap, pipe, ring, context
  <1> QED BY <1>1, <1>2, <1>3, <1>4 DEF ReadLoop

(* Run has its follower, and its streams none. *)
LEMMA RunIsNoStream == ASSUME StreamInv, Run PROVE StreamInv'
  <1>1. follower = "run" /\ UNCHANGED <<context, stream>>
    BY DEF Run, RunStep, Check, Fork, ForkFails, Wait, Copied, Inspect, Stop, Cancel
  <1> QED BY <1>1 DEF StreamInv, context, stream, pipe, loop, ring

LEMMA StreamKept == StreamInv /\ [ChildNext]_childVars => StreamInv'
  <1> SUFFICES ASSUME StreamInv, [ChildNext]_childVars PROVE StreamInv'
    OBVIOUS
  <1>1. ASSUME UNCHANGED <<tree, context, stream>> PROVE StreamInv'
    BY <1>1 DEF StreamInv, PipeHeld, tree, context, stream, pipe, loop, ring
  <1>2. CASE Live
    <2>1. UNCHANGED <<context, stream>>
      BY <1>2 DEF Live
    <2> QED BY <1>2, <2>1, NoNewHolders DEF StreamInv, context, stream, pipe, loop, ring
  <1>3. CASE WriteLine
    BY <1>3 DEF WriteLine, StreamInv, PipeHeld, tree, context, loop, ring
  <1>4. CASE WriteLong
    BY <1>4 DEF WriteLong, StreamInv, PipeHeld, tree, context, loop, ring
  <1>5. CASE Deadline \/ CallerCancels
    BY <1>1, <1>5 DEF Deadline, CallerCancels
  <1>6. CASE CmdKill
    <2>1. ChildKilled /\ kin' = kin /\ UNCHANGED <<context, stream>>
      BY <1>6 DEF CmdKill, KillChild
    <2> QED BY <2>1, StreamKilled DEF context, stream, pipe, loop, ring
  <1>7. CASE Run
    BY <1>7, RunIsNoStream
  <1>8. CASE WatcherKills
    <2>1. UNCHANGED <<context, stream>> /\ killProcessGroup
      BY <1>8 DEF WatcherKills
    <2>2. CASE child = "none"
      BY <1>1, <2>1, <2>2 DEF killProcessGroup
    <2>3. CASE child # "none"
      BY <2>1, <2>3, StreamKilled
         DEF killProcessGroup, KillGroup, context, stream, pipe, loop, ring
    <2> QED BY <2>2, <2>3
  <1>9. CASE WatcherStops
    BY <1>1, <1>9 DEF WatcherStops
  <1>10. CASE ReadLoop
    BY <1>10, ReaderSteps
  <1>11. CASE KillCancels
    BY <1>11 DEF KillCancels, StreamInv, PipeHeld, tree, context, pipe, loop, ring
  <1>12. CASE KillSignals
    <2>1. /\ follower = "stream" /\ killer' = "gone"
          /\ UNCHANGED <<follower, reader, scanErr, next, unread, written>>
      BY <1>12 DEF KillSignals, context, pipe, loop, ring
    <2>2. CASE child = "reaped"
      <3>1. UNCHANGED tree
        BY <1>12, <2>2 DEF KillSignals
      <3> QED BY <2>1, <2>2, <3>1 DEF StreamInv, PipeHeld, tree
    <2>3. CASE child # "reaped"
      <3>1. KillGroup
        BY <1>12, <2>3 DEF KillSignals
      <3> QED BY <2>1, <2>3, <3>1 DEF StreamInv, PipeHeld, KillGroup, ChildKilled
    <2> QED BY <2>2, <2>3
  <1>13. CASE ClientPolls
    <2>1. UNCHANGED <<tree, context, pipe, loop, killer>>
      BY <1>13 DEF ClientPolls
    <2>2. UNCHANGED next
      BY <1>13 DEF ClientPolls, Poll, Answer, Again, ring
    <2> QED BY <2>1, <2>2 DEF StreamInv, PipeHeld, tree, context, pipe, loop
  <1>14. CASE UNCHANGED childVars
    BY <1>1, <1>14 DEF childVars
  <1> QED
    BY <1>2, <1>3, <1>4, <1>5, <1>6, <1>7, <1>8, <1>9, <1>10, <1>11, <1>12, <1>13, <1>14
       DEF ChildNext, Watcher

(* Whatever a stream's child or its descendants wrote is in the ring, or has
   been, once the reader saw the end of the pipe: registry.go:199-215. *)
THEOREM EveryLineArrives == ChildSpec => []NoLineLost
  <1>1. StreamInv => NoLineLost
    BY DEF StreamInv, NoLineLost
  <1> QED BY <1>1, StreamInit, StreamKept, PTL DEF ChildSpec

(* After Kill no member of the group can write to the stream any more, in
   whatever state Kill found the child: registry.go:249-266. *)
THEOREM KilledStreamIsSilent == ChildSpec => []KillSilences
  <1>1. StreamInv => KillSilences
    BY DEF StreamInv, KillSilences
  <1> QED BY <1>1, StreamInit, StreamKept, PTL DEF ChildSpec

(* A stream's reader, child, killer and clients do to the ring what Ring
   says, and nothing else. *)
LEMMA RingSteps == [ChildNext]_childVars => [Next]_vars
  <1> SUFFICES ASSUME [ChildNext]_childVars PROVE Next \/ UNCHANGED <<ring, readers>>
    BY DEF vars
  <1>1. CASE Live \/ WriteLine \/ WriteLong \/ Deadline \/ CallerCancels \/ CmdKill
    BY <1>1 DEF Live, WriteLine, WriteLong, Deadline, CallerCancels, CmdKill, stream
  <1>2. CASE Run
    BY <1>2 DEF Run, RunStep, Check, Fork, ForkFails, Wait, Copied, Inspect, Stop,
                Cancel, stream
  <1>3. CASE Watcher
    BY <1>3 DEF Watcher, WatcherKills, WatcherStops, stream
  <1>4. CASE ReadLoop
    BY <1>4 DEF ReadLoop, Scan, ScanFails, ScanEnds, ReaderDone, Next
  <1>5. CASE KillCancels \/ KillSignals
    BY <1>5 DEF KillCancels, KillSignals
  <1>6. CASE ClientPolls
    BY <1>6 DEF ClientPolls, Next
  <1>7. CASE UNCHANGED childVars
    BY <1>7 DEF childVars, stream
  <1> QED BY <1>1, <1>2, <1>3, <1>4, <1>5, <1>6, <1>7 DEF ChildNext

(* The ring of a stream behaves as Ring promises. *)
THEOREM StreamHasRing == ChildSpec => Spec
  <1>1. ChildInit => Init
    BY DEF ChildInit
  <1> QED BY <1>1, RingSteps, PTL DEF ChildSpec, Spec

(* The ring keeps its window also when the reader, the child and Kill go
   their own ways. *)
THEOREM WindowInStream == ChildSpec => []Window
  BY StreamHasRing, WindowAlways, PTL

(* Clients that poll a running stream miss nothing that is buffered, and no
   answer contradicts itself: server.go handleGetStream. *)
THEOREM PollsInStream == ChildSpec => []PollsFaithful
  <1>1. PollComplete /\ BufferedCovers => PollsFaithful
    BY DEF PollsFaithful
  <1> QED BY <1>1, StreamHasRing, PollsAlwaysFaithful, PTL
=============================================================================
