-------------------------- MODULE DispatcherProofs --------------------------
(***************************************************************************)
(* Theorems about Dispatcher, for every number of handlers, verbs, keys,   *)
(* tasks, crashes, shutdowns and store faults, inline execution or not.    *)
(***************************************************************************)
EXTENDS Dispatcher, FiniteSetTheorems, TLAPS

-----------------------------------------------------------------------------
(* Types.                                                                  *)

(***************************************************************************)
(* TypeOK is not inductive: that attempt[cur[a]] + 1 is a number rests on  *)
(* the actor having a task in hand by then, which depends on its step.     *)
(***************************************************************************)
InHand ==
    \A a \in Actor :
        /\ pc[a] \notin {"idle", "peek", "create"} => cur[a] \in TaskId
        /\ pc[a] \in {"record", "verdict", "settle"} => out[a] \in Outcome
        /\ pc[a] \in {"peek", "create", "bind", "supersede", "refer"} => hreq[a] \in Request

TypeInv == TypeOK /\ InHand

(* The breaker's methods return breakers. *)
LEMMA BreakerTypes ==
    ASSUME NEW b \in BreakerType
    PROVE  /\ MaybeTransition(b) \in BreakerType
           /\ AfterAllow(b) \in BreakerType
           /\ AfterSuccess(b) \in BreakerType
           /\ AfterFailure(b) \in BreakerType
           /\ Cool(b) \in BreakerType
           /\ NewBreaker \in BreakerType
<1> USE TripAssumption DEF BreakerType, BreakerState
<1>0. NewBreaker \in BreakerType
  BY DEF NewBreaker
<1>1. MaybeTransition(b) \in BreakerType
  BY DEF MaybeTransition
<1>2. ASSUME NEW c \in BreakerType
      PROVE  [c EXCEPT !.trial = TRUE, !.lapsed = FALSE] \in BreakerType
  OBVIOUS
<1>3. AfterAllow(b) \in BreakerType
  <2>. DEFINE c == MaybeTransition(b)
  <2>. c \in BreakerType  BY <1>1
  <2>. HIDE DEF c
  <2>. QED  BY <1>2 DEF AfterAllow, c
<1>4. AfterSuccess(b) \in BreakerType
  BY <1>0 DEF AfterSuccess
<1>5. ASSUME NEW n \in Nat PROVE Opened(n) \in BreakerType
  BY DEF Opened
<1>6. AfterFailure(b) \in BreakerType
  <2>. CASE b.state = "half_open" \/ b.failures + 1 >= Trip
    BY <1>5 DEF AfterFailure
  <2>. CASE ~(b.state = "half_open" \/ b.failures + 1 >= Trip)
    <3>. AfterFailure(b) = [b EXCEPT !.failures = b.failures + 1]  BY DEF AfterFailure
    <3>. QED  OBVIOUS
  <2>. QED  OBVIOUS
<1>7. Cool(b) \in BreakerType
  BY DEF Cool
<1>. QED  BY <1>1, <1>3, <1>4, <1>6, <1>7, <1>0

(* The store's row operations keep the tables well typed. *)
LEMMA LoggedType ==
    ASSUME NEW r \in [last : AuditState, execs : Nat, closed : Nat], NEW ev \in AuditState
    PROVE  Logged(r, ev) \in [last : AuditState, execs : Nat, closed : Nat]
BY DEF Logged

(* A row and its audit row: the one write most actions make. *)
LEMMA UpdateAndAuditTypes ==
    ASSUME TablesTypeOK, NEW t \in TaskId, NEW s \in TaskState, NEW n \in Nat,
           NEW later \in BOOLEAN, NEW ev \in AuditState,
           UpdateAndAudit(t, s, n, later, ev)
    PROVE  TablesTypeOK'
<1>1. Logged(trail[t], ev) \in [last : AuditState, execs : Nat, closed : Nat]
  BY LoggedType DEF TablesTypeOK
<1>. QED  BY <1>1 DEF TablesTypeOK, UpdateAndAudit

(* A row alone, as the claim and resume write it. *)
LEMMA UpdateTypes ==
    ASSUME TablesTypeOK, NEW t \in TaskId, NEW s \in TaskState, Update(t, s)
    PROVE  TablesTypeOK'
BY DEF TablesTypeOK, Update

(* A write that fails writes nothing. *)
LEMMA AttemptTypes ==
    ASSUME TablesTypeOK, UNCHANGED tables
    PROVE  TablesTypeOK'
BY DEF TablesTypeOK, tables

(* An attempts row more, or none. *)
LEMMA RecordAttemptTypes ==
    ASSUME TablesTypeOK, NEW t \in TaskId, NEW n \in Nat, NEW o \in Outcome,
           RecordAttempt(t, n, o)
    PROVE  TablesTypeOK'
<1>. DEFINE Rows == TaskId \X Nat \X Outcome
<1>1. <<t, n, o>> \in Rows /\ attempts \in SUBSET Rows
  BY DEF TablesTypeOK
<1>2. attempts' \subseteq attempts \cup {<<t, n, o>>}
  BY DEF RecordAttempt
<1>. HIDE DEF Rows
<1>3. attempts' \in SUBSET Rows
  BY <1>1, <1>2
<1>. QED  BY <1>3 DEF RecordAttempt, TablesTypeOK, Rows

(* The tables as a first boot finds them, and no goroutine. *)
LEMMA TypeInit == Init => TypeInv
<1>. SUFFICES ASSUME Init PROVE TypeInv
  OBVIOUS
<1>. USE DEF Init
<1>1. TablesTypeOK
  BY StoreAssumption DEF TablesInit, TablesTypeOK, TaskState, Active, Terminal, AuditState
<1>2. breakers \in [Verb -> BreakerType]
  BY BreakerTypes, TripAssumption DEF NewBreaker, BreakerType, BreakerState
<1>3. InHand
  BY DEF InHand, Actor
<1>. QED
  BY <1>1, <1>2, <1>3 DEF TypeInv, TypeOK, Phase, Step, Actor

(* One step of any actor: the parts of TypeOK it writes stay in range, and
   whoever reaches a step that writes a row has one in hand. *)
LEMMA TypeStep == TypeInv /\ [Next]_vars => TypeInv'
<1>. SUFFICES ASSUME TypeInv, [Next]_vars PROVE TypeInv'
  OBVIOUS
<1>. USE DEF TypeInv, TypeOK, InHand, Actor, Step, HandlerSteps, ExecSteps, Phase,
         daemon, actors, ghosts, bounds, Goto, Done, Return, Fault
<1>1. ASSUME NEW h \in Handler, Post(h)  PROVE TypeInv'
  <2>1. TablesTypeOK'
    BY <1>1, AttemptTypes DEF Post
  <2>. QED  BY <1>1, <2>1 DEF Post
<1>2. ASSUME NEW h \in Handler, Peek(h)  PROVE TypeInv'
  <2>1. TablesTypeOK'
    BY <1>2, AttemptTypes DEF Peek
  <2>. QED  BY <1>2, <2>1, BreakerTypes, ZenonT(60) DEF Peek
<1>3. ASSUME NEW h \in Handler, Create(h)  PROVE TypeInv'
  <2>1. TablesTypeOK'
    BY <1>3, LoggedType
       DEF Create, CreateAndAuditLimited, TablesTypeOK, TaskState, Active, Terminal, AuditState
  <2>. QED  BY <1>3, <2>1 DEF Create
<1>4. ASSUME NEW h \in Handler, CreateRefused(h)  PROVE TypeInv'
  <2>1. TablesTypeOK'
    BY <1>4, AttemptTypes DEF CreateRefused
  <2>. QED  BY <1>4, <2>1 DEF CreateRefused
<1>5. ASSUME NEW h \in Handler, Bind(h)  PROVE TypeInv'
  <2>1. TablesTypeOK'
    BY <1>5, AttemptTypes DEF Bind, SaveIdempotency, TablesTypeOK
  <2>. QED  BY <1>5, <2>1 DEF Bind
<1>6. ASSUME NEW h \in Handler, Supersede(h)  PROVE TypeInv'
  <2>0. cur[h] \in TaskId /\ attempt[cur[h]] \in Nat /\ waiting[cur[h]] \in BOOLEAN
        /\ state[cur[h]] \in TaskState
    BY <1>6 DEF Supersede, TablesTypeOK
  <2>3. hreq[h] \in Request /\ idem[hreq[h].key] \in TaskId
    BY <1>6 DEF Supersede, Bound, TablesTypeOK
  <2>1. TablesTypeOK'
    BY <1>6, <2>0, UpdateAndAuditTypes, AttemptTypes
       DEF Supersede, Attempt, TaskState, Active, Terminal, AuditState
  <2>2. faults' \in Nat  BY <1>6 DEF Supersede, Attempt
  <2>. QED  BY <1>6, <2>1, <2>2, <2>0, <2>3 DEF Supersede
<1>7. ASSUME NEW h \in Handler, CarryOn(h)  PROVE TypeInv'
  <2>1. TablesTypeOK'
    BY <1>7, AttemptTypes DEF CarryOn
  <2>. QED  BY <1>7, <2>1 DEF CarryOn
<1>8. ASSUME NEW h \in Handler, Admit(h)  PROVE TypeInv'
  <2>0. cur[h] \in TaskId /\ attempt[cur[h]] \in Nat /\ waiting[cur[h]] \in BOOLEAN
        /\ state[cur[h]] \in TaskState
    BY <1>8 DEF Admit, TablesTypeOK
  <2>1. TablesTypeOK'
    BY <1>8, <2>0, UpdateAndAuditTypes, AttemptTypes
       DEF Admit, Attempt, TaskState, Active, Terminal, AuditState
  <2>2. faults' \in Nat  BY <1>8 DEF Admit, Attempt
  <2>. QED  BY <1>8, <2>1, <2>2, <2>0 DEF Admit
<1>9. ASSUME NEW h \in Handler, Handoff(h)  PROVE TypeInv'
  <2>0. cur[h] \in TaskId /\ attempt[cur[h]] \in Nat /\ waiting[cur[h]] \in BOOLEAN
        /\ state[cur[h]] \in TaskState
    BY <1>9 DEF Handoff, TablesTypeOK
  <2>1. TablesTypeOK'
    BY <1>9, <2>0, UpdateAndAuditTypes, AttemptTypes
       DEF Handoff, Attempt, TaskState, Active, Terminal, AuditState
  <2>2. faults' \in Nat  BY <1>9 DEF Handoff, Attempt
  <2>. QED  BY <1>9, <2>1, <2>2, <2>0 DEF Handoff
<1>10. ASSUME NEW h \in Handler, Reply(h)  PROVE TypeInv'
  <2>1. TablesTypeOK'
    BY <1>10, AttemptTypes DEF Reply
  <2>. QED  BY <1>10, <2>1 DEF Reply
<1>11. ASSUME NEW h \in Handler, ClientGone(h)  PROVE TypeInv'
  <2>1. TablesTypeOK'
    BY <1>11, AttemptTypes DEF ClientGone
  <2>. QED  BY <1>11, <2>1 DEF ClientGone
<1>12. ASSUME NEW r \in Request, Replay(r)  PROVE TypeInv'
  <2>3. r \in Request /\ idem[r.key] \in TaskId
    BY <1>12 DEF Replay, Bound, TablesTypeOK
  <2>1. TablesTypeOK'
    BY <1>12, AttemptTypes DEF Replay
  <2>. QED  BY <1>12, <2>1, <2>3 DEF Replay
<1>13. ASSUME Claim  PROVE TypeInv'
  <2>1. TablesTypeOK'
    BY <1>13, UpdateTypes DEF Claim, ClaimDue, TaskState, Active
  <2>. QED  BY <1>13, <2>1 DEF Claim
<1>14. ASSUME ClaimLost  PROVE TypeInv'
  <2>1. TablesTypeOK'
    BY <1>14, UpdateTypes DEF ClaimLost, ClaimDue, TaskState, Active
  <2>. QED  BY <1>14, <2>1 DEF ClaimLost
<1>15. ASSUME Unknown  PROVE TypeInv'
  <2>0. cur[Worker] \in TaskId /\ attempt[cur[Worker]] \in Nat /\ waiting[cur[Worker]] \in BOOLEAN
        /\ state[cur[Worker]] \in TaskState
    BY <1>15 DEF Unknown, TablesTypeOK
  <2>1. TablesTypeOK'
    BY <1>15, <2>0, UpdateAndAuditTypes, AttemptTypes
       DEF Unknown, Attempt, TaskState, Active, Terminal, AuditState
  <2>2. faults' \in Nat  BY <1>15 DEF Unknown, Attempt
  <2>. QED  BY <1>15, <2>1, <2>2, <2>0 DEF Unknown
<1>16. ASSUME Gate  PROVE TypeInv'
  <2>1. TablesTypeOK'
    BY <1>16, AttemptTypes DEF Gate
  <2>. QED  BY <1>16, <2>1, BreakerTypes DEF Gate
<1>17. ASSUME Requeue  PROVE TypeInv'
  <2>0. cur[Worker] \in TaskId /\ attempt[cur[Worker]] \in Nat /\ waiting[cur[Worker]] \in BOOLEAN
        /\ state[cur[Worker]] \in TaskState
    BY <1>17 DEF Requeue, TablesTypeOK
  <2>1. TablesTypeOK'
    BY <1>17, <2>0, UpdateAndAuditTypes, AttemptTypes
       DEF Requeue, Attempt, TaskState, Active, Terminal, AuditState
  <2>4. faults' = faults \/ faults' = faults + 1  BY <1>17, Zenon DEF Requeue, Attempt
  <2>2. faults' \in Nat  BY <2>4
  <2>. QED  BY <1>17, <2>1, <2>2, <2>0 DEF Requeue
<1>18. ASSUME NEW a \in Actor, Begin(a)  PROVE TypeInv'
  <2>0. cur[a] \in TaskId /\ attempt[cur[a]] \in Nat /\ waiting[cur[a]] \in BOOLEAN
        /\ state[cur[a]] \in TaskState
    BY <1>18 DEF Begin, TablesTypeOK
  <2>1. TablesTypeOK'
    BY <1>18, <2>0, UpdateAndAuditTypes, AttemptTypes
       DEF Begin, Attempt, TaskState, Active, Terminal, AuditState
  <2>2. faults' \in Nat  BY <1>18 DEF Begin, Attempt
  <2>. QED  BY <1>18, <2>1, <2>2, <2>0 DEF Begin
<1>19. ASSUME NEW a \in Actor, Spawn(a)  PROVE TypeInv'
  <2>3. cur[a] \in TaskId /\ runs[cur[a]] + 1 \in Nat
    BY <1>19 DEF Spawn
  <2>1. TablesTypeOK'
    BY <1>19, AttemptTypes DEF Spawn
  <2>4. CASE Canceled(a)
    BY <1>19, <2>1, <2>3, <2>4 DEF Spawn, Outcome
  <2>5. CASE ~Canceled(a)
    BY <1>19, <2>1, <2>3, <2>5 DEF Spawn
  <2>. QED  BY <2>4, <2>5
<1>20. ASSUME NEW a \in Actor, Reap(a)  PROVE TypeInv'
  <2>1. TablesTypeOK'
    BY <1>20, AttemptTypes DEF Reap
  <2>. QED  BY <1>20, <2>1 DEF Reap
<1>21. ASSUME NEW a \in Actor, Record(a)  PROVE TypeInv'
  <2>0. cur[a] \in TaskId /\ attempt[cur[a]] \in Nat /\ out[a] \in Outcome
    BY <1>21 DEF Record, TablesTypeOK
  <2>1. TablesTypeOK'
    BY <1>21, <2>0, AttemptTypes, RecordAttemptTypes DEF Record, Attempt
  <2>2. faults' \in Nat  BY <1>21 DEF Record, Attempt
  <2>. QED  BY <1>21, <2>1, <2>2 DEF Record
<1>22. ASSUME NEW a \in Actor, Verdict(a)  PROVE TypeInv'
  <2>1. TablesTypeOK'
    BY <1>22, AttemptTypes DEF Verdict
  <2>. QED  BY <1>22, <2>1, BreakerTypes, ZenonT(60) DEF Verdict
<1>23. ASSUME NEW a \in Actor, Finish(a)  PROVE TypeInv'
  <2>0. cur[a] \in TaskId /\ attempt[cur[a]] \in Nat /\ waiting[cur[a]] \in BOOLEAN
        /\ state[cur[a]] \in TaskState
    BY <1>23 DEF Finish, TablesTypeOK
  <2>1. TablesTypeOK'
    BY <1>23, <2>0, UpdateAndAuditTypes, AttemptTypes
       DEF Finish, Attempt, TaskState, Active, Terminal, AuditState
  <2>4. faults' = faults \/ faults' = faults + 1  BY <1>23, Zenon DEF Finish, Attempt
  <2>2. faults' \in Nat  BY <2>4
  <2>. QED  BY <1>23, <2>1, <2>2, <2>0 DEF Finish
<1>24. ASSUME NEW a \in Actor, Exhaust(a)  PROVE TypeInv'
  <2>0. cur[a] \in TaskId /\ attempt[cur[a]] \in Nat /\ waiting[cur[a]] \in BOOLEAN
        /\ state[cur[a]] \in TaskState
    BY <1>24 DEF Exhaust, TablesTypeOK
  <2>1. TablesTypeOK'
    BY <1>24, <2>0, UpdateAndAuditTypes, AttemptTypes
       DEF Exhaust, Attempt, TaskState, Active, Terminal, AuditState
  <2>4. faults' = faults \/ faults' = faults + 1  BY <1>24, Zenon DEF Exhaust, Attempt
  <2>2. faults' \in Nat  BY <2>4
  <2>. QED  BY <1>24, <2>1, <2>2, <2>0 DEF Exhaust
<1>25. ASSUME NEW a \in Actor, Retry(a)  PROVE TypeInv'
  <2>0. cur[a] \in TaskId /\ attempt[cur[a]] \in Nat /\ waiting[cur[a]] \in BOOLEAN
        /\ state[cur[a]] \in TaskState
    BY <1>25 DEF Retry, TablesTypeOK
  <2>3. attempt[cur[a]] + 1 \in Nat  BY <2>0
  <2>1. TablesTypeOK'
    BY <1>25, <2>0, <2>3, UpdateAndAuditTypes, AttemptTypes
       DEF Retry, Attempt, TaskState, Active, Terminal, AuditState
  <2>4. faults' = faults \/ faults' = faults + 1  BY <1>25, Zenon DEF Retry, Attempt
  <2>2. faults' \in Nat  BY <2>4
  <2>. QED  BY <1>25, <2>1, <2>2, <2>0 DEF Retry
<1>26. ASSUME NEW a \in Actor, Notify(a)  PROVE TypeInv'
  <2>1. TablesTypeOK'
    BY <1>26, AttemptTypes DEF Notify
  <2>. QED  BY <1>26, <2>1 DEF Notify
<1>27. ASSUME Boot  PROVE TypeInv'
  <2>1. TablesTypeOK'
    BY <1>27, AttemptTypes DEF Boot
  <2>. QED  BY <1>27, <2>1, DispatcherAssumption DEF Boot
<1>28. ASSUME NEW t \in TaskId, ResumeRow(t)  PROVE TypeInv'
  <2>1. TablesTypeOK'
    BY <1>28, UpdateTypes, UpdateAndAuditTypes, SMTT(60)
       DEF ResumeRow, TablesTypeOK, TaskState, Active, Terminal, AuditState
  <2>. QED  BY <1>28, <2>1 DEF ResumeRow
<1>29. ASSUME ResumeNext  PROVE TypeInv'
  <2>3. phase' \in Phase
    BY <1>29 DEF ResumeNext, Resuming, Pass
  <2>1. TablesTypeOK'
    BY <1>29, AttemptTypes DEF ResumeNext
  <2>. QED  BY <1>29, <2>1, <2>3 DEF ResumeNext
<1>30. ASSUME ResumeFails  PROVE TypeInv'
  <2>1. TablesTypeOK'
    BY <1>30, AttemptTypes DEF ResumeFails, Wipe
  <2>2. faults' \in Nat /\ UNCHANGED <<ghosts, crashes, stops>>
    BY <1>30 DEF ResumeFails, Wipe
  <2>3. Wipe
    BY <1>30 DEF ResumeFails
  <2>. QED  BY <2>1, <2>2, <2>3, BreakerTypes DEF Wipe
<1>31. ASSUME Stop  PROVE TypeInv'
  <2>1. TablesTypeOK'
    BY <1>31, AttemptTypes DEF Stop
  <2>. QED  BY <1>31, <2>1 DEF Stop
<1>32. ASSUME Exit  PROVE TypeInv'
  <2>1. TablesTypeOK'
    BY <1>32, AttemptTypes DEF Exit, Wipe
  <2>. QED  BY <1>32, <2>1, BreakerTypes DEF Exit, Wipe
<1>33. ASSUME Crash  PROVE TypeInv'
  <2>1. TablesTypeOK'
    BY <1>33, AttemptTypes DEF Crash, Wipe
  <2>. QED  BY <1>33, <2>1, BreakerTypes DEF Crash, Wipe
<1>34. ASSUME NEW v \in Verb, Health(v)  PROVE TypeInv'
  <2>1. TablesTypeOK'
    BY <1>34, AttemptTypes DEF Health
  <2>. QED  BY <1>34, <2>1, BreakerTypes DEF Health
<1>35. ASSUME NEW v \in Verb, CoolDown(v)  PROVE TypeInv'
  <2>1. TablesTypeOK'
    BY <1>35, AttemptTypes DEF CoolDown
  <2>. QED  BY <1>35, <2>1, BreakerTypes DEF CoolDown
<1>36. ASSUME NEW t \in TaskId, RetryDue(t)  PROVE TypeInv'
  <2>1. TablesTypeOK'
    BY <1>36 DEF RetryDue, RunTimeReached, TablesTypeOK
  <2>. QED  BY <1>36, <2>1 DEF RetryDue
<1>38. ASSUME NEW h \in Handler, Refer(h)  PROVE TypeInv'
  <2>1. TablesTypeOK'
    BY <1>38, AttemptTypes DEF Refer
  <2>2. <<hreq[h], idem[hreq[h].key]>> \in Request \X TaskId
    BY <1>38 DEF Refer, Bound, TablesTypeOK
  <2>. QED  BY <1>38, <2>1, <2>2 DEF Refer
<1>39. ASSUME NEW h \in Handler, Unreadable(h)  PROVE TypeInv'
  <2>1. TablesTypeOK'
    BY <1>39, AttemptTypes DEF Unreadable
  <2>. QED  BY <1>39, <2>1 DEF Unreadable
<1>37. CASE UNCHANGED vars
  <2>1. TablesTypeOK'  BY <1>37, AttemptTypes DEF vars
  <2>. QED  BY <1>37, <2>1 DEF vars
<1>. QED
  BY <1>1, <1>2, <1>3, <1>4, <1>5, <1>6, <1>7, <1>8, <1>9, <1>10, <1>11,
     <1>12, <1>13, <1>14, <1>15, <1>16, <1>17, <1>18, <1>19, <1>20, <1>21,
     <1>22, <1>23, <1>24, <1>25, <1>26, <1>27, <1>28, <1>29, <1>30, <1>31,
     <1>32, <1>33, <1>34, <1>35, <1>36, <1>37, <1>38, <1>39
     DEF Next, HandlerStep, WorkerStep, ExecStep, BootStep

(* Every reachable state is well typed. *)
THEOREM TypeCorrect == Spec => []TypeOK
<1>1. Spec => []TypeInv
  BY TypeInit, TypeStep, PTL DEF Spec
<1>2. TypeInv => TypeOK
  BY DEF TypeInv
<1>. QED  BY <1>1, <1>2, PTL

-----------------------------------------------------------------------------
(* Executed means executed.                                              *)

(***************************************************************************)
(* A row is marked executed by an actor that remembers an outcome ok, so   *)
(* the invariant follows that memory: it is about the task in hand, and an *)
(* actor that takes up a task starts without one.                          *)
(***************************************************************************)
Unstarted ==
    \A a \in Actor : pc[a] \in {"idle", "peek", "create"} => cur[a] = NoTask /\ out[a] = "none"

Earned ==
    /\ NoPhantomExecuted
    /\ \A a \in Actor : out[a] = "ok" => cur[a] \in succeeded

EarnedInv == Unstarted /\ Earned

(* Nothing has run. *)
LEMMA EarnedInit == Init => EarnedInv
BY StoreAssumption DEF Init, TablesInit, EarnedInv, Unstarted, Earned, NoPhantomExecuted,
    TaskId, NoTask

(* Reap is where an outcome is earned, Finish where it is spent. *)
LEMMA EarnedStep == TypeInv /\ EarnedInv /\ [Next]_vars => EarnedInv'
<1>. SUFFICES ASSUME TypeInv, EarnedInv, [Next]_vars PROVE EarnedInv'
  OBVIOUS
<1>. USE DEF TypeInv, TypeOK, TablesTypeOK, InHand, EarnedInv, Unstarted, Earned,
         NoPhantomExecuted, Actor, tables, daemon, actors, ghosts, bounds,
         Goto, Done, Return
<1>1. ASSUME NEW h \in Handler, Post(h)  PROVE EarnedInv'
  BY <1>1 DEF Post
<1>2. ASSUME NEW h \in Handler, Peek(h)  PROVE EarnedInv'
  BY <1>2 DEF Peek
<1>3. ASSUME NEW h \in Handler, Create(h)  PROVE EarnedInv'
  BY <1>3 DEF Create, CreateAndAuditLimited
<1>4. ASSUME NEW h \in Handler, CreateRefused(h)  PROVE EarnedInv'
  BY <1>4 DEF CreateRefused
<1>5. ASSUME NEW h \in Handler, Bind(h)  PROVE EarnedInv'
  BY <1>5 DEF Bind, SaveIdempotency
<1>6. ASSUME NEW h \in Handler, Supersede(h)  PROVE EarnedInv'
  BY <1>6 DEF Supersede, Attempt, UpdateAndAudit
<1>7. ASSUME NEW h \in Handler, CarryOn(h)  PROVE EarnedInv'
  BY <1>7 DEF CarryOn
<1>8. ASSUME NEW h \in Handler, Admit(h)  PROVE EarnedInv'
  BY <1>8 DEF Admit, Attempt, UpdateAndAudit
<1>9. ASSUME NEW h \in Handler, Handoff(h)  PROVE EarnedInv'
  BY <1>9 DEF Handoff, Attempt, UpdateAndAudit
<1>10. ASSUME NEW h \in Handler, Reply(h)  PROVE EarnedInv'
  BY <1>10 DEF Reply
<1>11. ASSUME NEW h \in Handler, ClientGone(h)  PROVE EarnedInv'
  BY <1>11 DEF ClientGone
<1>12. ASSUME NEW r \in Request, Replay(r)  PROVE EarnedInv'
  BY <1>12 DEF Replay
<1>13. ASSUME Claim  PROVE EarnedInv'
  BY <1>13 DEF Claim, ClaimDue, Update
<1>14. ASSUME ClaimLost  PROVE EarnedInv'
  BY <1>14 DEF ClaimLost, ClaimDue, Update
<1>15. ASSUME Unknown  PROVE EarnedInv'
  BY <1>15 DEF Unknown, Attempt, UpdateAndAudit
<1>16. ASSUME Gate  PROVE EarnedInv'
  BY <1>16 DEF Gate
<1>17. ASSUME Requeue  PROVE EarnedInv'
  BY <1>17 DEF Requeue, Attempt, UpdateAndAudit
<1>18. ASSUME NEW a \in Actor, Begin(a)  PROVE EarnedInv'
  BY <1>18 DEF Begin, Attempt, UpdateAndAudit
<1>19. ASSUME NEW a \in Actor, Spawn(a)  PROVE EarnedInv'
  BY <1>19 DEF Spawn
<1>20. ASSUME NEW a \in Actor, Reap(a)  PROVE EarnedInv'
  BY <1>20 DEF Reap
<1>21. ASSUME NEW a \in Actor, Record(a)  PROVE EarnedInv'
  BY <1>21 DEF Record, Attempt, RecordAttempt
<1>22. ASSUME NEW a \in Actor, Verdict(a)  PROVE EarnedInv'
  BY <1>22 DEF Verdict
<1>23. ASSUME NEW a \in Actor, Finish(a)  PROVE EarnedInv'
  BY <1>23 DEF Finish, Attempt, UpdateAndAudit
<1>24. ASSUME NEW a \in Actor, Exhaust(a)  PROVE EarnedInv'
  BY <1>24 DEF Exhaust, Attempt, UpdateAndAudit
<1>25. ASSUME NEW a \in Actor, Retry(a)  PROVE EarnedInv'
  BY <1>25 DEF Retry, Attempt, UpdateAndAudit
<1>26. ASSUME NEW a \in Actor, Notify(a)  PROVE EarnedInv'
  BY <1>26 DEF Notify
<1>27. ASSUME Boot  PROVE EarnedInv'
  BY <1>27 DEF Boot
<1>28. ASSUME NEW t \in TaskId, ResumeRow(t)  PROVE EarnedInv'
  BY <1>28 DEF ResumeRow, Update, UpdateAndAudit
<1>29. ASSUME ResumeNext  PROVE EarnedInv'
  BY <1>29 DEF ResumeNext
<1>30. ASSUME ResumeFails  PROVE EarnedInv'
  BY <1>30 DEF ResumeFails, Wipe
<1>31. ASSUME Stop  PROVE EarnedInv'
  BY <1>31 DEF Stop
<1>32. ASSUME Exit  PROVE EarnedInv'
  BY <1>32 DEF Exit, Wipe
<1>33. ASSUME Crash  PROVE EarnedInv'
  BY <1>33 DEF Crash, Wipe
<1>34. ASSUME NEW v \in Verb, Health(v)  PROVE EarnedInv'
  BY <1>34 DEF Health
<1>35. ASSUME NEW v \in Verb, CoolDown(v)  PROVE EarnedInv'
  BY <1>35 DEF CoolDown
<1>36. ASSUME NEW t \in TaskId, RetryDue(t)  PROVE EarnedInv'
  BY <1>36 DEF RetryDue, RunTimeReached
<1>38. ASSUME NEW h \in Handler, Refer(h)  PROVE EarnedInv'
  BY <1>38 DEF Refer
<1>39. ASSUME NEW h \in Handler, Unreadable(h)  PROVE EarnedInv'
  BY <1>39 DEF Unreadable
<1>37. CASE UNCHANGED vars
  BY <1>37 DEF vars
<1>. QED
  BY <1>1, <1>2, <1>3, <1>4, <1>5, <1>6, <1>7, <1>8, <1>9, <1>10, <1>11,
     <1>12, <1>13, <1>14, <1>15, <1>16, <1>17, <1>18, <1>19, <1>20, <1>21,
     <1>22, <1>23, <1>24, <1>25, <1>26, <1>27, <1>28, <1>29, <1>30, <1>31,
     <1>32, <1>33, <1>34, <1>35, <1>36, <1>37, <1>38, <1>39
     DEF Next, HandlerStep, WorkerStep, ExecStep, BootStep

(* Whatever crashes, races, retries or fails: a task the store calls executed
   has had a child process that ended well (FR-6.5, resume.go:20). *)
THEOREM ExecutedIsEarned == Spec => []NoPhantomExecuted
<1>1. Spec => []TypeInv
  BY TypeInit, TypeStep, PTL DEF Spec
<1>2. Spec => []EarnedInv
  BY <1>1, EarnedInit, EarnedStep, PTL DEF Spec
<1>3. EarnedInv => NoPhantomExecuted
  BY DEF EarnedInv, Earned
<1>. QED  BY <1>2, <1>3, PTL

-----------------------------------------------------------------------------
(* One owner per row, and rows settled for good.                       *)

(***************************************************************************)
(* An actor that may still write its row finds it accepted or executing,   *)
(* or canceled by itself; rows in those states are neither claimable nor   *)
(* free, so nobody else comes to own it.  Resume does change such rows: it *)
(* runs while nobody owns anything.                                        *)
(***************************************************************************)
OwnedActive ==
    \A a \in Actor : \A t \in TaskId : Owns(a, t) =>
        \/ state[t] \in {"accepted", "executing"}
        \/ state[t] = "canceled" /\ (t \in revived \/ pc[a] = "refer")

AtRest == ~Running => \A a \in Actor : pc[a] = "idle"

OwnInv == Unstarted /\ AtRest /\ OwnedActive /\ OneOwner

(* Nobody owns anything. *)
LEMMA OwnInit == Init => OwnInv
BY DEF Init, OwnInv, Unstarted, AtRest, OwnedActive, OneOwner, Owns, NoTask

(* What OwnInv says of the row of a goroutine that is not settling a lost race. *)
LEMMA RowInHand ==
    ASSUME OwnInv, NEW a \in Actor, pc[a] # "refer", NEW t \in TaskId, Owns(a, t)
    PROVE  \/ state[t] \in {"accepted", "executing"}
           \/ state[t] = "canceled" /\ t \in revived
BY DEF OwnInv, OwnedActive

(* A goroutine past its first steps that touches at most the row it owns, and
   at its end keeps that row active or lets it go, disturbs nobody else. *)
LEMMA OwnerMoves ==
    ASSUME TypeInv, OwnInv, NEW a \in Actor, pc[a] \notin {"idle", "peek", "create"},
           phase' = phase, revived' = revived,
           \A b \in Actor : b # a => pc'[b] = pc[b] /\ cur'[b] = cur[b] /\ out'[b] = out[b],
           \A t \in TaskId : state'[t] # state[t] => Owns(a, t),
           \A t \in TaskId : Owns(a, t)' =>
               /\ Owns(a, t)
               /\ \/ state'[t] \in {"accepted", "executing"}
                  \/ state'[t] = "canceled" /\ (t \in revived \/ pc'[a] = "refer"),
           pc'[a] \in {"idle", "peek", "create"} => cur'[a] = NoTask /\ out'[a] = "none"
    PROVE  OwnInv'
<1>1. \A b \in Actor, t \in TaskId : Owns(b, t)' => Owns(b, t)
  BY DEF Owns
<1>2. Unstarted'
  BY DEF OwnInv, Unstarted
<1>3. AtRest'
  BY DEF OwnInv, AtRest, Running
<1>4. OneOwner'
  BY <1>1 DEF OwnInv, OneOwner
<1>5. OwnedActive'
  <2>. SUFFICES ASSUME NEW b \in Actor, NEW t \in TaskId, Owns(b, t)'
                PROVE  \/ state'[t] \in {"accepted", "executing"}
                       \/ state'[t] = "canceled" /\ (t \in revived' \/ pc'[b] = "refer")
    BY DEF OwnedActive
  <2>1. CASE b = a
    BY <2>1
  <2>2. CASE b # a
    <3>1. Owns(b, t) /\ ~Owns(a, t)
      BY <1>1, <2>2 DEF OwnInv, OneOwner
    <3>2. state'[t] = state[t] /\ pc'[b] = pc[b]
      BY <3>1, <2>2
    <3>. QED  BY <3>1, <3>2 DEF OwnInv, OwnedActive
  <2>. QED  BY <2>1, <2>2
<1>. QED  BY <1>2, <1>3, <1>4, <1>5 DEF OwnInv

(* Create and Claim are where a row gets an owner; every other step of an
   owner keeps the row or lets it go. *)
LEMMA OwnStep == TypeInv /\ OwnInv /\ [Next]_vars => OwnInv'
<1>. SUFFICES ASSUME TypeInv, OwnInv, [Next]_vars PROVE OwnInv'
  OBVIOUS
<1>. USE DEF TypeInv, TypeOK, TablesTypeOK, InHand, OwnInv, Unstarted, AtRest, OwnedActive,
         OneOwner, Owns, Running, Actor, tables, daemon, actors, ghosts, bounds,
         Goto, Done, Return
<1>1. ASSUME NEW h \in Handler, Post(h)  PROVE OwnInv'
  BY <1>1 DEF Post, TaskId, NoTask
<1>2. ASSUME NEW h \in Handler, Peek(h)  PROVE OwnInv'
  BY <1>2, SMTT(60) DEF Peek
<1>3. ASSUME NEW h \in Handler, Create(h)  PROVE OwnInv'
  <2>. PICK t \in TaskId : /\ state[t] = "free" /\ state' = [state EXCEPT ![t] = "accepted"]
                           /\ cur' = [cur EXCEPT ![h] = t]
    BY <1>3 DEF Create, CreateAndAuditLimited, Fresh
  <2>1. /\ pc[h] = "create" /\ cur[h] = NoTask /\ phase' = phase
        /\ pc' = [pc EXCEPT ![h] = IF hreq[h].key = NoKey THEN "admit" ELSE "bind"]
        /\ out' = out /\ revived' = revived
    BY <1>3 DEF Create
  <2>2. \A a \in Actor : a # h => ~Owns(a, t)
    OBVIOUS
  <2>3. OwnedActive'
    <3>. SUFFICES ASSUME NEW a \in Actor, NEW u \in TaskId, Owns(a, u)'
                  PROVE  \/ state'[u] \in {"accepted", "executing"}
                         \/ state'[u] = "canceled" /\ (u \in revived' \/ pc'[a] = "refer")
      OBVIOUS
    <3>1. CASE a = h
      BY <2>1, <3>1
    <3>2. CASE a # h
      <4>1. Owns(a, u) /\ u # t
        BY <2>1, <2>2, <3>2
      <4>. QED  BY <2>1, <3>2, <4>1
    <3>. QED  BY <3>1, <3>2
  <2>7. AtRest'
    BY <2>1
  <2>4. \A a \in Actor, u \in TaskId : Owns(a, u)' => Owns(a, u) \/ (a = h /\ u = t)
    BY <2>1
  <2>5. OneOwner'
    BY <2>2, <2>4, <2>1 DEF TaskId, NoTask
  <2>6. Unstarted'
    BY <2>1
  <2>. QED  BY <2>3, <2>5, <2>6, <2>7
<1>4. ASSUME NEW h \in Handler, CreateRefused(h)  PROVE OwnInv'
  BY <1>4 DEF CreateRefused
<1>5. ASSUME NEW h \in Handler, Bind(h)  PROVE OwnInv'
  BY <1>5, SMTT(60) DEF Bind, SaveIdempotency
<1>6. ASSUME NEW h \in Handler, Supersede(h)  PROVE OwnInv'
  BY <1>6 DEF Supersede, Attempt, UpdateAndAudit
<1>7. ASSUME NEW h \in Handler, CarryOn(h)  PROVE OwnInv'
  BY <1>7 DEF CarryOn
<1>8. ASSUME NEW h \in Handler, Admit(h)  PROVE OwnInv'
  BY <1>8 DEF Admit, Attempt, UpdateAndAudit
<1>9. ASSUME NEW h \in Handler, Handoff(h)  PROVE OwnInv'
  BY <1>9 DEF Handoff, Attempt, UpdateAndAudit
<1>10. ASSUME NEW h \in Handler, Reply(h)  PROVE OwnInv'
  BY <1>10 DEF Reply
<1>11. ASSUME NEW h \in Handler, ClientGone(h)  PROVE OwnInv'
  BY <1>11 DEF ClientGone
<1>12. ASSUME NEW r \in Request, Replay(r)  PROVE OwnInv'
  BY <1>12 DEF Replay
<1>13. ASSUME Claim  PROVE OwnInv'
  <2>. PICK t \in TaskId : /\ state[t] \in {"pending", "retry_scheduled"}
                           /\ state' = [state EXCEPT ![t] = "executing"]
                           /\ cur' = [cur EXCEPT ![Worker] = t]
    BY <1>13 DEF Claim, ClaimDue, Update, Due
  <2>1. /\ pc[Worker] = "idle" /\ cur[Worker] = NoTask /\ phase' = phase
        /\ pc' = [pc EXCEPT ![Worker] = "gate"] /\ Running
        /\ out' = out /\ revived' = revived
    BY <1>13 DEF Claim
  <2>2. \A a \in Actor : a # Worker => ~Owns(a, t)
    OBVIOUS
  <2>3. OwnedActive'
    <3>. SUFFICES ASSUME NEW a \in Actor, NEW u \in TaskId, Owns(a, u)'
                  PROVE  \/ state'[u] \in {"accepted", "executing"}
                         \/ state'[u] = "canceled" /\ (u \in revived' \/ pc'[a] = "refer")
      OBVIOUS
    <3>1. CASE a = Worker
      BY <2>1, <3>1
    <3>2. CASE a # Worker
      <4>1. Owns(a, u) /\ u # t
        BY <2>1, <2>2, <3>2
      <4>. QED  BY <2>1, <3>2, <4>1
    <3>. QED  BY <3>1, <3>2
  <2>7. AtRest'
    BY <2>1
  <2>4. \A a \in Actor, u \in TaskId : Owns(a, u)' => Owns(a, u) \/ (a = Worker /\ u = t)
    BY <2>1
  <2>5. OneOwner'
    BY <2>2, <2>4, <2>1 DEF TaskId, NoTask
  <2>6. Unstarted'
    BY <2>1
  <2>. QED  BY <2>3, <2>5, <2>6, <2>7
<1>14. ASSUME ClaimLost  PROVE OwnInv'
  BY <1>14 DEF ClaimLost, ClaimDue, Update, Due
<1>15. ASSUME Unknown  PROVE OwnInv'
  BY <1>15 DEF Unknown, Attempt, UpdateAndAudit
<1>16. ASSUME Gate  PROVE OwnInv'
  BY <1>16 DEF Gate
<1>17. ASSUME Requeue  PROVE OwnInv'
  BY <1>17 DEF Requeue, Attempt, UpdateAndAudit
<1>18. ASSUME NEW a \in Actor, Begin(a)  PROVE OwnInv'
  BY <1>18 DEF Begin, Attempt, UpdateAndAudit
<1>19. ASSUME NEW a \in Actor, Spawn(a)  PROVE OwnInv'
  BY <1>19 DEF Spawn
<1>20. ASSUME NEW a \in Actor, Reap(a)  PROVE OwnInv'
  BY <1>20 DEF Reap
<1>21. ASSUME NEW a \in Actor, Record(a)  PROVE OwnInv'
  BY <1>21 DEF Record, Attempt, RecordAttempt
<1>22. ASSUME NEW a \in Actor, Verdict(a)  PROVE OwnInv'
  <2>1. /\ pc[a] = "verdict" /\ phase' = phase /\ revived' = revived /\ state' = state
        /\ \A b \in Actor : b # a => pc'[b] = pc[b] /\ cur'[b] = cur[b] /\ out'[b] = out[b]
        /\ IF a = Worker /\ out[a] = "ok"
             THEN pc'[a] = "idle" /\ cur'[a] = NoTask /\ out'[a] = "none"
             ELSE pc'[a] = "settle" /\ cur'[a] = cur[a] /\ out'[a] = out[a]
    BY <1>22 DEF Verdict
  <2>2. \A t \in TaskId : Owns(a, t)' => Owns(a, t)
    BY <2>1 DEF TaskId, NoTask
  <2>3. \A t \in TaskId : Owns(a, t) => \/ state[t] \in {"accepted", "executing"}
                                        \/ state[t] = "canceled" /\ t \in revived
    BY <2>1, RowInHand
  <2>. QED  BY <2>1, <2>2, <2>3, OwnerMoves
<1>23. ASSUME NEW a \in Actor, Finish(a)  PROVE OwnInv'
  BY <1>23 DEF Finish, Attempt, UpdateAndAudit
<1>24. ASSUME NEW a \in Actor, Exhaust(a)  PROVE OwnInv'
  BY <1>24 DEF Exhaust, Attempt, UpdateAndAudit
<1>25. ASSUME NEW a \in Actor, Retry(a)  PROVE OwnInv'
  <2>1. /\ pc[a] = "settle" /\ phase' = phase /\ revived' = revived
        /\ \A b \in Actor : b # a => pc'[b] = pc[b] /\ cur'[b] = cur[b] /\ out'[b] = out[b]
        /\ \/ pc'[a] = "idle" /\ cur'[a] = NoTask /\ out'[a] = "none"
           \/ pc'[a] = "reply"
    BY <1>25 DEF Retry
  <2>2. \A t \in TaskId : state'[t] # state[t] => Owns(a, t)
    BY <1>25 DEF Retry, Attempt, UpdateAndAudit
  <2>3. \A t \in TaskId : ~Owns(a, t)'
    BY <2>1
  <2>. QED  BY <2>1, <2>2, <2>3, OwnerMoves
<1>26. ASSUME NEW a \in Actor, Notify(a)  PROVE OwnInv'
  <2>1. /\ pc[a] = "notify" /\ phase' = phase /\ revived' = revived
        /\ \A b \in Actor : b # a => pc'[b] = pc[b] /\ cur'[b] = cur[b] /\ out'[b] = out[b]
        /\ \/ pc'[a] = "idle" /\ cur'[a] = NoTask /\ out'[a] = "none"
           \/ pc'[a] = "reply"
    BY <1>26 DEF Notify
  <2>2. \A t \in TaskId : state'[t] # state[t] => Owns(a, t)
    BY <1>26 DEF Notify
  <2>3. \A t \in TaskId : ~Owns(a, t)'
    BY <2>1
  <2>. QED  BY <2>1, <2>2, <2>3, OwnerMoves
<1>27. ASSUME Boot  PROVE OwnInv'
  BY <1>27 DEF Boot
<1>28. ASSUME NEW t \in TaskId, ResumeRow(t)  PROVE OwnInv'
  BY <1>28 DEF ResumeRow, Update, UpdateAndAudit, Resuming, Pass
<1>29. ASSUME ResumeNext  PROVE OwnInv'
  BY <1>29 DEF ResumeNext, Resuming, Pass
<1>30. ASSUME ResumeFails  PROVE OwnInv'
  BY <1>30 DEF ResumeFails, Wipe
<1>31. ASSUME Stop  PROVE OwnInv'
  BY <1>31 DEF Stop
<1>32. ASSUME Exit  PROVE OwnInv'
  BY <1>32 DEF Exit, Wipe
<1>33. ASSUME Crash  PROVE OwnInv'
  BY <1>33 DEF Crash, Wipe
<1>34. ASSUME NEW v \in Verb, Health(v)  PROVE OwnInv'
  BY <1>34 DEF Health
<1>35. ASSUME NEW v \in Verb, CoolDown(v)  PROVE OwnInv'
  BY <1>35 DEF CoolDown
<1>36. ASSUME NEW t \in TaskId, RetryDue(t)  PROVE OwnInv'
  BY <1>36 DEF RetryDue, RunTimeReached
<1>38. ASSUME NEW h \in Handler, Refer(h)  PROVE OwnInv'
  BY <1>38 DEF Refer
<1>39. ASSUME NEW h \in Handler, Unreadable(h)  PROVE OwnInv'
  BY <1>39 DEF Unreadable, Terminal
<1>37. CASE UNCHANGED vars
  BY <1>37 DEF vars
<1>. QED
  BY <1>1, <1>2, <1>3, <1>4, <1>5, <1>6, <1>7, <1>8, <1>9, <1>10, <1>11,
     <1>12, <1>13, <1>14, <1>15, <1>16, <1>17, <1>18, <1>19, <1>20, <1>21,
     <1>22, <1>23, <1>24, <1>25, <1>26, <1>27, <1>28, <1>29, <1>30, <1>31,
     <1>32, <1>33, <1>34, <1>35, <1>36, <1>37, <1>38, <1>39
     DEF Next, HandlerStep, WorkerStep, ExecStep, BootStep

(* Two goroutines never hold the same row, whatever fails. *)
THEOREM RowsHaveOneOwner == Spec => []OneOwner
<1>1. Spec => []TypeInv
  BY TypeInit, TypeStep, PTL DEF Spec
<1>2. Spec => []OwnInv
  BY <1>1, OwnInit, OwnStep, PTL DEF Spec
<1>3. OwnInv => OneOwner
  BY DEF OwnInv
<1>. QED  BY <1>2, <1>3, PTL

(* What a step may do to a settled row: its owners are gone, so nothing. *)
LEMMA SettledStep ==
    TypeInv /\ OwnInv /\ [Next]_vars =>
        \A t \in TaskId \ revived : state[t] \in Terminal => state'[t] = state[t]
<1>. DEFINE Kept == \A t \in TaskId \ revived : state[t] \in Terminal => state'[t] = state[t]
<1>. SUFFICES ASSUME TypeInv, OwnInv, [Next]_vars PROVE Kept
  OBVIOUS
<1>. USE DEF TypeInv, TypeOK, TablesTypeOK, InHand, OwnInv, OwnedActive, Owns, Terminal,
         Actor, tables, daemon, actors, ghosts, bounds, Goto, Done, Return
<1>1. ASSUME NEW h \in Handler, Post(h)  PROVE Kept
  BY <1>1 DEF Post
<1>2. ASSUME NEW h \in Handler, Peek(h)  PROVE Kept
  BY <1>2 DEF Peek
<1>3. ASSUME NEW h \in Handler, Create(h)  PROVE Kept
  BY <1>3 DEF Create, CreateAndAuditLimited, Fresh
<1>4. ASSUME NEW h \in Handler, CreateRefused(h)  PROVE Kept
  BY <1>4 DEF CreateRefused
<1>5. ASSUME NEW h \in Handler, Bind(h)  PROVE Kept
  BY <1>5 DEF Bind, SaveIdempotency
<1>6. ASSUME NEW h \in Handler, Supersede(h)  PROVE Kept
  BY <1>6 DEF Supersede, Attempt, UpdateAndAudit
<1>7. ASSUME NEW h \in Handler, CarryOn(h)  PROVE Kept
  BY <1>7 DEF CarryOn
<1>8. ASSUME NEW h \in Handler, Admit(h)  PROVE Kept
  BY <1>8 DEF Admit, Attempt, UpdateAndAudit
<1>9. ASSUME NEW h \in Handler, Handoff(h)  PROVE Kept
  BY <1>9 DEF Handoff, Attempt, UpdateAndAudit
<1>10. ASSUME NEW h \in Handler, Reply(h)  PROVE Kept
  BY <1>10 DEF Reply
<1>11. ASSUME NEW h \in Handler, ClientGone(h)  PROVE Kept
  BY <1>11 DEF ClientGone
<1>12. ASSUME NEW r \in Request, Replay(r)  PROVE Kept
  BY <1>12 DEF Replay
<1>13. ASSUME Claim  PROVE Kept
  BY <1>13 DEF Claim, ClaimDue, Update, Due
<1>14. ASSUME ClaimLost  PROVE Kept
  BY <1>14 DEF ClaimLost, ClaimDue, Update, Due
<1>15. ASSUME Unknown  PROVE Kept
  BY <1>15 DEF Unknown, Attempt, UpdateAndAudit
<1>16. ASSUME Gate  PROVE Kept
  BY <1>16 DEF Gate
<1>17. ASSUME Requeue  PROVE Kept
  BY <1>17 DEF Requeue, Attempt, UpdateAndAudit
<1>18. ASSUME NEW a \in Actor, Begin(a)  PROVE Kept
  BY <1>18 DEF Begin, Attempt, UpdateAndAudit
<1>19. ASSUME NEW a \in Actor, Spawn(a)  PROVE Kept
  BY <1>19 DEF Spawn
<1>20. ASSUME NEW a \in Actor, Reap(a)  PROVE Kept
  BY <1>20 DEF Reap
<1>21. ASSUME NEW a \in Actor, Record(a)  PROVE Kept
  BY <1>21 DEF Record, Attempt, RecordAttempt
<1>22. ASSUME NEW a \in Actor, Verdict(a)  PROVE Kept
  BY <1>22 DEF Verdict
<1>23. ASSUME NEW a \in Actor, Finish(a)  PROVE Kept
  BY <1>23 DEF Finish, Attempt, UpdateAndAudit
<1>24. ASSUME NEW a \in Actor, Exhaust(a)  PROVE Kept
  BY <1>24 DEF Exhaust, Attempt, UpdateAndAudit
<1>25. ASSUME NEW a \in Actor, Retry(a)  PROVE Kept
  BY <1>25 DEF Retry, Attempt, UpdateAndAudit
<1>26. ASSUME NEW a \in Actor, Notify(a)  PROVE Kept
  BY <1>26 DEF Notify
<1>27. ASSUME Boot  PROVE Kept
  BY <1>27 DEF Boot
<1>28. ASSUME NEW t \in TaskId, ResumeRow(t)  PROVE Kept
  BY <1>28 DEF ResumeRow, Update, UpdateAndAudit, Resuming, Pass
<1>29. ASSUME ResumeNext  PROVE Kept
  BY <1>29 DEF ResumeNext
<1>30. ASSUME ResumeFails  PROVE Kept
  BY <1>30 DEF ResumeFails, Wipe
<1>31. ASSUME Stop  PROVE Kept
  BY <1>31 DEF Stop
<1>32. ASSUME Exit  PROVE Kept
  BY <1>32 DEF Exit, Wipe
<1>33. ASSUME Crash  PROVE Kept
  BY <1>33 DEF Crash, Wipe
<1>34. ASSUME NEW v \in Verb, Health(v)  PROVE Kept
  BY <1>34 DEF Health
<1>35. ASSUME NEW v \in Verb, CoolDown(v)  PROVE Kept
  BY <1>35 DEF CoolDown
<1>36. ASSUME NEW t \in TaskId, RetryDue(t)  PROVE Kept
  BY <1>36 DEF RetryDue, RunTimeReached
<1>38. ASSUME NEW h \in Handler, Refer(h)  PROVE Kept
  BY <1>38 DEF Refer
<1>39. ASSUME NEW h \in Handler, Unreadable(h)  PROVE Kept
  BY <1>39 DEF Unreadable
<1>37. CASE UNCHANGED vars
  BY <1>37 DEF vars
<1>. QED
  BY <1>1, <1>2, <1>3, <1>4, <1>5, <1>6, <1>7, <1>8, <1>9, <1>10, <1>11,
     <1>12, <1>13, <1>14, <1>15, <1>16, <1>17, <1>18, <1>19, <1>20, <1>21,
     <1>22, <1>23, <1>24, <1>25, <1>26, <1>27, <1>28, <1>29, <1>30, <1>31,
     <1>32, <1>33, <1>34, <1>35, <1>36, <1>37, <1>38, <1>39
     DEF Next, HandlerStep, WorkerStep, ExecStep, BootStep

(* A settled row is never changed again, across races, retries, faults and
   restarts. *)
THEOREM SettledRowsStay == Spec => SettledForGood
<1>1. Spec => []TypeInv
  BY TypeInit, TypeStep, PTL DEF Spec
<1>2. Spec => []OwnInv
  BY <1>1, OwnInit, OwnStep, PTL DEF Spec
<1>. QED  BY <1>1, <1>2, SettledStep, PTL DEF Spec, SettledForGood

-----------------------------------------------------------------------------
(* The audit trail closes with the row.                                  *)

(* What one audit row adds to a trail. *)
LEMMA LoggedCloses ==
    ASSUME NEW r \in [last : AuditState, execs : Nat, closed : Nat], NEW ev \in AuditState
    PROVE  /\ Logged(r, ev).last = ev
           /\ ev \in Terminal => Logged(r, ev).closed = r.closed + 1
           /\ ev \notin Terminal => Logged(r, ev).closed = r.closed
BY DEF Logged

(* The row moves and its audit row is of the same kind: the rows agree. *)
LEMMA UpdateCloses ==
    ASSUME TablesTypeOK, AuditCloses, NEW t \in TaskId, NEW s, NEW n, NEW later,
           NEW ev \in AuditState, UpdateAndAudit(t, s, n, later, ev),
           t \in revived \/ state[t] \notin Terminal, revived \subseteq revived',
           t \in revived \/ (s \in Terminal => ev = s),
           t \in revived \/ (s \notin Terminal => ev \notin Terminal)
    PROVE  AuditCloses'
<1>. DEFINE r == trail[t]
<1>0. /\ trail' = [trail EXCEPT ![t] = Logged(r, ev)] /\ state' = [state EXCEPT ![t] = s]
      /\ r \in [last : AuditState, execs : Nat, closed : Nat]
  BY DEF UpdateAndAudit, TablesTypeOK
<1>1. CASE t \in revived
  BY <1>0, <1>1 DEF AuditCloses, TablesTypeOK
<1>2. CASE t \notin revived
  <2>1. r.closed = 0
    BY <1>2 DEF AuditCloses
  <2>. HIDE DEF r
  <2>2. /\ Logged(r, ev).last = ev
        /\ ev \in Terminal => Logged(r, ev).closed = r.closed + 1
        /\ ev \notin Terminal => Logged(r, ev).closed = r.closed
    BY <1>0, LoggedCloses
  <2>3. /\ s \in Terminal => Logged(r, ev).closed = 1 /\ Logged(r, ev).last = s
        /\ s \notin Terminal => Logged(r, ev).closed = 0
    BY <1>2, <2>1, <2>2
  <2>. QED  BY <1>0, <2>3 DEF TablesTypeOK, AuditCloses
<1>. QED  BY <1>1, <1>2

(* Every writer of a row passes an event that fits the new state. *)
LEMMA ClosesStep == TypeInv /\ OwnInv /\ AuditCloses /\ [Next]_vars => AuditCloses'
<1>. SUFFICES ASSUME TypeInv, OwnInv, AuditCloses, [Next]_vars PROVE AuditCloses'
  OBVIOUS
<1>. USE DEF TypeInv, TypeOK, InHand, OwnInv, OwnedActive, Owns, Actor,
         tables, daemon, actors, ghosts, bounds
<1>1. ASSUME NEW h \in Handler, Post(h)  PROVE AuditCloses'
  BY <1>1 DEF Post, AuditCloses
<1>2. ASSUME NEW h \in Handler, Peek(h)  PROVE AuditCloses'
  BY <1>2 DEF Peek, AuditCloses
<1>3. ASSUME NEW h \in Handler, Create(h)  PROVE AuditCloses'
  BY <1>3 DEF Create, CreateAndAuditLimited, Fresh, AuditCloses, TablesTypeOK, Logged, Terminal
<1>4. ASSUME NEW h \in Handler, CreateRefused(h)  PROVE AuditCloses'
  BY <1>4 DEF CreateRefused, AuditCloses
<1>5. ASSUME NEW h \in Handler, Bind(h)  PROVE AuditCloses'
  BY <1>5 DEF Bind, SaveIdempotency, AuditCloses
<1>6. ASSUME NEW h \in Handler, Supersede(h)  PROVE AuditCloses'
  <2>1. cur[h] \in TaskId /\ (cur[h] \in revived \/ state[cur[h]] \notin Terminal)
    BY <1>6 DEF Supersede, Terminal
  <2>. QED  BY <1>6, <2>1, UpdateCloses, Zenon
           DEF Supersede, Attempt, AuditCloses, Terminal, AuditState, Active
<1>7. ASSUME NEW h \in Handler, CarryOn(h)  PROVE AuditCloses'
  BY <1>7 DEF CarryOn, AuditCloses
<1>8. ASSUME NEW h \in Handler, Admit(h)  PROVE AuditCloses'
  <2>1. cur[h] \in TaskId /\ (cur[h] \in revived \/ state[cur[h]] \notin Terminal)
    BY <1>8 DEF Admit, Terminal
  <2>. QED  BY <1>8, <2>1, UpdateCloses, Zenon
           DEF Admit, Attempt, AuditCloses, Terminal, AuditState, Active
<1>9. ASSUME NEW h \in Handler, Handoff(h)  PROVE AuditCloses'
  <2>1. cur[h] \in TaskId /\ (cur[h] \in revived \/ state[cur[h]] \notin Terminal)
    BY <1>9 DEF Handoff, Terminal
  <2>. QED  BY <1>9, <2>1, UpdateCloses, Zenon
           DEF Handoff, Attempt, AuditCloses, Terminal, AuditState, Active
<1>10. ASSUME NEW h \in Handler, Reply(h)  PROVE AuditCloses'
  BY <1>10 DEF Reply, AuditCloses
<1>11. ASSUME NEW h \in Handler, ClientGone(h)  PROVE AuditCloses'
  BY <1>11 DEF ClientGone, AuditCloses
<1>12. ASSUME NEW r \in Request, Replay(r)  PROVE AuditCloses'
  BY <1>12 DEF Replay, AuditCloses
<1>13. ASSUME Claim  PROVE AuditCloses'
  BY <1>13 DEF Claim, ClaimDue, Due, Update, AuditCloses, TablesTypeOK, Terminal
<1>14. ASSUME ClaimLost  PROVE AuditCloses'
  BY <1>14 DEF ClaimLost, ClaimDue, Due, Update, AuditCloses, TablesTypeOK, Terminal
<1>15. ASSUME Unknown  PROVE AuditCloses'
  <2>1. cur[Worker] \in TaskId /\ (cur[Worker] \in revived \/ state[cur[Worker]] \notin Terminal)
    BY <1>15 DEF Unknown, Terminal
  <2>. QED  BY <1>15, <2>1, UpdateCloses, Zenon
           DEF Unknown, Attempt, AuditCloses, Terminal, AuditState, Active
<1>16. ASSUME Gate  PROVE AuditCloses'
  BY <1>16 DEF Gate, AuditCloses
<1>17. ASSUME Requeue  PROVE AuditCloses'
  <2>1. cur[Worker] \in TaskId /\ (cur[Worker] \in revived \/ state[cur[Worker]] \notin Terminal)
    BY <1>17 DEF Requeue, Terminal
  <2>. QED  BY <1>17, <2>1, UpdateCloses, Zenon
           DEF Requeue, Attempt, AuditCloses, Terminal, AuditState, Active
<1>18. ASSUME NEW a \in Actor, Begin(a)  PROVE AuditCloses'
  <2>1. cur[a] \in TaskId /\ (cur[a] \in revived \/ state[cur[a]] \notin Terminal)
    BY <1>18 DEF Begin, Terminal
  <2>. QED  BY <1>18, <2>1, UpdateCloses, Zenon
           DEF Begin, Attempt, AuditCloses, Terminal, AuditState, Active
<1>19. ASSUME NEW a \in Actor, Spawn(a)  PROVE AuditCloses'
  BY <1>19 DEF Spawn, AuditCloses
<1>20. ASSUME NEW a \in Actor, Reap(a)  PROVE AuditCloses'
  BY <1>20 DEF Reap, AuditCloses
<1>21. ASSUME NEW a \in Actor, Record(a)  PROVE AuditCloses'
  BY <1>21 DEF Record, Attempt, RecordAttempt, AuditCloses
<1>22. ASSUME NEW a \in Actor, Verdict(a)  PROVE AuditCloses'
  BY <1>22 DEF Verdict, AuditCloses
<1>23. ASSUME NEW a \in Actor, Finish(a)  PROVE AuditCloses'
  <2>1. cur[a] \in TaskId /\ (cur[a] \in revived \/ state[cur[a]] \notin Terminal)
    BY <1>23 DEF Finish, Terminal
  <2>. QED  BY <1>23, <2>1, UpdateCloses, Zenon
           DEF Finish, Attempt, AuditCloses, Terminal, AuditState, Active
<1>24. ASSUME NEW a \in Actor, Exhaust(a)  PROVE AuditCloses'
  <2>1. cur[a] \in TaskId /\ (cur[a] \in revived \/ state[cur[a]] \notin Terminal)
    BY <1>24 DEF Exhaust, Terminal
  <2>. QED  BY <1>24, <2>1, UpdateCloses, Zenon
           DEF Exhaust, Attempt, AuditCloses, Terminal, AuditState, Active
<1>25. ASSUME NEW a \in Actor, Retry(a)  PROVE AuditCloses'
  <2>1. cur[a] \in TaskId /\ (cur[a] \in revived \/ state[cur[a]] \notin Terminal)
    BY <1>25 DEF Retry, Terminal
  <2>. QED  BY <1>25, <2>1, UpdateCloses, ZenonT(60)
           DEF Retry, Attempt, AuditCloses, Terminal, AuditState, Active
<1>26. ASSUME NEW a \in Actor, Notify(a)  PROVE AuditCloses'
  BY <1>26 DEF Notify, AuditCloses
<1>27. ASSUME Boot  PROVE AuditCloses'
  BY <1>27 DEF Boot, AuditCloses
<1>28. ASSUME NEW t \in TaskId, ResumeRow(t)  PROVE AuditCloses'
  <2>1. CASE phase = "resume_executing"
    BY <1>28, <2>1 DEF ResumeRow, Pass, Update, AuditCloses, TablesTypeOK, Terminal
  <2>2. CASE phase # "resume_executing"
    <3>1. state[t] \notin Terminal /\ UpdateAndAudit(t, "canceled", attempt[t], waiting[t], "canceled")
      BY <1>28, <2>2 DEF ResumeRow, Resuming, Pass, Terminal
    <3>2. revived' = revived
      BY <1>28 DEF ResumeRow
    <3>. QED  BY <3>1, <3>2, UpdateCloses DEF Terminal, AuditState
  <2>. QED  BY <2>1, <2>2
<1>29. ASSUME ResumeNext  PROVE AuditCloses'
  BY <1>29 DEF ResumeNext, AuditCloses
<1>30. ASSUME ResumeFails  PROVE AuditCloses'
  BY <1>30 DEF ResumeFails, Wipe, AuditCloses
<1>31. ASSUME Stop  PROVE AuditCloses'
  BY <1>31 DEF Stop, AuditCloses
<1>32. ASSUME Exit  PROVE AuditCloses'
  BY <1>32 DEF Exit, Wipe, AuditCloses
<1>33. ASSUME Crash  PROVE AuditCloses'
  BY <1>33 DEF Crash, Wipe, AuditCloses
<1>34. ASSUME NEW v \in Verb, Health(v)  PROVE AuditCloses'
  BY <1>34 DEF Health, AuditCloses
<1>35. ASSUME NEW v \in Verb, CoolDown(v)  PROVE AuditCloses'
  BY <1>35 DEF CoolDown, AuditCloses
<1>36. ASSUME NEW t \in TaskId, RetryDue(t)  PROVE AuditCloses'
  BY <1>36 DEF RetryDue, RunTimeReached, AuditCloses
<1>38. ASSUME NEW h \in Handler, Refer(h)  PROVE AuditCloses'
  BY <1>38 DEF Refer, AuditCloses
<1>39. ASSUME NEW h \in Handler, Unreadable(h)  PROVE AuditCloses'
  BY <1>39 DEF Unreadable, AuditCloses
<1>37. CASE UNCHANGED vars
  BY <1>37 DEF vars, AuditCloses
<1>. QED
  BY <1>1, <1>2, <1>3, <1>4, <1>5, <1>6, <1>7, <1>8, <1>9, <1>10, <1>11,
     <1>12, <1>13, <1>14, <1>15, <1>16, <1>17, <1>18, <1>19, <1>20, <1>21,
     <1>22, <1>23, <1>24, <1>25, <1>26, <1>27, <1>28, <1>29, <1>30, <1>31,
     <1>32, <1>33, <1>34, <1>35, <1>36, <1>37, <1>38, <1>39
     DEF Next, HandlerStep, WorkerStep, ExecStep, BootStep

(* ADR-0002 in full: a settled row has exactly one closing audit row, its
   last and of its state, and an active row none. *)
THEOREM TrailClosesOnce == Spec => []AuditCloses
<1>1. Spec => []TypeInv
  BY TypeInit, TypeStep, PTL DEF Spec
<1>2. Spec => []OwnInv
  BY <1>1, OwnInit, OwnStep, PTL DEF Spec
<1>3. Init => AuditCloses
  BY DEF Init, TablesInit, AuditCloses, Terminal
<1>. QED  BY <1>1, <1>2, <1>3, ClosesStep, PTL DEF Spec

-----------------------------------------------------------------------------
(* What a 202 promises.                                                    *)

(* Rows that resume does not cancel, nor the loser of a race. *)
Promised == {"pending", "retry_scheduled", "executing", "executed", "exhausted"}

(***************************************************************************)
(* A row that was answered for, or is about to be, is beyond cancellation; *)
(* a row that may still be canceled is accepted, in its handler's hands.   *)
(* Both are void once a write was lost.                                    *)
(***************************************************************************)
AckInv ==
    faults = 0 =>
        /\ \A t \in acked : state[t] \in Promised
        /\ \A h \in Handler :
              /\ pc[h] \in {"reply", "notify"} => state[cur[h]] \in Promised
              /\ pc[h] \in {"bind", "supersede", "admit", "handoff"} =>
                     state[cur[h]] = "accepted"
              /\ pc[h] = "refer" => state[cur[h]] = "canceled"

LEMMA AckInit == Init => AckInv
BY DEF Init, AckInv, Actor

(* One step of an actor that writes at most its own row. *)
LEMMA AckMoves ==
    ASSUME TypeInv, OwnInv, AckInv, NEW a \in Actor, NEW t \in TaskId,
           Owns(a, t), cur[a] = t,
           \A u \in TaskId : u # t => state'[u] = state[u],
           state'[t] \in Promised \/ (t \notin acked /\ state[t] \notin Promised),
           acked' = acked,
           \A b \in Actor : b # a => pc'[b] = pc[b] /\ cur'[b] = cur[b],
           faults' = 0 => faults = 0,
           faults' = 0 /\ a \in Handler =>
              /\ pc'[a] \in {"reply", "notify"} => state'[cur'[a]] \in Promised
              /\ pc'[a] \in {"bind", "supersede", "admit", "handoff"} =>
                     state'[cur'[a]] = "accepted"
              /\ pc'[a] = "refer" => state'[cur'[a]] = "canceled"
    PROVE  AckInv'
<1>. SUFFICES ASSUME faults' = 0 PROVE AckInv'
  BY DEF AckInv
<1>1. faults = 0
  OBVIOUS
<1>2. \A u \in acked : state'[u] \in Promised
  BY <1>1 DEF AckInv, TypeInv, TypeOK
<1>3. ASSUME NEW h \in Handler, h # a
      PROVE  /\ pc'[h] \in {"reply", "notify"} => state'[cur'[h]] \in Promised
             /\ pc'[h] \in {"bind", "supersede", "admit", "handoff"} =>
                    state'[cur'[h]] = "accepted"
             /\ pc'[h] = "refer" => state'[cur'[h]] = "canceled"
  <2>1. pc'[h] = pc[h] /\ cur'[h] = cur[h]
    BY <1>3 DEF Actor
  <2>2. CASE cur[h] = t
    <3>1. ~Owns(h, t)
      BY <1>3 DEF OwnInv, OneOwner, Actor
    <3>2. pc[h] \notin {"bind", "supersede", "admit", "handoff", "refer"}
      BY <2>2, <3>1 DEF Owns
    <3>3. pc[h] \in {"reply", "notify"} => state'[t] \in Promised
      BY <1>1, <2>2 DEF AckInv
    <3>. QED  BY <2>1, <2>2, <3>2, <3>3
  <2>3. CASE cur[h] # t
    <3>1. pc[h] \notin {"idle", "peek", "create"} => cur[h] \in TaskId
      BY DEF TypeInv, InHand, Actor
    <3>. QED  BY <1>1, <2>1, <2>3, <3>1 DEF AckInv
  <2>. QED  BY <2>2, <2>3
<1>. QED  BY <1>2, <1>3 DEF AckInv

LEMMA AckStep == TypeInv /\ OwnInv /\ AckInv /\ [Next]_vars => AckInv'
<1>. SUFFICES ASSUME TypeInv, OwnInv, AckInv, [Next]_vars PROVE AckInv'
  OBVIOUS
<1>. USE DEF TypeInv, TypeOK, TablesTypeOK, InHand, Actor, tables, daemon, actors, ghosts,
         bounds, Goto, Done, Return
<1>0. ASSUME UNCHANGED <<state, pc, cur, acked>>, faults' = 0 => faults = 0 PROVE AckInv'
  BY <1>0 DEF AckInv
<1>1. ASSUME NEW h \in Handler, Post(h)  PROVE AckInv'
  BY <1>1 DEF Post, AckInv, Fault
<1>2. ASSUME NEW h \in Handler, Peek(h)  PROVE AckInv'
  BY <1>2 DEF Peek, AckInv
<1>3. ASSUME NEW h \in Handler, Create(h)  PROVE AckInv'
  <2>. PICK t \in TaskId : /\ state[t] = "free" /\ state' = [state EXCEPT ![t] = "accepted"]
                           /\ cur' = [cur EXCEPT ![h] = t]
    BY <1>3 DEF Create, CreateAndAuditLimited, Fresh
  <2>1. /\ pc' = [pc EXCEPT ![h] = IF hreq[h].key = NoKey THEN "admit" ELSE "bind"]
        /\ acked' = acked /\ faults' = faults
    BY <1>3 DEF Create
  <2>2. ASSUME faults = 0, NEW g \in Handler, g # h
        PROVE  pc[g] \in {"bind", "supersede", "admit", "handoff", "refer", "reply", "notify"}
                   => cur[g] # t
    BY <2>2 DEF AckInv, Promised
  <2>. QED  BY <2>1, <2>2 DEF AckInv, Promised
<1>4. ASSUME NEW h \in Handler, CreateRefused(h)  PROVE AckInv'
  BY <1>4 DEF CreateRefused, Fault, AckInv
<1>5. ASSUME NEW h \in Handler, Bind(h)  PROVE AckInv'
  BY <1>5 DEF Bind, SaveIdempotency, Fault, AckInv
<1>6. ASSUME NEW h \in Handler, Supersede(h)  PROVE AckInv'
  <2>1. Owns(h, cur[h]) /\ cur[h] \in TaskId
    BY <1>6 DEF Supersede, Owns
  <2>. QED  BY <1>6, <2>1, AckMoves DEF Supersede, Attempt, UpdateAndAudit, Fault, AckInv, Promised
<1>7. ASSUME NEW h \in Handler, CarryOn(h)  PROVE AckInv'
  BY <1>7 DEF CarryOn, Fault, AckInv
<1>8. ASSUME NEW h \in Handler, Admit(h)  PROVE AckInv'
  <2>1. \A t \in TaskId : state'[t] = state[t]
    BY <1>8 DEF Admit, Attempt, UpdateAndAudit
  <2>2. /\ pc' \in [Actor -> {"begin", "handoff"} \cup Step] /\ pc'[h] \in {"begin", "handoff"}
        /\ \A g \in Handler : g # h => pc'[g] = pc[g]
        /\ UNCHANGED <<cur, acked>> /\ (faults' = 0 => faults = 0)
    BY <1>8 DEF Admit, Attempt, Fault
  <2>3. pc[h] = "admit"
    BY <1>8 DEF Admit
  <2>. QED  BY <2>1, <2>2, <2>3 DEF AckInv
<1>9. ASSUME NEW h \in Handler, Handoff(h)  PROVE AckInv'
  <2>1. Owns(h, cur[h]) /\ cur[h] \in TaskId
    BY <1>9 DEF Handoff, Owns
  <2>. QED  BY <1>9, <2>1, AckMoves DEF Handoff, Attempt, UpdateAndAudit, Fault, AckInv, Promised
<1>10. ASSUME NEW h \in Handler, Reply(h)  PROVE AckInv'
  BY <1>10 DEF Reply, Fault, AckInv
<1>11. ASSUME NEW h \in Handler, ClientGone(h)  PROVE AckInv'
  BY <1>0, <1>11 DEF ClientGone
<1>12. ASSUME NEW r \in Request, Replay(r)  PROVE AckInv'
  BY <1>0, <1>12 DEF Replay
<1>13. ASSUME Claim  PROVE AckInv'
  BY <1>13, DispatcherAssumption DEF Claim, ClaimDue, Update, Due, AckInv, Promised
<1>14. ASSUME ClaimLost  PROVE AckInv'
  BY <1>14 DEF ClaimLost, Fault, AckInv
<1>15. ASSUME Unknown  PROVE AckInv'
  <2>1. Owns(Worker, cur[Worker]) /\ cur[Worker] \in TaskId
    BY <1>15 DEF Unknown, Owns
  <2>. QED  BY <1>15, <2>1, AckMoves, DispatcherAssumption
            DEF Unknown, Attempt, UpdateAndAudit, Fault, AckInv, Promised
<1>16. ASSUME Gate  PROVE AckInv'
  BY <1>16, DispatcherAssumption DEF Gate, AckInv
<1>17. ASSUME Requeue  PROVE AckInv'
  <2>1. Owns(Worker, cur[Worker]) /\ cur[Worker] \in TaskId
    BY <1>17 DEF Requeue, Owns
  <2>. QED  BY <1>17, <2>1, AckMoves, DispatcherAssumption
            DEF Requeue, Attempt, UpdateAndAudit, Fault, AckInv, Promised
<1>18. ASSUME NEW a \in Actor, Begin(a)  PROVE AckInv'
  <2>1. Owns(a, cur[a]) /\ cur[a] \in TaskId
    BY <1>18 DEF Begin, Owns
  <2>. QED  BY <1>18, <2>1, AckMoves, SMTT(60) DEF Begin, Attempt, UpdateAndAudit, Fault, AckInv, Promised
<1>19. ASSUME NEW a \in Actor, Spawn(a) \/ Reap(a)  PROVE AckInv'
  BY <1>19 DEF Spawn, Reap, AckInv
<1>20. ASSUME NEW a \in Actor, Record(a)  PROVE AckInv'
  BY <1>20 DEF Record, Attempt, RecordAttempt, Fault, AckInv
<1>21. ASSUME NEW a \in Actor, Verdict(a)  PROVE AckInv'
  BY <1>21 DEF Verdict, AckInv
<1>22. ASSUME NEW a \in Actor, Finish(a)  PROVE AckInv'
  <2>1. Owns(a, cur[a]) /\ cur[a] \in TaskId
    BY <1>22 DEF Finish, Owns
  <2>2. /\ \A b \in Actor : b # a => pc'[b] = pc[b] /\ cur'[b] = cur[b]
        /\ a \in Handler => pc'[a] = "reply" /\ cur'[a] = cur[a]
        /\ acked' = acked
    BY <1>22, DispatcherAssumption DEF Finish
  <2>3. /\ \A u \in TaskId : u # cur[a] => state'[u] = state[u]
        /\ state'[cur[a]] \in {state[cur[a]], "executed"}
        /\ faults' = 0 => faults = 0 /\ state'[cur[a]] = "executed"
    BY <1>22, <2>1 DEF Finish, Attempt, UpdateAndAudit, Fault
  <2>4. CASE faults' = 0
    BY <2>1, <2>2, <2>3, <2>4, AckMoves DEF Promised
  <2>5. CASE faults' # 0
    BY <2>5 DEF AckInv
  <2>. QED  BY <2>4, <2>5
<1>23. ASSUME NEW a \in Actor, Exhaust(a)  PROVE AckInv'
  <2>1. Owns(a, cur[a]) /\ cur[a] \in TaskId
    BY <1>23 DEF Exhaust, Owns
  <2>. QED  BY <1>23, <2>1, AckMoves DEF Exhaust, Attempt, UpdateAndAudit, Fault, AckInv, Promised
<1>24. ASSUME NEW a \in Actor, Retry(a)  PROVE AckInv'
  <2>1. Owns(a, cur[a]) /\ cur[a] \in TaskId
    BY <1>24 DEF Retry, Owns
  <2>2. /\ \A b \in Actor : b # a => pc'[b] = pc[b] /\ cur'[b] = cur[b]
        /\ a \in Handler => pc'[a] = "reply" /\ cur'[a] = cur[a]
        /\ acked' = acked
    BY <1>24, DispatcherAssumption DEF Retry
  <2>3. /\ \A u \in TaskId : u # cur[a] => state'[u] = state[u]
        /\ state'[cur[a]] \in {state[cur[a]], "retry_scheduled"}
        /\ faults' = 0 => faults = 0 /\ state'[cur[a]] = "retry_scheduled"
    BY <1>24, <2>1 DEF Retry, Attempt, UpdateAndAudit, Fault
  <2>4. CASE faults' = 0
    BY <2>1, <2>2, <2>3, <2>4, AckMoves DEF Promised
  <2>5. CASE faults' # 0
    BY <2>5 DEF AckInv
  <2>. QED  BY <2>4, <2>5
<1>25. ASSUME NEW a \in Actor, Notify(a)  PROVE AckInv'
  BY <1>25, DispatcherAssumption DEF Notify, AckInv
<1>26. ASSUME NEW t \in TaskId, ResumeRow(t)  PROVE AckInv'
  <2>1. \A a \in Actor : pc[a] = "idle" /\ pc'[a] = "idle"
    BY <1>26 DEF ResumeRow, Resuming, Pass, OwnInv, AtRest, Running
  <2>2. state[t] = Pass[phase].from /\ (phase = "resume_executing" => state'[t] \in Promised)
    BY <1>26 DEF ResumeRow, Update, Promised
  <2>3. phase # "resume_executing" => state[t] \notin Promised
    BY <1>26, <2>2 DEF ResumeRow, Resuming, Pass, Promised
  <2>4. \A u \in TaskId : u # t => state'[u] = state[u]
    BY <1>26 DEF ResumeRow, Update, UpdateAndAudit
  <2>. QED  BY <1>26, <2>1, <2>2, <2>3, <2>4 DEF ResumeRow, AckInv
<1>27. CASE Boot \/ ResumeNext \/ Stop
  BY <1>0, <1>27 DEF Boot, ResumeNext, Stop, Fault
<1>28. CASE ResumeFails \/ Exit \/ Crash
  BY <1>28 DEF ResumeFails, Exit, Crash, Wipe, Fault, AckInv
<1>29. ASSUME NEW v \in Verb, Health(v) \/ CoolDown(v)  PROVE AckInv'
  BY <1>0, <1>29 DEF Health, CoolDown
<1>30. ASSUME NEW t \in TaskId, RetryDue(t)  PROVE AckInv'
  BY <1>0, <1>30 DEF RetryDue, RunTimeReached
<1>31. ASSUME NEW h \in Handler, Refer(h) \/ Unreadable(h)  PROVE AckInv'
  BY <1>31, SMTT(60) DEF Refer, Unreadable, Fault, AckInv
<1>32. CASE UNCHANGED vars
  BY <1>0, <1>32 DEF vars
<1>. QED
  BY <1>1, <1>2, <1>3, <1>4, <1>5, <1>6, <1>7, <1>8, <1>9, <1>10, <1>11, <1>12, <1>13,
     <1>14, <1>15, <1>16, <1>17, <1>18, <1>19, <1>20, <1>21, <1>22, <1>23, <1>24, <1>25,
     <1>26, <1>27, <1>28, <1>29, <1>30, <1>31, <1>32
     DEF Next, HandlerStep, WorkerStep, ExecStep, BootStep

(* A task answered 202 is never canceled as long as the store works: not by
   a race, not by resume after any number of crashes. *)
THEOREM AcksAreKept == Spec => []AckedNotCanceled
<1>1. Spec => []TypeInv
  BY TypeInit, TypeStep, PTL DEF Spec
<1>2. Spec => []OwnInv
  BY <1>1, OwnInit, OwnStep, PTL DEF Spec
<1>3. Spec => []AckInv
  BY <1>1, <1>2, AckInit, AckStep, PTL DEF Spec
<1>4. AckInv => AckedNotCanceled
  BY DEF AckInv, AckedNotCanceled, Promised
<1>. QED  BY <1>3, <1>4, PTL

-----------------------------------------------------------------------------
(* No row is left behind.                                                  *)

InProgress == {"accepted", "executing"}

(***************************************************************************)
(* Between the passes of resume no row has an owner: what makes NoOrphans  *)
(* true when the daemon is up is that each pass has left none of its rows. *)
(***************************************************************************)
OrphanInv ==
    faults = 0 =>
        /\ Running => \A t \in TaskId : state[t] \in InProgress => \E a \in Actor : Owns(a, t)
        /\ phase = "resume_accepted" => \A t \in TaskId : state[t] # "executing"
        /\ phase = "resume_legacy" => \A t \in TaskId : state[t] \notin InProgress

LEMMA OrphanInit == Init => OrphanInv
BY DEF Init, OrphanInv, Running

(* An owner that writes at most its own row, and lets go of it only when it
   is no longer in progress, leaves none behind. *)
LEMMA OrphanMoves ==
    ASSUME TypeInv, OwnInv, OrphanInv, NEW a \in Actor, pc[a] # "idle",
           phase' = phase, faults' = 0 => faults = 0,
           \A b \in Actor : b # a => pc'[b] = pc[b] /\ cur'[b] = cur[b] /\ out'[b] = out[b],
           \A t \in TaskId : state'[t] # state[t] => Owns(a, t),
           faults' = 0 => \A t \in TaskId :
               Owns(a, t) /\ state'[t] \in InProgress => Owns(a, t)'
    PROVE  OrphanInv'
<1>. SUFFICES ASSUME faults' = 0 PROVE OrphanInv'
  BY DEF OrphanInv
<1>1. faults = 0 /\ Running
  BY DEF OwnInv, AtRest
<1>2. Running' /\ phase' \notin {"resume_accepted", "resume_legacy"}
  BY <1>1 DEF Running
<1>3. ASSUME NEW t \in TaskId, state'[t] \in InProgress
      PROVE  \E b \in Actor : Owns(b, t)'
  <2>1. CASE Owns(a, t)
    BY <1>3, <2>1
  <2>2. CASE ~Owns(a, t)
    <3>1. PICK b \in Actor : Owns(b, t)
      BY <1>1, <1>3, <2>2 DEF OrphanInv
    <3>2. b # a /\ Owns(b, t)'
      BY <2>2, <3>1 DEF Owns
    <3>. QED  BY <3>2
  <2>. QED  BY <2>1, <2>2
<1>. QED  BY <1>2, <1>3 DEF OrphanInv

(* Steps that leave rows, phase and owners alone. *)
LEMMA OrphanIdle ==
    ASSUME OrphanInv, UNCHANGED <<state, phase, pc, cur, out>>, faults' = 0 => faults = 0
    PROVE  OrphanInv'
BY DEF OrphanInv, Running, Owns

LEMMA OrphanStep == TypeInv /\ OwnInv /\ AckInv /\ OrphanInv /\ [Next]_vars => OrphanInv'
<1>. SUFFICES ASSUME TypeInv, OwnInv, AckInv, OrphanInv, [Next]_vars PROVE OrphanInv'
  OBVIOUS
<1>. USE DEF TypeInv, TypeOK, TablesTypeOK, InHand, Actor, tables, daemon, actors, ghosts,
         bounds, Goto, Done, Return
<1>1. ASSUME NEW h \in Handler, Post(h)  PROVE OrphanInv'
  <2>1. pc[h] = "idle" /\ cur[h] \notin TaskId
    BY <1>1 DEF Post, OwnInv, Unstarted, TaskId, NoTask
  <2>. QED  BY <1>1, <2>1 DEF Post, Fault, OrphanInv, Running, Owns
<1>2. ASSUME NEW h \in Handler, Peek(h) \/ CreateRefused(h)  PROVE OrphanInv'
  <2>1. pc[h] \in {"peek", "create"} /\ cur[h] \notin TaskId
    BY <1>2 DEF Peek, CreateRefused, OwnInv, Unstarted, TaskId, NoTask
  <2>2. \A t \in TaskId : ~Owns(h, t)
    BY <2>1 DEF Owns
  <2>3. /\ state' = state /\ phase' = phase /\ (faults' = 0 => faults = 0)
        /\ \A b \in Actor : b # h => pc'[b] = pc[b] /\ cur'[b] = cur[b] /\ out'[b] = out[b]
    BY <1>2 DEF Peek, CreateRefused, Fault
  <2>. QED  BY <2>1, <2>2, <2>3, OrphanMoves
<1>3. ASSUME NEW h \in Handler, Create(h)  PROVE OrphanInv'
  <2>1. PICK t \in TaskId : /\ state' = [state EXCEPT ![t] = "accepted"]
                            /\ cur' = [cur EXCEPT ![h] = t]
    BY <1>3 DEF Create, CreateAndAuditLimited
  <2>2. /\ pc[h] = "create" /\ cur[h] \notin TaskId
        /\ pc' = [pc EXCEPT ![h] = IF hreq[h].key = NoKey THEN "admit" ELSE "bind"]
        /\ UNCHANGED <<phase, out, faults>>
    BY <1>3 DEF Create, OwnInv, Unstarted, TaskId, NoTask
  <2>3. Running
    BY <2>2 DEF OwnInv, AtRest
  <2>4. Owns(h, t)' /\ \A b \in Actor, u \in TaskId : Owns(b, u) => Owns(b, u)'
    BY <2>1, <2>2 DEF Owns
  <2>. QED  BY <2>1, <2>2, <2>3, <2>4 DEF OrphanInv, Running
<1>4. ASSUME NEW h \in Handler, Bind(h) \/ CarryOn(h)  PROVE OrphanInv'
  <2>1. /\ pc[h] \in {"bind", "supersede"} /\ pc'[h] \in {"admit", "supersede"}
        /\ UNCHANGED <<state, phase, cur, out>> /\ (faults' = 0 => faults = 0)
        /\ \A b \in Actor : b # h => pc'[b] = pc[b]
    BY <1>4 DEF Bind, CarryOn, SaveIdempotency, Fault
  <2>. QED  BY <2>1, OrphanMoves DEF Owns
<1>5. ASSUME NEW h \in Handler, Supersede(h)  PROVE OrphanInv'
  BY <1>5, OrphanMoves DEF Supersede, Attempt, UpdateAndAudit, Fault, Owns
<1>6. ASSUME NEW h \in Handler, Refer(h)  PROVE OrphanInv'
  <2>1. faults = 0 => state[cur[h]] = "canceled"
    BY <1>6 DEF Refer, AckInv
  <2>. QED  BY <1>6, <2>1, OrphanMoves DEF Refer, Owns, InProgress
<1>7. ASSUME NEW h \in Handler, Unreadable(h)  PROVE OrphanInv'
  BY <1>7 DEF Unreadable, Fault, OrphanInv
<1>8. ASSUME NEW h \in Handler, Admit(h)  PROVE OrphanInv'
  BY <1>8, OrphanMoves DEF Admit, Attempt, UpdateAndAudit, Fault, Owns
<1>9. ASSUME NEW h \in Handler, Handoff(h)  PROVE OrphanInv'
  BY <1>9, OrphanMoves DEF Handoff, Attempt, UpdateAndAudit, Fault, Owns, InProgress
<1>10. ASSUME NEW h \in Handler, Reply(h)  PROVE OrphanInv'
  BY <1>10, OrphanMoves DEF Reply, Fault, Owns
<1>11. ASSUME NEW h \in Handler, ClientGone(h)  PROVE OrphanInv'
  BY <1>11, OrphanIdle DEF ClientGone
<1>12. ASSUME NEW r \in Request, Replay(r)  PROVE OrphanInv'
  BY <1>12, OrphanIdle DEF Replay
<1>13. ASSUME Claim  PROVE OrphanInv'
  <2>1. PICK t \in TaskId : /\ state' = [state EXCEPT ![t] = "executing"]
                            /\ cur' = [cur EXCEPT ![Worker] = t]
    BY <1>13 DEF Claim, ClaimDue, Update
  <2>2. /\ pc[Worker] = "idle" /\ pc' = [pc EXCEPT ![Worker] = "gate"] /\ Running
        /\ UNCHANGED <<phase, out, faults>>
    BY <1>13 DEF Claim, Running
  <2>3. Owns(Worker, t)' /\ \A b \in Actor, u \in TaskId : Owns(b, u) => Owns(b, u)'
    BY <2>1, <2>2 DEF Owns
  <2>. QED  BY <2>1, <2>2, <2>3, SMTT(60) DEF OrphanInv, Running
<1>14. ASSUME ClaimLost  PROVE OrphanInv'
  BY <1>14 DEF ClaimLost, Fault, OrphanInv
<1>15. ASSUME Unknown  PROVE OrphanInv'
  <2>1. /\ pc[Worker] = "gate" /\ Owns(Worker, cur[Worker]) /\ cur[Worker] \in TaskId
        /\ phase' = phase
        /\ \A b \in Actor : b # Worker => pc'[b] = pc[b] /\ cur'[b] = cur[b] /\ out'[b] = out[b]
    BY <1>15 DEF Unknown, Owns
  <2>2. /\ \A u \in TaskId : u # cur[Worker] => state'[u] = state[u]
        /\ faults' = 0 => faults = 0 /\ state'[cur[Worker]] \notin InProgress
    BY <1>15, <2>1 DEF Unknown, Attempt, UpdateAndAudit, Fault, InProgress
  <2>. QED  BY <2>1, <2>2, OrphanMoves DEF Owns
<1>16. ASSUME Gate  PROVE OrphanInv'
  BY <1>16, OrphanMoves DEF Gate, Owns
<1>17. ASSUME Requeue  PROVE OrphanInv'
  <2>1. /\ pc[Worker] = "requeue" /\ Owns(Worker, cur[Worker]) /\ cur[Worker] \in TaskId
        /\ phase' = phase
        /\ \A b \in Actor : b # Worker => pc'[b] = pc[b] /\ cur'[b] = cur[b] /\ out'[b] = out[b]
    BY <1>17 DEF Requeue, Owns
  <2>2. /\ \A u \in TaskId : u # cur[Worker] => state'[u] = state[u]
        /\ faults' = 0 => faults = 0 /\ state'[cur[Worker]] \notin InProgress
    BY <1>17, <2>1 DEF Requeue, Attempt, UpdateAndAudit, Fault, InProgress
  <2>. QED  BY <2>1, <2>2, OrphanMoves DEF Owns
<1>18. ASSUME NEW a \in Actor, Begin(a)  PROVE OrphanInv'
  BY <1>18, OrphanMoves DEF Begin, Attempt, UpdateAndAudit, Fault, Owns
<1>19. ASSUME NEW a \in Actor, Spawn(a) \/ Reap(a)  PROVE OrphanInv'
  BY <1>19, OrphanMoves DEF Spawn, Reap, Owns
<1>20. ASSUME NEW a \in Actor, Record(a)  PROVE OrphanInv'
  BY <1>20, OrphanMoves DEF Record, Attempt, RecordAttempt, Fault, Owns
<1>21. ASSUME NEW a \in Actor, Verdict(a)  PROVE OrphanInv'
  BY <1>21, OrphanMoves DEF Verdict, Owns
<1>22. ASSUME NEW a \in Actor, Finish(a) \/ Exhaust(a) \/ Retry(a)  PROVE OrphanInv'
  <2>1. /\ pc[a] = "settle" /\ Owns(a, cur[a]) /\ cur[a] \in TaskId /\ phase' = phase
        /\ \A b \in Actor : b # a => pc'[b] = pc[b] /\ cur'[b] = cur[b] /\ out'[b] = out[b]
    BY <1>22 DEF Finish, Exhaust, Retry, Owns
  <2>2. /\ \A u \in TaskId : u # cur[a] => state'[u] = state[u]
        /\ faults' = 0 => faults = 0 /\ state'[cur[a]] \notin InProgress
    BY <1>22, <2>1 DEF Finish, Exhaust, Retry, Attempt, UpdateAndAudit, Fault, InProgress
  <2>. QED  BY <2>1, <2>2, OrphanMoves DEF Owns
<1>23. ASSUME NEW a \in Actor, Notify(a)  PROVE OrphanInv'
  BY <1>23, OrphanMoves DEF Notify, Owns
<1>24. ASSUME NEW t \in TaskId, ResumeRow(t)  PROVE OrphanInv'
  <2>1. phase' = phase /\ ~Running /\ faults' = faults /\ Resuming
    BY <1>24 DEF ResumeRow, Resuming, Pass, Running
  <2>2. \A u \in TaskId : state'[u] \in InProgress => state'[u] = state[u]
    BY <1>24 DEF ResumeRow, Update, UpdateAndAudit, InProgress
  <2>. QED  BY <2>1, <2>2 DEF OrphanInv, Running, InProgress
<1>25. ASSUME ResumeNext  PROVE OrphanInv'
  <2>1. /\ phase \in DOMAIN Pass /\ phase' = Pass[phase].next /\ state' = state
        /\ faults' = 0 => faults = 0 /\ \A t \in TaskId : state[t] # Pass[phase].from
    BY <1>25 DEF ResumeNext, Resuming, Fault
  <2>. QED  BY <2>1 DEF Pass, OrphanInv, Running, InProgress
<1>26. CASE Boot
  BY <1>26 DEF Boot, OrphanInv, Running
<1>27. CASE Stop
  BY <1>27 DEF Stop, OrphanInv, Running, Owns
<1>28. CASE ResumeFails \/ Exit \/ Crash
  BY <1>28 DEF ResumeFails, Exit, Crash, Wipe, OrphanInv, Running
<1>29. ASSUME NEW v \in Verb, Health(v) \/ CoolDown(v)  PROVE OrphanInv'
  BY <1>29, OrphanIdle DEF Health, CoolDown
<1>30. ASSUME NEW t \in TaskId, RetryDue(t)  PROVE OrphanInv'
  BY <1>30, OrphanIdle DEF RetryDue, RunTimeReached
<1>31. CASE UNCHANGED vars
  BY <1>31, OrphanIdle DEF vars
<1>. QED
  BY <1>1, <1>2, <1>3, <1>4, <1>5, <1>6, <1>7, <1>8, <1>9, <1>10, <1>11, <1>12, <1>13,
     <1>14, <1>15, <1>16, <1>17, <1>18, <1>19, <1>20, <1>21, <1>22, <1>23, <1>24, <1>25,
     <1>26, <1>27, <1>28, <1>29, <1>30, <1>31
     DEF Next, HandlerStep, WorkerStep, ExecStep, BootStep

(* While the daemon runs on a working store every accepted or executing row
   is in somebody's hands: neither a handler nor the worker drops one, and
   resume leaves none of an earlier process. *)
THEOREM NothingIsOrphaned == Spec => []NoOrphans
<1>1. Spec => []TypeInv
  BY TypeInit, TypeStep, PTL DEF Spec
<1>2. Spec => []OwnInv
  BY <1>1, OwnInit, OwnStep, PTL DEF Spec
<1>3. Spec => []AckInv
  BY <1>1, <1>2, AckInit, AckStep, PTL DEF Spec
<1>4. Spec => []OrphanInv
  BY <1>1, <1>2, <1>3, OrphanInit, OrphanStep, PTL DEF Spec
<1>5. OrphanInv => NoOrphans
  BY DEF OrphanInv, NoOrphans, InProgress
<1>. QED  BY <1>4, <1>5, PTL

-----------------------------------------------------------------------------
(* The queue's bound.                                                      *)

(* The legacy rows are all there is. *)
LEMMA DepthInit == Init => DepthBounded
<1>. SUFFICES ASSUME Init, Legacy <= MaxQueueDepth PROVE Depth <= MaxQueueDepth
  BY DEF DepthBounded
<1>1. {t \in TaskId : state[t] \in Active} = 1 .. Legacy
  BY StoreAssumption DEF Init, TablesInit, Active, TaskId
<1>2. Cardinality(1 .. Legacy) = Legacy
  BY StoreAssumption, FS_Interval
<1>. QED  BY <1>1, <1>2 DEF Depth

LEMMA RowsFinite == \A S \in SUBSET TaskId : IsFiniteSet(S) /\ Cardinality(S) \in Nat
<1>1. IsFiniteSet(TaskId)
  BY StoreAssumption, FS_Interval DEF TaskId
<1>. QED  BY <1>1, FS_Subset, FS_CardinalityType

(* A row that does not exist comes into being by Create alone: every other
   step writes rows that somebody owns, or that are due or to be resumed. *)
LEMMA FreeStep ==
    TypeInv /\ OwnInv /\ [Next]_vars =>
        /\ revived \subseteq revived'
        /\ (\E h \in Handler : Create(h)) \/ \A t \in TaskId : state[t] = "free" => state'[t] = "free"
<1>. DEFINE Stays == /\ revived \subseteq revived'
                     /\ \A t \in TaskId : state[t] = "free" => state'[t] = "free"
<1>. SUFFICES ASSUME TypeInv, OwnInv, [Next]_vars
              PROVE  Stays \/ (revived' = revived /\ \E h \in Handler : Create(h))
  OBVIOUS
<1>. USE DEF TypeInv, TypeOK, TablesTypeOK, InHand, Actor, tables, daemon, actors, ghosts
<1>0. ASSUME NEW a \in Actor, pc[a] \notin {"idle", "reply", "notify", "verdict"},
             revived' = revived,
             \A t \in TaskId : state'[t] # state[t] => t = cur[a]
      PROVE  Stays
  BY <1>0 DEF OwnInv, OwnedActive, Owns
<1>1. ASSUME NEW h \in Handler, Create(h)  PROVE revived' = revived
  BY <1>1 DEF Create
<1>2. ASSUME NEW h \in Handler, Supersede(h) \/ Admit(h) \/ Handoff(h)  PROVE Stays
  BY <1>0, <1>2 DEF Supersede, Admit, Handoff, Attempt, UpdateAndAudit
<1>3. ASSUME NEW h \in Handler, Unreadable(h)  PROVE Stays
  BY <1>3 DEF Unreadable
<1>4. CASE Unknown \/ Requeue
  <2>1. pc[Worker] \in {"gate", "requeue"} /\ revived' = revived
    BY <1>4 DEF Unknown, Requeue
  <2>2. \A t \in TaskId : state'[t] # state[t] => t = cur[Worker]
    BY <1>4 DEF Unknown, Requeue, Attempt, UpdateAndAudit
  <2>. QED  BY <1>0, <2>1, <2>2
<1>5. CASE Claim \/ ClaimLost
  BY <1>5 DEF Claim, ClaimLost, ClaimDue, Update, Due
<1>6. ASSUME NEW a \in Actor, Begin(a) \/ Finish(a) \/ Exhaust(a) \/ Retry(a)  PROVE Stays
  BY <1>0, <1>6 DEF Begin, Finish, Exhaust, Retry, Attempt, UpdateAndAudit
<1>7. ASSUME NEW t \in TaskId, ResumeRow(t)  PROVE Stays
  BY <1>7 DEF ResumeRow, Update, UpdateAndAudit, Resuming, Pass
<1>8. ASSUME UNCHANGED <<state, revived>>  PROVE Stays
  BY <1>8
<1>9. ASSUME NEW h \in Handler,
             \/ Post(h) \/ Peek(h) \/ CreateRefused(h) \/ Bind(h) \/ Refer(h) \/ CarryOn(h)
             \/ Reply(h) \/ ClientGone(h)
      PROVE  Stays
  BY <1>8, <1>9 DEF Post, Peek, CreateRefused, Bind, SaveIdempotency, Refer, CarryOn, Reply,
                    ClientGone
<1>10. ASSUME NEW a \in Actor, Spawn(a) \/ Reap(a) \/ Record(a) \/ Verdict(a) \/ Notify(a)
       PROVE  Stays
  BY <1>8, <1>10 DEF Spawn, Reap, Record, Attempt, RecordAttempt, Verdict, Notify
<1>11. CASE Gate \/ Boot \/ ResumeNext \/ ResumeFails \/ Stop \/ Exit \/ Crash
  BY <1>8, <1>11 DEF Gate, Boot, ResumeNext, ResumeFails, Stop, Exit, Crash, Wipe
<1>12. CASE \/ \E r \in Request : Replay(r)
            \/ \E v \in Verb : Health(v) \/ CoolDown(v)
            \/ \E t \in TaskId : RetryDue(t)
  BY <1>8, <1>12 DEF Replay, Health, CoolDown, RetryDue, RunTimeReached
<1>13. CASE UNCHANGED vars
  BY <1>8, <1>13 DEF vars
<1>. QED
  BY <1>1, <1>2, <1>3, <1>4, <1>5, <1>6, <1>7, <1>9, <1>10, <1>11, <1>12, <1>13
     DEF Next, HandlerStep, WorkerStep, ExecStep, BootStep

(* Create counts and inserts in one transaction; nothing else adds an active
   row, for settled rows stay and free ones are Create's. *)
LEMMA DepthStep == TypeInv /\ OwnInv /\ DepthBounded /\ [Next]_vars => DepthBounded'
<1>. DEFINE Queue == {t \in TaskId : state[t] \in Active}
<1>. SUFFICES ASSUME TypeInv, OwnInv, DepthBounded, [Next]_vars,
                     Legacy <= MaxQueueDepth, revived' = {}
              PROVE  Depth' <= MaxQueueDepth
  BY DEF DepthBounded
<1>1. revived = {}
  BY FreeStep
<1>2. Depth <= MaxQueueDepth /\ Depth = Cardinality(Queue) /\ Depth' = Cardinality(Queue')
  BY <1>1 DEF DepthBounded, Depth
<1>3. /\ IsFiniteSet(Queue) /\ Cardinality(Queue) \in Nat
      /\ IsFiniteSet(Queue') /\ Cardinality(Queue') \in Nat
  BY RowsFinite
<1>4. ASSUME NEW h \in Handler, Create(h)  PROVE Depth' <= MaxQueueDepth
  <2>1. PICK t \in TaskId : /\ state[t] = "free" /\ Depth < MaxQueueDepth
                            /\ state' = [state EXCEPT ![t] = "accepted"]
    BY <1>4 DEF Create, CreateAndAuditLimited, Fresh
  <2>2. Queue' = Queue \cup {t} /\ t \notin Queue
    BY <2>1 DEF Active, TypeInv, TypeOK, TablesTypeOK
  <2>. HIDE DEF Queue
  <2>3. Cardinality(Queue') = Cardinality(Queue) + 1
    BY <1>3, <2>2, FS_AddElement
  <2>. QED  BY <1>2, <1>3, <2>1, <2>3, StoreAssumption
<1>5. ASSUME ~ \E h \in Handler : Create(h)  PROVE Depth' <= MaxQueueDepth
  <2>1. \A t \in TaskId : state[t] \notin Active => state'[t] \notin Active
    <3>1. \A t \in TaskId : state[t] \in Terminal => state'[t] \in Terminal
      BY <1>1, SettledStep
    <3>2. \A t \in TaskId : state[t] = "free" => state'[t] = "free"
      BY <1>5, FreeStep
    <3>. QED  BY <3>1, <3>2 DEF TypeInv, TypeOK, TablesTypeOK, TaskState, Active, Terminal
  <2>2. Queue' \subseteq Queue
    BY <2>1
  <2>. HIDE DEF Queue
  <2>3. Cardinality(Queue') <= Cardinality(Queue)
    BY <1>3, <2>2, FS_Subset
  <2>. QED  BY <1>2, <1>3, <2>3, StoreAssumption
<1>. QED  BY <1>4, <1>5

(* The active rows never exceed max_queue_depth, however concurrent posts,
   retries and restarts interleave (sqlite.go:249-302). *)
THEOREM QueueStaysBounded == Spec => []DepthBounded
<1>1. Spec => []TypeInv
  BY TypeInit, TypeStep, PTL DEF Spec
<1>2. Spec => []OwnInv
  BY <1>1, OwnInit, OwnStep, PTL DEF Spec
<1>. QED  BY <1>1, <1>2, DepthInit, DepthStep, PTL DEF Spec

-----------------------------------------------------------------------------
(* Probes.                                                                 *)

(* No write makes a row free again, and the request of a row stays: only
   Create sets it, on a row that did not exist.  A bound key stays bound. *)
LEMMA RowsExist ==
    TypeInv /\ [Next]_vars =>
        /\ \A t \in TaskId : state[t] # "free" => state'[t] # "free" /\ req'[t] = req[t]
        /\ \A k \in Key : idem[k] # NoTask => idem'[k] = idem[k]
<1>. DEFINE Exist ==
        /\ \A t \in TaskId : state[t] # "free" => state'[t] # "free" /\ req'[t] = req[t]
        /\ \A k \in Key : idem[k] # NoTask => idem'[k] = idem[k]
<1>. SUFFICES ASSUME TypeInv, [Next]_vars PROVE Exist
  OBVIOUS
<1>. USE DEF TypeInv, TypeOK, TablesTypeOK, Actor, tables, daemon, actors, ghosts
<1>0. ASSUME UNCHANGED <<state, req, idem>>  PROVE Exist
  BY <1>0
<1>1. ASSUME NEW h \in Handler, Create(h)  PROVE Exist
  BY <1>1 DEF Create, CreateAndAuditLimited, Fresh
<1>2. ASSUME NEW h \in Handler, Supersede(h) \/ Admit(h) \/ Handoff(h)  PROVE Exist
  BY <1>2 DEF Supersede, Admit, Handoff, Attempt, UpdateAndAudit
<1>3. CASE Unknown \/ Requeue \/ Claim \/ ClaimLost
  BY <1>3 DEF Unknown, Requeue, Claim, ClaimLost, ClaimDue, Update, Attempt, UpdateAndAudit
<1>4. ASSUME NEW a \in Actor, Begin(a) \/ Finish(a) \/ Exhaust(a) \/ Retry(a)  PROVE Exist
  BY <1>4 DEF Begin, Finish, Exhaust, Retry, Attempt, UpdateAndAudit
<1>5. ASSUME NEW t \in TaskId, ResumeRow(t)  PROVE Exist
  BY <1>5 DEF ResumeRow, Update, UpdateAndAudit
<1>6. ASSUME NEW h \in Handler,
             \/ Post(h) \/ Peek(h) \/ CreateRefused(h) \/ Refer(h) \/ Unreadable(h)
             \/ CarryOn(h) \/ Reply(h) \/ ClientGone(h)
      PROVE  Exist
  BY <1>0, <1>6 DEF Post, Peek, CreateRefused, Refer, Unreadable,
                    CarryOn, Reply, ClientGone
<1>7. ASSUME NEW a \in Actor, Spawn(a) \/ Reap(a) \/ Record(a) \/ Verdict(a) \/ Notify(a)
      PROVE  Exist
  BY <1>0, <1>7 DEF Spawn, Reap, Record, Attempt, RecordAttempt, Verdict, Notify
<1>8. CASE Gate \/ Boot \/ ResumeNext \/ ResumeFails \/ Stop \/ Exit \/ Crash
  BY <1>0, <1>8 DEF Gate, Boot, ResumeNext, ResumeFails, Stop, Exit, Crash, Wipe
<1>9. CASE \/ \E r \in Request : Replay(r)
           \/ \E v \in Verb : Health(v) \/ CoolDown(v)
           \/ \E t \in TaskId : RetryDue(t)
  BY <1>0, <1>9 DEF Replay, Health, CoolDown, RetryDue, RunTimeReached
<1>10. CASE UNCHANGED vars
  BY <1>0, <1>10 DEF vars
<1>11. ASSUME NEW h \in Handler, Bind(h)  PROVE Exist
  BY <1>11 DEF Bind, SaveIdempotency, Bound
<1>. QED
  BY <1>1, <1>2, <1>3, <1>4, <1>5, <1>6, <1>7, <1>8, <1>9, <1>10, <1>11
     DEF Next, HandlerStep, WorkerStep, ExecStep, BootStep

(* The steps between the gate and the worker's report. *)
Probing == {"begin", "spawn", "wait", "record", "settle", "verdict"}

(***************************************************************************)
(* Only a half-open breaker counts a probe; a worker that has reported a   *)
(* failure has ended the one there was; and the task in its hands is a row *)
(* that exists, whose verb does not change.                                *)
(***************************************************************************)
ProbeInv ==
    /\ ProbeHasOwner
    /\ \A v \in Verb : breakers[v].trial => breakers[v].state = "half_open"
    /\ pc[Worker] = "settle" /\ out[Worker] # "ok" => \A v \in Verb : ~breakers[v].trial
    /\ pc[Worker] # "idle" => cur[Worker] \in TaskId /\ state[cur[Worker]] # "free"

LEMMA ProbeInit == Init => ProbeInv
BY DEF Init, ProbeInv, ProbeHasOwner, NewBreaker, Actor

(* What the methods do to a probe: Allow alone starts one, and a verdict ends it. *)
LEMMA BreakerProbes ==
    ASSUME NEW b \in BreakerType, b.trial => b.state = "half_open"
    PROVE  /\ MaybeTransition(b).trial => b.trial /\ MaybeTransition(b).state = "half_open"
           /\ Cool(b).trial => b.trial /\ Cool(b).state = "half_open"
           /\ ~AfterSuccess(b).trial /\ ~AfterFailure(b).trial /\ ~NewBreaker.trial
           /\ AfterAllow(b).trial => AfterAllow(b).state = "half_open"
           /\ ~Allow(b) => (AfterAllow(b).trial => b.trial)
<1>. USE DEF BreakerType, BreakerState
<1>1. MaybeTransition(b).trial => b.trial /\ MaybeTransition(b).state = "half_open"
  BY DEF MaybeTransition
<1>2. Cool(b).trial => b.trial /\ Cool(b).state = "half_open"
  BY DEF Cool
<1>3. ~AfterSuccess(b).trial /\ ~AfterFailure(b).trial /\ ~NewBreaker.trial
  BY DEF AfterSuccess, AfterFailure, NewBreaker, Opened
<1>4. /\ AfterAllow(b).trial => AfterAllow(b).state = "half_open"
      /\ ~Allow(b) => (AfterAllow(b).trial => b.trial)
  <2>. DEFINE c == MaybeTransition(b)
  <2>1. c \in BreakerType
    BY BreakerTypes
  <2>2. AfterAllow(b) = IF c.state = "half_open" /\ Allow(b)
                        THEN [c EXCEPT !.trial = TRUE, !.lapsed = FALSE] ELSE c
    BY DEF AfterAllow
  <2>3. c.trial => b.trial /\ c.state = "half_open"
    BY <1>1
  <2>. HIDE DEF c
  <2>. QED  BY <2>1, <2>2, <2>3
<1>. QED  BY <1>1, <1>2, <1>3, <1>4

(* A step that starts no probe: the worker keeps its task and does not leave
   the probing steps while there is a probe. *)
LEMMA ProbeStays ==
    ASSUME TypeInv, ProbeInv, [Next]_vars,
           pc'[Worker] # "idle" => pc[Worker] # "idle" /\ cur'[Worker] = cur[Worker],
           pc[Worker] \in Probing /\ (\E v \in Verb : breakers'[v].trial) =>
               /\ pc'[Worker] \in Probing
               /\ pc'[Worker] = "settle" => out'[Worker] = "ok" \/ pc[Worker] = "settle",
           pc'[Worker] = "settle" /\ pc[Worker] = "settle" => out'[Worker] = out[Worker],
           pc'[Worker] = "settle" => pc[Worker] \in Probing,
           \A v \in Verb : breakers'[v].trial =>
               breakers[v].trial /\ breakers'[v].state = "half_open"
    PROVE  ProbeInv'
<1>1. pc'[Worker] # "idle" => cur'[Worker] \in TaskId /\ state'[cur'[Worker]] # "free"
  BY RowsExist DEF ProbeInv
<1>2. ProbeHasOwner'
  <2>. SUFFICES ASSUME NEW v \in Verb, breakers'[v].trial
                PROVE  pc'[Worker] \in Probing /\ VerbOf(Worker)' = v
    BY DEF ProbeHasOwner, Probing
  <2>1. pc[Worker] \in Probing /\ VerbOf(Worker) = v
    BY DEF ProbeInv, ProbeHasOwner, Probing
  <2>2. pc'[Worker] \in Probing
    BY <2>1
  <2>3. /\ cur'[Worker] = cur[Worker] /\ cur[Worker] \in TaskId
        /\ state[cur[Worker]] # "free"
    BY <2>1, <2>2 DEF ProbeInv, Probing
  <2>. QED  BY <2>1, <2>2, <2>3, RowsExist DEF VerbOf
<1>3. pc'[Worker] = "settle" /\ out'[Worker] # "ok" => \A v \in Verb : ~breakers'[v].trial
  BY DEF ProbeInv
<1>. QED  BY <1>1, <1>2, <1>3 DEF ProbeInv

(* Gate alone starts a probe, for the task the worker goes on to run; only the
   worker's verdict, a restart or somebody else's verdict ends it. *)
LEMMA ProbeStep == TypeInv /\ OwnInv /\ ProbeInv /\ [Next]_vars => ProbeInv'
<1>. SUFFICES ASSUME TypeInv, OwnInv, ProbeInv, [Next]_vars PROVE ProbeInv'
  OBVIOUS
<1>. USE DEF TypeInv, TypeOK, Actor, Goto, Done, Return
<1>1. \A v \in Verb : breakers[v] \in BreakerType /\ (breakers[v].trial => breakers[v].state = "half_open")
  BY DEF ProbeInv
<1>2. \A v \in Verb : pc[Worker] \notin Probing => ~breakers[v].trial
  BY DEF ProbeInv, ProbeHasOwner, Probing
<1>3. ASSUME breakers' = breakers, UNCHANGED <<pc[Worker], cur[Worker], out[Worker]>>
      PROVE  ProbeInv'
  <2>1. pc[Worker] = "settle" => pc[Worker] \in Probing
    BY DEF Probing
  <2>. QED  BY <1>1, <1>3, <2>1, ProbeStays
<1>4. ASSUME NEW h \in Handler, Peek(h)  PROVE ProbeInv'
  <2>1. UNCHANGED <<pc[Worker], cur[Worker], out[Worker]>>
    BY <1>4, DispatcherAssumption DEF Peek
  <2>2. \A v \in Verb : breakers'[v] = breakers[v] \/ breakers'[v] = MaybeTransition(breakers[v])
    BY <1>4 DEF Peek
  <2>3. \A v \in Verb : breakers'[v].trial => breakers[v].trial /\ breakers'[v].state = "half_open"
    BY <1>1, <2>2, BreakerProbes
  <2>4. pc[Worker] = "settle" => pc[Worker] \in Probing
    BY DEF Probing
  <2>. QED  BY <2>1, <2>3, <2>4, ProbeStays
<1>5. ASSUME NEW v \in Verb, Health(v) \/ CoolDown(v)  PROVE ProbeInv'
  <2>1. UNCHANGED <<pc, cur, out>>
    BY <1>5 DEF Health, CoolDown, actors
  <2>2. \A u \in Verb : \/ breakers'[u] = breakers[u]
                        \/ breakers'[u] = MaybeTransition(breakers[u])
                        \/ breakers'[u] = Cool(breakers[u])
    BY <1>5 DEF Health, CoolDown
  <2>3. \A u \in Verb : breakers'[u].trial => breakers[u].trial /\ breakers'[u].state = "half_open"
    BY <1>1, <2>2, BreakerProbes
  <2>4. pc[Worker] = "settle" => pc[Worker] \in Probing
    BY DEF Probing
  <2>. QED  BY <2>1, <2>3, <2>4, ProbeStays
<1>6. CASE Gate
  <2>. DEFINE v == VerbOf(Worker)
  <2>1. /\ pc[Worker] = "gate" /\ cur' = cur /\ out' = out
        /\ breakers' = [breakers EXCEPT ![v] = AfterAllow(breakers[v])]
        /\ pc' = [pc EXCEPT ![Worker] = IF Allow(breakers[v]) THEN "begin" ELSE "requeue"]
        /\ UNCHANGED <<state, req>>
    BY <1>6 DEF Gate, tables
  <2>2. cur[Worker] \in TaskId /\ state[cur[Worker]] # "free" /\ VerbOf(Worker)' = v
    BY <2>1 DEF ProbeInv, VerbOf
  <2>3. \A u \in Verb : ~breakers[u].trial
    BY <1>2, <2>1 DEF Probing
  <2>4. \A u \in Verb : breakers'[u].trial =>
            u = v /\ Allow(breakers[v]) /\ breakers'[u].state = "half_open"
    BY <1>1, <2>1, <2>3, BreakerProbes
  <2>5. pc'[Worker] = IF Allow(breakers[v]) THEN "begin" ELSE "requeue"
    BY <2>1
  <2>. HIDE DEF v
  <2>6. ProbeHasOwner'
    BY <2>2, <2>4, <2>5 DEF ProbeHasOwner
  <2>. QED  BY <2>1, <2>2, <2>4, <2>5, <2>6 DEF ProbeInv
<1>7. ASSUME NEW a \in Actor, Verdict(a)  PROVE ProbeInv'
  <2>1. /\ pc[a] = "verdict" /\ breakers' \in [Verb -> BreakerType]
        /\ \A v \in Verb : \/ breakers'[v] = breakers[v] /\ v # VerbOf(a)
                           \/ breakers'[v] = AfterSuccess(breakers[v])
                           \/ breakers'[v] = AfterFailure(breakers[v])
    BY <1>7, TypeStep DEF Verdict
  <2>2. \A v \in Verb : breakers'[v].trial => breakers[v].trial /\ breakers'[v].state = "half_open"
                                              /\ v # VerbOf(a)
    BY <1>1, <2>1, BreakerProbes
  <2>3. CASE a # Worker
    <3>1. UNCHANGED <<pc[Worker], cur[Worker], out[Worker]>>
      BY <1>7, <2>3 DEF Verdict
    <3>2. pc[Worker] = "settle" => pc[Worker] \in Probing
      BY DEF Probing
    <3>. QED  BY <2>2, <3>1, <3>2, ProbeStays
  <2>4. CASE a = Worker
    <3>1. \A v \in Verb : ~breakers'[v].trial
      BY <2>2, <2>4 DEF ProbeInv, ProbeHasOwner
    <3>2. pc'[Worker] # "idle" => cur'[Worker] = cur[Worker] /\ pc'[Worker] = "settle"
      BY <1>7, <2>4 DEF Verdict
    <3>3. pc[Worker] \in Probing /\ pc[Worker] # "settle" /\ pc[Worker] # "idle"
      BY <2>1, <2>4 DEF Probing
    <3>. QED  BY <3>1, <3>2, <3>3, ProbeStays
  <2>. QED  BY <2>3, <2>4
<1>8. ASSUME NEW a \in Actor, Begin(a) \/ Spawn(a) \/ Reap(a) \/ Record(a)  PROVE ProbeInv'
  <2>1. breakers' = breakers
    BY <1>8 DEF Begin, Spawn, Reap, Record
  <2>2. CASE a # Worker
    <3>1. UNCHANGED <<pc[Worker], cur[Worker], out[Worker]>>
      BY <1>8, <2>2 DEF Begin, Spawn, Reap, Record
    <3>. QED  BY <1>3, <2>1, <3>1
  <2>3. CASE a = Worker
    <3>1. /\ pc[Worker] \in {"begin", "spawn", "wait", "record"}
          /\ pc'[Worker] \in {"spawn", "record", "wait", "settle", "verdict"}
          /\ pc'[Worker] = "settle" => out'[Worker] = "ok"
          /\ cur' = cur
      BY <1>8, <2>3 DEF Begin, Spawn, Reap, Record
    <3>. QED  BY <1>1, <2>1, <3>1, ProbeStays DEF Probing
  <2>. QED  BY <2>2, <2>3
<1>9. ASSUME NEW a \in Actor, Finish(a) \/ Exhaust(a) \/ Retry(a) \/ Notify(a)  PROVE ProbeInv'
  <2>1. breakers' = breakers
    BY <1>9 DEF Finish, Exhaust, Retry, Notify
  <2>2. CASE a # Worker
    <3>1. UNCHANGED <<pc[Worker], cur[Worker], out[Worker]>>
      BY <1>9, <2>2 DEF Finish, Exhaust, Retry, Notify
    <3>. QED  BY <1>3, <2>1, <3>1
  <2>3. CASE a = Worker
    <3>1. /\ pc[Worker] \in {"settle", "notify"}
          /\ pc'[Worker] \in {"idle", "notify", "verdict"}
          /\ pc'[Worker] # "idle" => cur' = cur
          /\ pc'[Worker] # "verdict" => pc[Worker] = "notify" \/ out[Worker] # "ok"
      BY <1>9, <2>3 DEF Finish, Exhaust, Retry, Notify
    <3>2. pc'[Worker] # "verdict" => \A v \in Verb : ~breakers[v].trial
      BY <1>2, <3>1 DEF ProbeInv, Probing
    <3>. QED  BY <1>1, <2>1, <3>1, <3>2, ProbeStays DEF Probing
  <2>. QED  BY <2>2, <2>3
<1>10. CASE Claim
  <2>1. PICK t \in TaskId : /\ state' = [state EXCEPT ![t] = "executing"]
                            /\ cur' = [cur EXCEPT ![Worker] = t]
    BY <1>10 DEF Claim, ClaimDue, Update
  <2>2. pc[Worker] = "idle" /\ pc' = [pc EXCEPT ![Worker] = "gate"] /\ breakers' = breakers
    BY <1>10 DEF Claim
  <2>3. state'[t] = "executing" /\ cur'[Worker] = t
    BY <2>1 DEF TablesTypeOK
  <2>4. \A v \in Verb : ~breakers'[v].trial
    BY <1>2, <2>2 DEF Probing
  <2>. QED  BY <2>2, <2>3, <2>4 DEF ProbeInv, ProbeHasOwner
<1>11. CASE ClaimLost \/ Boot \/ ResumeNext \/ Stop
  BY <1>3, <1>11 DEF ClaimLost, Boot, ResumeNext, Stop, actors
<1>12. CASE Unknown \/ Requeue
  <2>1. /\ pc[Worker] \in {"gate", "requeue"} /\ pc'[Worker] = "idle" /\ breakers' = breakers
    BY <1>12 DEF Unknown, Requeue
  <2>. QED  BY <1>1, <2>1, ProbeStays DEF Probing
<1>13. CASE ResumeFails \/ Exit \/ Crash
  BY <1>13, BreakerProbes DEF ResumeFails, Exit, Crash, Wipe, ProbeInv, ProbeHasOwner, NewBreaker
<1>14. ASSUME NEW h \in Handler,
              \/ Post(h) \/ Create(h) \/ CreateRefused(h) \/ Bind(h) \/ Supersede(h) \/ Refer(h)
              \/ Unreadable(h) \/ CarryOn(h) \/ Admit(h) \/ Handoff(h) \/ Reply(h) \/ ClientGone(h)
       PROVE  ProbeInv'
  <2>1. breakers' = breakers
    BY <1>14 DEF Post, Create, CreateRefused, Bind, Supersede, Refer, Unreadable, CarryOn, Admit,
                 Handoff, Reply, ClientGone
  <2>2. UNCHANGED <<pc[Worker], cur[Worker], out[Worker]>>
    BY <1>14, DispatcherAssumption
       DEF Post, Create, CreateRefused, Bind, Supersede, Refer, Unreadable, CarryOn, Admit,
           Handoff, Reply, ClientGone
  <2>. QED  BY <1>3, <2>1, <2>2
<1>15. CASE \/ \E r \in Request : Replay(r)
            \/ \E t \in TaskId : ResumeRow(t) \/ RetryDue(t)
  BY <1>3, <1>15 DEF Replay, ResumeRow, RetryDue, actors
<1>16. CASE UNCHANGED vars
  BY <1>3, <1>16 DEF vars, actors
<1>. QED
  BY <1>4, <1>5, <1>6, <1>7, <1>8, <1>9, <1>10, <1>11, <1>12, <1>13, <1>14, <1>15, <1>16
     DEF Next, HandlerStep, WorkerStep, ExecStep, BootStep

(* A half-open probe is never left outstanding: while a breaker counts one,
   the worker is executing a task of that verb and will report. *)
THEOREM ProbesAreOwned == Spec => []ProbeHasOwner
<1>1. Spec => []TypeInv
  BY TypeInit, TypeStep, PTL DEF Spec
<1>2. Spec => []OwnInv
  BY <1>1, OwnInit, OwnStep, PTL DEF Spec
<1>3. Spec => []ProbeInv
  BY <1>1, <1>2, ProbeInit, ProbeStep, PTL DEF Spec
<1>4. ProbeInv => ProbeHasOwner
  BY DEF ProbeInv
<1>. QED  BY <1>3, <1>4, PTL

-----------------------------------------------------------------------------
(* One run per key.                                                        *)

(* The row's key, if it was posted under one, is bound to it. *)
Its(t) == req[t].key \in Key => idem[req[t].key] = t

(* The row was handed over, or has run. *)
Launched(t) == state[t] \in Promised \/ runs[t] > 0

(* A handler before the hand-over: its row may turn out to be a loser's. *)
Early == {"idle", "peek", "create", "bind", "supersede", "refer"}

(***************************************************************************)
(* A row is launched only by an actor past Bind, so its key is bound to    *)
(* it; a handler on its way there remembers the key its row was posted     *)
(* under, and supersedes itself only for a winner.  A fault in between     *)
(* voids all of this: the handler carries on with an unbound key.          *)
(***************************************************************************)
KeyInv ==
    faults = 0 =>
        /\ \A t \in TaskId : Launched(t) => state[t] # "free" /\ Its(t)
        /\ \A a \in Actor :
              /\ pc[a] \in {"bind", "supersede", "refer"} =>
                     /\ state[cur[a]] # "free" /\ req[cur[a]] = hreq[a]
                     /\ hreq[a].key \in Key
              /\ pc[a] = "supersede" => Bound(hreq[a].key)
              /\ pc[a] \notin Early => state[cur[a]] # "free" /\ Its(cur[a])

LEMMA KeyInit == Init => KeyInv
BY StoreAssumption DEF Init, TablesInit, KeyInv, Launched, Promised, Early

(* A binding is for ever, and so is what a row was posted under. *)
LEMMA ItsStays ==
    ASSUME TypeInv, [Next]_vars, NEW t \in TaskId, state[t] # "free", Its(t)
    PROVE  Its(t)'
<1>. SUFFICES ASSUME req'[t].key \in Key PROVE idem'[req'[t].key] = t
  BY DEF Its
<1>1. req'[t] = req[t]
  BY RowsExist
<1>2. idem[req[t].key] = t /\ t # NoTask
  BY <1>1 DEF Its, TaskId, NoTask
<1>. QED  BY <1>1, <1>2, RowsExist

(* A step on which a row is launched, or leaves its handler's early steps,
   only if that holds of it already. *)
LEMMA KeyMoves ==
    ASSUME TypeInv, KeyInv, [Next]_vars, faults' = 0 => faults = 0,
           \A t \in TaskId : Launched(t)' =>
               \/ Launched(t)
               \/ \E a \in Actor : pc[a] \notin Early /\ cur[a] = t,
           \A a \in Actor :
               \/ pc'[a] \in {"idle", "peek", "create"}
               \/ /\ pc[a] \in {"bind", "supersede", "refer"}
                  /\ pc'[a] \in {"bind", "supersede", "refer"}
                  /\ pc'[a] = "supersede" => Bound(hreq[a].key)
                  /\ cur'[a] = cur[a] /\ hreq'[a] = hreq[a]
               \/ pc[a] \notin Early /\ pc'[a] \notin Early /\ cur'[a] = cur[a]
               \/ /\ pc'[a] \notin Early /\ cur'[a] \in TaskId
                  /\ Launched(cur'[a])
    PROVE  KeyInv'
<1>. SUFFICES ASSUME faults' = 0 PROVE KeyInv'
  BY DEF KeyInv
<1>0. faults = 0
  OBVIOUS
<1>1. \A a \in Actor : pc[a] \notin {"idle", "peek", "create"} => cur[a] \in TaskId
  BY DEF TypeInv, InHand
<1>2. \A t \in TaskId : state[t] # "free" /\ Its(t) => state'[t] # "free" /\ Its(t)'
  BY RowsExist, ItsStays
<1>3. \A t \in TaskId : Launched(t)' => state'[t] # "free" /\ Its(t)'
  BY <1>0, <1>1, <1>2 DEF KeyInv, Early
<1>4. \A k \in Key : Bound(k) => Bound(k)'
  BY RowsExist DEF Bound
<1>5. ASSUME NEW a \in Actor
      PROVE  /\ pc'[a] \in {"bind", "supersede", "refer"} =>
                    /\ state'[cur'[a]] # "free" /\ req'[cur'[a]] = hreq'[a]
                    /\ hreq'[a].key \in Key
             /\ pc'[a] = "supersede" => Bound(hreq[a].key)'
             /\ pc'[a] \notin Early => state'[cur'[a]] # "free" /\ Its(cur[a])'
  <2>1. CASE pc'[a] \in {"bind", "supersede", "refer"}
    <3>1. /\ pc[a] \in {"bind", "supersede", "refer"}
          /\ cur'[a] = cur[a] /\ hreq'[a] = hreq[a]
          /\ pc'[a] = "supersede" => Bound(hreq[a].key)
      BY <2>1 DEF Early
    <3>2. cur[a] \in TaskId /\ state[cur[a]] # "free" /\ req[cur[a]] = hreq[a] /\ hreq[a].key \in Key
      BY <1>0, <1>1, <3>1 DEF KeyInv
    <3>. QED  BY <2>1, <3>1, <3>2, <1>4, RowsExist DEF Early, Bound
  <2>2. CASE pc'[a] \notin Early
    <3>1. cur'[a] \in TaskId /\ state[cur'[a]] # "free" /\ Its(cur'[a])
      BY <1>0, <1>1, <2>2 DEF KeyInv, Early
    <3>2. state'[cur'[a]] # "free" /\ Its(cur[a])'
      <4>. DEFINE t == cur'[a]
      <4>1. state'[t] # "free" /\ (req'[t].key \in Key => idem'[req'[t].key] = t)
        BY <1>2, <3>1 DEF Its
      <4>. QED  BY <4>1 DEF Its
    <3>. QED  BY <2>2, <3>2 DEF Early
  <2>. QED  BY <2>1, <2>2 DEF Early
<1>. QED  BY <1>3, <1>5 DEF KeyInv

(* Bind and Create are where a handler learns what KeyInv says of it. *)
LEMMA KeyStep == TypeInv /\ OwnInv /\ KeyInv /\ [Next]_vars => KeyInv'
<1>. SUFFICES ASSUME TypeInv, OwnInv, KeyInv, [Next]_vars PROVE KeyInv'
  OBVIOUS
<1>. USE DEF TypeInv, TypeOK, TablesTypeOK, Actor, tables, daemon, actors, ghosts,
         bounds, Goto, Done, Return, Early
<1>0. ASSUME UNCHANGED <<state, runs, pc, cur, hreq>>, faults' = 0 => faults = 0  PROVE KeyInv'
  <2>1. \A a \in Actor : pc[a] = "supersede" /\ faults' = 0 => Bound(hreq[a].key)
    BY <1>0 DEF KeyInv
  <2>2. CASE faults' # 0
    BY <2>2 DEF KeyInv
  <2>3. CASE faults' = 0
    BY <1>0, <2>1, <2>3, KeyMoves DEF Launched
  <2>. QED  BY <2>2, <2>3
<1>a. ASSUME NEW a \in Actor, UNCHANGED <<state, runs>>, faults' = 0 => faults = 0,
              \A b \in Actor : b # a => pc'[b] = pc[b] /\ cur'[b] = cur[b] /\ hreq'[b] = hreq[b],
              \/ pc'[a] \in {"idle", "peek", "create"}
              \/ /\ pc[a] \in {"bind", "supersede"} /\ pc'[a] \in {"supersede", "refer"}
                 /\ pc'[a] = "supersede" /\ faults' = 0 => Bound(hreq[a].key)
                 /\ cur'[a] = cur[a] /\ hreq'[a] = hreq[a]
              \/ pc[a] \notin Early /\ pc'[a] \notin Early /\ cur'[a] = cur[a]
       PROVE  KeyInv'
  <2>1. \A b \in Actor : pc[b] = "supersede" /\ faults' = 0 => Bound(hreq[b].key)
    BY <1>a DEF KeyInv
  <2>2. CASE faults' # 0
    BY <2>2 DEF KeyInv
  <2>3. CASE faults' = 0
    BY <1>a, <2>1, <2>3, KeyMoves DEF Launched
  <2>. QED  BY <2>2, <2>3
<1>b. ASSUME NEW a \in Actor, pc[a] \notin Early, faults' = 0 => faults = 0,
               \A t \in TaskId : t # cur[a] => state'[t] = state[t] /\ runs'[t] = runs[t],
               \A b \in Actor : b # a => pc'[b] = pc[b] /\ cur'[b] = cur[b] /\ hreq'[b] = hreq[b],
               \/ pc'[a] = "idle"
               \/ pc'[a] \notin Early /\ cur'[a] = cur[a]
        PROVE  KeyInv'
  <2>1. \A b \in Actor : pc[b] = "supersede" /\ faults' = 0 => Bound(hreq[b].key)
    BY <1>b DEF KeyInv
  <2>2. CASE faults' # 0
    BY <2>2 DEF KeyInv
  <2>3. CASE faults' = 0
    BY <1>b, <2>1, <2>3, KeyMoves DEF Launched
  <2>. QED  BY <2>2, <2>3
<1>1. ASSUME NEW h \in Handler, Post(h) \/ Peek(h) \/ CreateRefused(h) \/ Refer(h)  PROVE KeyInv'
  BY <1>1, <1>a DEF Post, Peek, CreateRefused, Refer, Fault
<1>2. ASSUME NEW h \in Handler, Create(h)  PROVE KeyInv'
  <2>. PICK t \in TaskId : CreateAndAuditLimited(t, hreq[h]) /\ cur' = [cur EXCEPT ![h] = t]
    BY <1>2 DEF Create
  <2>1. /\ pc' = [pc EXCEPT ![h] = IF hreq[h].key = NoKey THEN "admit" ELSE "bind"]
        /\ UNCHANGED <<hreq, runs, faults>> /\ pc[h] = "create"
    BY <1>2 DEF Create
  <2>2. /\ state[t] = "free" /\ state' = [state EXCEPT ![t] = "accepted"]
        /\ req' = [req EXCEPT ![t] = hreq[h]] /\ idem' = idem
    BY DEF CreateAndAuditLimited, Fresh
  <2>. SUFFICES ASSUME faults' = 0 PROVE KeyInv'
    BY DEF KeyInv
  <2>3. faults = 0 /\ hreq[h] \in Request
    BY <2>1 DEF InHand
  <2>4. \A u \in TaskId : Launched(u)' => Launched(u) /\ u # t
    BY <2>1, <2>2, <2>3 DEF Launched, KeyInv, Promised
  <2>5. \A u \in TaskId : Launched(u)' => state'[u] # "free" /\ Its(u)'
    BY <2>2, <2>3, <2>4 DEF KeyInv, Its
  <2>6. ASSUME NEW a \in Actor, a # h
        PROVE  /\ pc'[a] \in {"bind", "supersede", "refer"} =>
                      /\ state'[cur'[a]] # "free" /\ req'[cur'[a]] = hreq'[a]
                      /\ hreq'[a].key \in Key
               /\ pc'[a] = "supersede" => Bound(hreq[a].key)'
               /\ pc'[a] \notin Early => state'[cur'[a]] # "free" /\ Its(cur[a])'
    <3>1. pc'[a] = pc[a] /\ cur'[a] = cur[a] /\ hreq'[a] = hreq[a]
      BY <2>1, <2>6
    <3>2. pc[a] \notin {"idle", "peek", "create"} => cur[a] \in TaskId /\ cur[a] # t
      BY <2>2, <2>3 DEF InHand, KeyInv
    <3>. QED  BY <2>2, <2>3, <3>1, <3>2 DEF KeyInv, Its, Bound
  <2>7. CASE hreq[h].key = NoKey
    <3>1. pc'[h] = "admit" /\ cur'[h] = t /\ state'[t] # "free" /\ req'[t] = hreq[h]
      BY <2>1, <2>2, <2>7
    <3>2. Its(cur[h])'
      BY <2>7, <3>1, StoreAssumption DEF Its
    <3>. QED  BY <2>5, <2>6, <3>1, <3>2 DEF KeyInv
  <2>8. CASE hreq[h].key # NoKey
    <3>1. pc'[h] = "bind" /\ cur'[h] = t /\ state'[t] # "free" /\ req'[t] = hreq[h]
      BY <2>1, <2>2, <2>8
    <3>2. hreq'[h] = hreq[h] /\ hreq[h].key \in Key
      BY <2>1, <2>3, <2>8 DEF Request
    <3>. QED  BY <2>5, <2>6, <3>1, <3>2 DEF KeyInv
  <2>. QED  BY <2>7, <2>8
<1>3. ASSUME NEW h \in Handler, Bind(h)  PROVE KeyInv'
  <2>1. CASE SaveIdempotency(hreq[h].key, cur[h]) /\ pc' = [pc EXCEPT ![h] = "admit"]
    <3>. SUFFICES ASSUME faults' = 0 PROVE KeyInv'
      BY DEF KeyInv
    <3>1. /\ pc[h] = "bind" /\ faults = 0 /\ UNCHANGED <<state, req, runs, cur, hreq>>
          /\ idem' = [idem EXCEPT ![hreq[h].key] = cur[h]] /\ cur[h] \in TaskId
          /\ hreq[h].key \in Key
      BY <1>3, <2>1 DEF Bind, SaveIdempotency, Fault, InHand
    <3>2. state[cur[h]] # "free" /\ req[cur[h]] = hreq[h]
      BY <3>1 DEF KeyInv
    <3>3. Its(cur[h])'
      BY <3>1, <3>2 DEF Its
    <3>4. \A t \in TaskId : state[t] # "free" /\ Its(t) => Its(t)'
      BY ItsStays
    <3>5. \A t \in TaskId : Launched(t)' => state'[t] # "free" /\ Its(t)'
      BY <3>1, <3>4 DEF KeyInv, Launched
    <3>6. \A k \in Key : Bound(k) => Bound(k)'
      BY RowsExist DEF Bound
    <3>7. ASSUME NEW a \in Actor, a # h
          PROVE  /\ pc'[a] \in {"bind", "supersede", "refer"} =>
                        /\ state'[cur'[a]] # "free" /\ req'[cur'[a]] = hreq'[a]
                        /\ hreq'[a].key \in Key
                 /\ pc'[a] = "supersede" => Bound(hreq[a].key)'
                 /\ pc'[a] \notin Early => state'[cur'[a]] # "free" /\ Its(cur[a])'
      <4>1. pc'[a] = pc[a] /\ cur'[a] = cur[a] /\ hreq'[a] = hreq[a]
        BY <2>1, <3>1, <3>7
      <4>2. pc[a] \notin Early => Its(cur[a])'
        <5>. DEFINE u == cur[a]
        <5>1. pc[a] \notin Early => u \in TaskId /\ state[u] # "free" /\ Its(u)
          BY <3>1 DEF InHand, KeyInv
        <5>2. pc[a] \notin Early => (req'[u].key \in Key => idem'[req'[u].key] = u)
          BY <3>4, <5>1 DEF Its
        <5>. QED  BY <4>1, <5>2 DEF Its
      <4>3. pc[a] = "supersede" => hreq[a].key \in Key /\ Bound(hreq[a].key)
        BY <3>1 DEF KeyInv
      <4>. QED  BY <3>1, <3>6, <4>1, <4>2, <4>3 DEF KeyInv, Bound
    <3>8. pc'[h] = "admit" /\ state'[cur'[h]] # "free"
      BY <2>1, <3>1, <3>2
    <3>. QED  BY <3>3, <3>5, <3>7, <3>8 DEF KeyInv
  <2>2. CASE ~(SaveIdempotency(hreq[h].key, cur[h]) /\ pc' = [pc EXCEPT ![h] = "admit"])
    BY <1>a, <1>3, <2>2 DEF Bind, Fault
  <2>. QED  BY <2>1, <2>2
<1>4. ASSUME NEW h \in Handler, Supersede(h)  PROVE KeyInv'
  <2>1. /\ \A t \in TaskId : Launched(t)' => Launched(t)
        /\ faults' = 0 => faults = 0
    BY <1>4 DEF Supersede, Attempt, UpdateAndAudit, Fault, Launched, Promised
  <2>2. /\ \A a \in Actor : a # h => pc'[a] = pc[a]
        /\ cur' = cur /\ hreq' = hreq /\ pc[h] = "supersede" /\ pc'[h] = "refer"
    BY <1>4 DEF Supersede
  <2>3. \A b \in Actor : pc[b] = "supersede" /\ faults' = 0 => Bound(hreq[b].key)
    BY <2>1 DEF KeyInv
  <2>4. CASE faults' # 0
    BY <2>4 DEF KeyInv
  <2>5. CASE faults' = 0
    BY <2>1, <2>2, <2>3, <2>5, KeyMoves
  <2>. QED  BY <2>4, <2>5
<1>5. ASSUME NEW h \in Handler, Unreadable(h) \/ CarryOn(h)  PROVE KeyInv'
  <2>1. faults' # 0
    BY <1>5 DEF Unreadable, CarryOn, Fault, KeyInv
  <2>. QED  BY <2>1 DEF KeyInv
<1>6. ASSUME NEW h \in Handler, Admit(h) \/ Handoff(h)  PROVE KeyInv'
  BY <1>6, <1>b, SMTT(60) DEF Admit, Handoff, Attempt, UpdateAndAudit, Fault
<1>7. ASSUME NEW h \in Handler, Reply(h)  PROVE KeyInv'
  BY <1>7, <1>a DEF Reply, Fault
<1>8. ASSUME NEW h \in Handler, ClientGone(h)  PROVE KeyInv'
  BY <1>0, <1>8 DEF ClientGone
<1>9. ASSUME NEW r \in Request, Replay(r)  PROVE KeyInv'
  BY <1>0, <1>9 DEF Replay
<1>10. ASSUME Claim  PROVE KeyInv'
  <2>1. PICK t \in TaskId : /\ Due(t) /\ cur' = [cur EXCEPT ![Worker] = t]
                            /\ state' = [state EXCEPT ![t] = "executing"]
    BY <1>10 DEF Claim, ClaimDue, Update
  <2>2. /\ pc' = [pc EXCEPT ![Worker] = "gate"] /\ UNCHANGED <<hreq, runs, faults>>
    BY <1>10 DEF Claim
  <2>3. Launched(t) /\ \A u \in TaskId : Launched(u)' => Launched(u)
    BY <2>1, <2>2 DEF Launched, Promised, Due
  <2>4. \A b \in Actor : pc[b] = "supersede" /\ faults' = 0 => Bound(hreq[b].key)
    BY <2>2 DEF KeyInv
  <2>5. CASE faults' # 0
    BY <2>5 DEF KeyInv
  <2>6. CASE faults' = 0
    <3>1. pc'[Worker] = "gate" /\ cur'[Worker] = t
      BY <2>1, <2>2
    <3>2. \A b \in Actor : b # Worker =>
           pc'[b] = pc[b] /\ cur'[b] = cur[b] /\ hreq'[b] = hreq[b]
      BY <2>1, <2>2
    <3>. QED  BY <2>2, <2>3, <2>4, <2>6, <3>1, <3>2, KeyMoves
  <2>. QED  BY <2>5, <2>6
<1>11. ASSUME ClaimLost  PROVE KeyInv'
  BY <1>11 DEF ClaimLost, Fault, KeyInv
<1>12. CASE Unknown \/ Requeue
  <2>1. /\ pc[Worker] \in {"gate", "requeue"} /\ pc'[Worker] = "idle"
        /\ \A t \in TaskId : t # cur[Worker] => state'[t] = state[t] /\ runs'[t] = runs[t]
        /\ faults' = 0 => faults = 0
    BY <1>12 DEF Unknown, Requeue, Attempt, UpdateAndAudit, Fault
  <2>2. \A b \in Actor : b # Worker =>
           pc'[b] = pc[b] /\ cur'[b] = cur[b] /\ hreq'[b] = hreq[b]
    BY <1>12 DEF Unknown, Requeue
  <2>. QED  BY <1>b, <2>1, <2>2
<1>13. CASE Gate
  BY <1>13, <1>a DEF Gate
<1>14. ASSUME NEW a \in Actor, Begin(a) \/ Finish(a) \/ Exhaust(a) \/ Retry(a)  PROVE KeyInv'
  <2>1. /\ pc[a] \in {"begin", "settle"}
        /\ \A t \in TaskId : t # cur[a] => state'[t] = state[t] /\ runs'[t] = runs[t]
        /\ faults' = 0 => faults = 0
    BY <1>14 DEF Begin, Finish, Exhaust, Retry, Attempt, UpdateAndAudit, Fault
  <2>2. \A b \in Actor : b # a => pc'[b] = pc[b] /\ cur'[b] = cur[b] /\ hreq'[b] = hreq[b]
    BY <1>14 DEF Begin, Finish, Exhaust, Retry
  <2>3. \/ pc'[a] = "idle"
        \/ pc'[a] \in {"spawn", "verdict", "reply", "notify"} /\ cur'[a] = cur[a]
    BY <1>14 DEF Begin, Finish, Exhaust, Retry
  <2>. QED  BY <1>b, <2>1, <2>2, <2>3
<1>15. ASSUME NEW a \in Actor, Spawn(a)  PROVE KeyInv'
  BY <1>15, <1>b, SMTT(60) DEF Spawn
<1>16. ASSUME NEW a \in Actor, Reap(a) \/ Record(a) \/ Verdict(a) \/ Notify(a)  PROVE KeyInv'
  <2>1. /\ pc[a] \in {"wait", "record", "verdict", "notify"}
        /\ UNCHANGED <<state, runs>> /\ (faults' = 0 => faults = 0)
    BY <1>16 DEF Reap, Record, Attempt, RecordAttempt, Fault, Verdict, Notify
  <2>2. \A b \in Actor : b # a => pc'[b] = pc[b] /\ cur'[b] = cur[b] /\ hreq'[b] = hreq[b]
    BY <1>16 DEF Reap, Record, Verdict, Notify
  <2>3. \/ pc'[a] = "idle"
        \/ pc'[a] \in {"record", "settle", "verdict", "reply"} /\ cur'[a] = cur[a]
    BY <1>16 DEF Reap, Record, Verdict, Notify
  <2>. QED  BY <1>a, <2>1, <2>2, <2>3
<1>17. ASSUME NEW t \in TaskId, ResumeRow(t)  PROVE KeyInv'
  <2>1. \A a \in Actor : pc[a] = "idle" /\ pc'[a] = "idle"
    BY <1>17 DEF ResumeRow, Resuming, Pass, OwnInv, AtRest, Running
  <2>2. /\ \A u \in TaskId : Launched(u)' => Launched(u)
        /\ faults' = faults
    BY <1>17 DEF ResumeRow, Resuming, Pass, Update, UpdateAndAudit, Launched, Promised
  <2>. QED  BY <2>1, <2>2, KeyMoves
<1>18. CASE Boot \/ ResumeNext \/ Stop
  BY <1>0, <1>18 DEF Boot, ResumeNext, Stop, Fault
<1>19. CASE ResumeFails \/ Exit \/ Crash
  <2>1. /\ \A a \in Actor : pc'[a] = "idle"
        /\ UNCHANGED <<state, runs>> /\ (faults' = 0 => faults = 0)
    BY <1>19 DEF ResumeFails, Exit, Crash, Wipe, Fault
  <2>2. \A t \in TaskId : Launched(t)' => Launched(t)
    BY <2>1 DEF Launched
  <2>. QED  BY <2>1, <2>2, KeyMoves
<1>20. CASE \/ \E v \in Verb : Health(v) \/ CoolDown(v)
            \/ \E t \in TaskId : RetryDue(t)
  BY <1>0, <1>20 DEF Health, CoolDown, RetryDue, RunTimeReached
<1>21. CASE UNCHANGED vars
  BY <1>0, <1>21 DEF vars
<1>. QED
  BY <1>1, <1>2, <1>3, <1>4, <1>5, <1>6, <1>7, <1>8, <1>9, <1>10, <1>11, <1>12, <1>13,
     <1>14, <1>15, <1>16, <1>17, <1>18, <1>19, <1>20, <1>21
     DEF Next, HandlerStep, WorkerStep, ExecStep, BootStep

(* Of all the rows created under one idempotency key at most one ever runs,
   and it is the one the key is bound to, while the store works (ADR-0003). *)
THEOREM KeysRunOnce == Spec => []KeyRunsOnce
<1>1. Spec => []TypeInv
  BY TypeInit, TypeStep, PTL DEF Spec
<1>2. Spec => []OwnInv
  BY <1>1, OwnInit, OwnStep, PTL DEF Spec
<1>3. Spec => []KeyInv
  BY <1>1, <1>2, KeyInit, KeyStep, PTL DEF Spec
<1>4. KeyInv => KeyRunsOnce
  BY DEF KeyInv, KeyRunsOnce, Launched, Its
<1>. QED  BY <1>3, <1>4, PTL

-----------------------------------------------------------------------------
(* What ran is on record.                                                  *)

(* The history has a row for attempt n. *)
Recorded(t, n) == \E o \in Outcome : <<t, n, o>> \in attempts

(* The actor has written the attempts row of the attempt it is settling. *)
Reported(a) ==
    \/ pc[a] = "settle"
    \/ pc[a] = "verdict" /\ (a # Worker \/ out[a] # "ok")

(***************************************************************************)
(* An actor about to start a child has announced one more than have run,   *)
(* and one about to use up the attempt has recorded it; nobody else writes *)
(* its row in between, for it owns it.                                     *)
(***************************************************************************)
RecordInv ==
    faults = 0 =>
        /\ \A t \in TaskId : runs[t] <= trail[t].execs
        /\ \A t \in TaskId : \A n \in 0 .. (attempt[t] - 1) : Recorded(t, n)
        /\ \A a \in Actor : pc[a] = "spawn" => runs[cur[a]] < trail[cur[a]].execs
        /\ \A a \in Actor : Reported(a) => Recorded(cur[a], attempt[cur[a]])

LEMMA RecordInit == Init => RecordInv
BY DEF Init, TablesInit, RecordInv, Reported, Actor

(* A step that leaves the record alone, and brings nobody to a step that asks
   for more of it. *)
LEMMA RecordIdle ==
    ASSUME RecordInv, UNCHANGED <<runs, trail, attempt, attempts>>, faults' = 0 => faults = 0,
           \A a \in Actor : pc'[a] = "spawn" => pc[a] = "spawn" /\ cur'[a] = cur[a],
           \A a \in Actor : Reported(a)' => Reported(a) /\ cur'[a] = cur[a]
    PROVE  RecordInv'
<1>. SUFFICES ASSUME faults' = 0 PROVE RecordInv'
  BY DEF RecordInv
<1>1. \A a \in Actor : Reported(a)' => Recorded(cur[a], attempt[cur[a]])'
  BY DEF RecordInv, Recorded
<1>. QED  BY <1>1 DEF RecordInv, Recorded

(* A step of one actor on the record of a row nobody else owns. *)
LEMMA RecordMoves ==
    ASSUME TypeInv, RecordInv, NEW a \in Actor, NEW t \in TaskId, faults' = 0 => faults = 0,
           \A b \in Actor : b # a =>
               ~Owns(b, t) /\ pc'[b] = pc[b] /\ cur'[b] = cur[b] /\ out'[b] = out[b],
           \A u \in TaskId : u # t =>
               runs'[u] = runs[u] /\ trail'[u] = trail[u] /\ attempt'[u] = attempt[u],
           attempts \subseteq attempts',
           faults' = 0 =>
               /\ runs'[t] <= trail'[t].execs
               /\ \A n \in 0 .. (attempt'[t] - 1) : Recorded(t, n)',
           faults' = 0 /\ pc'[a] = "spawn" => cur'[a] = t /\ runs'[t] < trail'[t].execs,
           faults' = 0 /\ Reported(a)' => cur'[a] = t /\ Recorded(t, attempt[t])'
    PROVE  RecordInv'
<1>. SUFFICES ASSUME faults' = 0 PROVE RecordInv'
  BY DEF RecordInv
<1>0. faults = 0
  OBVIOUS
<1>1. \A u \in TaskId, n \in Nat : Recorded(u, n) => Recorded(u, n)'
  BY DEF Recorded
<1>2. \A u \in TaskId : runs'[u] <= trail'[u].execs
  BY <1>0 DEF RecordInv
<1>3. ASSUME NEW u \in TaskId, NEW n \in 0 .. (attempt'[u] - 1)  PROVE Recorded(u, n)'
  <2>1. CASE u = t
    BY <2>1
  <2>2. CASE u # t
    <3>1. Recorded(u, n) /\ n \in Nat
      BY <1>0, <1>3, <2>2 DEF RecordInv, TypeInv, TypeOK, TablesTypeOK
    <3>. QED  BY <1>1, <3>1
  <2>. QED  BY <2>1, <2>2
<1>4. ASSUME NEW b \in Actor, b # a
      PROVE  /\ pc'[b] = "spawn" => runs'[cur'[b]] < trail'[cur'[b]].execs
             /\ Reported(b)' => Recorded(cur[b], attempt[cur[b]])'
  <2>1. pc[b] = "spawn" \/ Reported(b) => cur[b] \in TaskId /\ cur[b] # t
    BY <1>4 DEF TypeInv, InHand, Owns, Reported
  <2>2. pc'[b] = "spawn" => runs'[cur'[b]] < trail'[cur'[b]].execs
    BY <1>0, <1>4, <2>1 DEF RecordInv
  <2>3. ASSUME Reported(b)'  PROVE Recorded(cur[b], attempt[cur[b]])'
    <3>. DEFINE u == cur[b]
    <3>1. Reported(b) /\ u \in TaskId /\ u # t /\ cur'[b] = u
      BY <1>4, <2>1, <2>3 DEF Reported
    <3>2. Recorded(u, attempt[u]) /\ attempt'[u] = attempt[u]
      BY <1>0, <3>1 DEF RecordInv
    <3>. QED  BY <3>1, <3>2 DEF Recorded
  <2>. QED  BY <2>2, <2>3
<1>5. /\ pc'[a] = "spawn" => runs'[cur'[a]] < trail'[cur'[a]].execs
      /\ Reported(a)' => Recorded(cur[a], attempt[cur[a]])'
  BY DEF Recorded
<1>. QED  BY <1>2, <1>3, <1>4, <1>5 DEF RecordInv

(* The history loses no row. *)
LEMMA RecordKept ==
    ASSUME TypeInv, RecordInv, NEW t \in TaskId, faults = 0, attempts \subseteq attempts',
           attempt'[t] \in 0 .. attempt[t]
    PROVE  \A n \in 0 .. (attempt'[t] - 1) : Recorded(t, n)'
<1>1. attempt[t] \in Nat
  BY DEF TypeInv, TypeOK, TablesTypeOK
<1>. SUFFICES ASSUME NEW n \in 0 .. (attempt'[t] - 1)  PROVE Recorded(t, n)'
  OBVIOUS
<1>2. n \in 0 .. (attempt[t] - 1)
  BY <1>1
<1>. QED  BY <1>2 DEF RecordInv, Recorded

LEMMA RecordStep == TypeInv /\ OwnInv /\ RecordInv /\ [Next]_vars => RecordInv'
<1>. SUFFICES ASSUME TypeInv, OwnInv, RecordInv, [Next]_vars PROVE RecordInv'
  OBVIOUS
<1>. USE DEF TypeInv, TypeOK, TablesTypeOK, InHand, Actor, tables, daemon, actors, ghosts,
         bounds, Goto, Done, Return
<1>0. ASSUME UNCHANGED <<runs, trail, attempt, attempts, pc, cur, out>>,
             faults' = 0 => faults = 0
      PROVE  RecordInv'
  BY <1>0, RecordIdle DEF Reported
<1>1. ASSUME NEW a \in Actor, NEW t \in TaskId, Owns(a, t)
      PROVE  \A b \in Actor : b # a => ~Owns(b, t)
  BY <1>1 DEF OwnInv, OneOwner
<1>2. ASSUME NEW h \in Handler, Post(h) \/ Peek(h) \/ CreateRefused(h) \/ Bind(h) \/ Refer(h)
      PROVE  RecordInv'
  <2>1. /\ UNCHANGED <<runs, trail, attempt, attempts>> /\ (faults' = 0 => faults = 0)
        /\ pc'[h] \in {"peek", "create", "idle", "admit", "supersede"}
        /\ \A b \in Actor : b # h => pc'[b] = pc[b] /\ cur'[b] = cur[b] /\ out'[b] = out[b]
    BY <1>2 DEF Post, Peek, CreateRefused, Bind, SaveIdempotency, Refer, Fault
  <2>. QED  BY <2>1, RecordIdle DEF Reported
<1>3. ASSUME NEW h \in Handler, Create(h)  PROVE RecordInv'
  <2>. PICK t \in TaskId : CreateAndAuditLimited(t, hreq[h]) /\ cur' = [cur EXCEPT ![h] = t]
    BY <1>3 DEF Create
  <2>1. /\ pc' = [pc EXCEPT ![h] = IF hreq[h].key = NoKey THEN "admit" ELSE "bind"]
        /\ UNCHANGED <<out, runs, faults>>
    BY <1>3 DEF Create
  <2>2. /\ state[t] = "free" /\ trail' = [trail EXCEPT ![t] = Logged(trail[t], "accepted")]
        /\ UNCHANGED <<attempt, attempts>>
    BY DEF CreateAndAuditLimited, Fresh
  <2>3. \A b \in Actor : ~Owns(b, t)
    BY <2>2 DEF OwnInv, OwnedActive
  <2>4. trail'[t].execs = trail[t].execs /\ \A n \in Nat : Recorded(t, n)' = Recorded(t, n)
    BY <2>2 DEF Logged, Recorded
  <2>5. pc'[h] \in {"admit", "bind"}
    BY <2>1
  <2>6. faults' = 0 => /\ runs'[t] <= trail'[t].execs
                       /\ \A n \in 0 .. (attempt'[t] - 1) : Recorded(t, n)'
    BY <2>1, <2>2, <2>4 DEF RecordInv
  <2>. QED  BY <2>1, <2>2, <2>3, <2>5, <2>6, RecordMoves DEF Reported
<1>4. ASSUME NEW a \in Actor, Owns(a, cur[a]), cur[a] \in TaskId, faults' = 0 => faults = 0,
             \A b \in Actor : b # a => pc'[b] = pc[b] /\ cur'[b] = cur[b] /\ out'[b] = out[b],
             NEW n \in Nat, NEW ev \in AuditState \ {"executing"}, n <= attempt[cur[a]],
             \/ UNCHANGED <<trail, attempt>>
             \/ /\ trail' = [trail EXCEPT ![cur[a]] = Logged(trail[cur[a]], ev)]
                /\ attempt' = [attempt EXCEPT ![cur[a]] = n],
             UNCHANGED <<runs, attempts>>, pc'[a] # "spawn", ~Reported(a)'
      PROVE  RecordInv'
  <2>. PICK t \in TaskId : t = cur[a]
    BY <1>4
  <2>1. trail'[t].execs = trail[t].execs /\ attempt'[t] \in 0 .. attempt[t]
    BY <1>4 DEF Logged
  <2>2. \A u \in TaskId : u # t => runs'[u] = runs[u] /\ trail'[u] = trail[u] /\ attempt'[u] = attempt[u]
    BY <1>4
  <2>3. \A m \in Nat : Recorded(t, m)' = Recorded(t, m)
    BY <1>4 DEF Recorded
  <2>4. \A b \in Actor : b # a => ~Owns(b, t)
    BY <1>1, <1>4
  <2>5. faults' = 0 => /\ runs'[t] <= trail'[t].execs
                       /\ \A m \in 0 .. (attempt'[t] - 1) : Recorded(t, m)'
    BY <1>4, <2>1, <2>3 DEF RecordInv
  <2>6. t \in TaskId /\ attempts \subseteq attempts'
    BY <1>4
  <2>. HIDE DEF TypeInv, TypeOK, TablesTypeOK, InHand, tables
  <2>. QED  BY <1>4, <2>2, <2>4, <2>5, <2>6, RecordMoves
<1>5. ASSUME NEW h \in Handler, Supersede(h) \/ Admit(h) \/ Handoff(h)  PROVE RecordInv'
  <2>1. /\ pc[h] \in {"supersede", "admit", "handoff"} /\ (faults' = 0 => faults = 0)
        /\ UNCHANGED <<cur, out, runs, attempts>>
        /\ pc'[h] \in {"refer", "begin", "handoff", "reply"}
        /\ \A b \in Actor : b # h => pc'[b] = pc[b]
    BY <1>5 DEF Supersede, Admit, Handoff, Attempt, UpdateAndAudit, Fault
  <2>2. \E ev \in {"canceled", "accepted", "pending"} :
            \/ UNCHANGED <<trail, attempt>>
            \/ /\ trail' = [trail EXCEPT ![cur[h]] = Logged(trail[cur[h]], ev)]
               /\ attempt' = [attempt EXCEPT ![cur[h]] = attempt[cur[h]]]
    BY <1>5 DEF Supersede, Admit, Handoff, Attempt, UpdateAndAudit
  <2>3. Owns(h, cur[h]) /\ cur[h] \in TaskId /\ ~Reported(h)' /\ pc'[h] # "spawn"
    BY <2>1 DEF Owns, Reported
  <2>. QED  BY <1>4, <2>1, <2>2, <2>3 DEF AuditState, Active, Terminal
<1>6. CASE Unknown \/ Requeue
  <2>1. /\ pc[Worker] \in {"gate", "requeue"} /\ (faults' = 0 => faults = 0)
        /\ UNCHANGED <<runs, attempts>>
        /\ pc'[Worker] = "idle"
        /\ \A b \in Actor : b # Worker => pc'[b] = pc[b] /\ cur'[b] = cur[b] /\ out'[b] = out[b]
    BY <1>6 DEF Unknown, Requeue, Attempt, UpdateAndAudit, Fault
  <2>2. \E ev \in {"exhausted", "circuit_open"} :
            \/ UNCHANGED <<trail, attempt>>
            \/ /\ trail' = [trail EXCEPT ![cur[Worker]] = Logged(trail[cur[Worker]], ev)]
               /\ attempt' = [attempt EXCEPT ![cur[Worker]] = attempt[cur[Worker]]]
    BY <1>6 DEF Unknown, Requeue, Attempt, UpdateAndAudit
  <2>3. /\ Owns(Worker, cur[Worker]) /\ cur[Worker] \in TaskId
        /\ ~Reported(Worker)' /\ pc'[Worker] # "spawn"
    BY <2>1 DEF Owns, Reported
  <2>. QED  BY <1>4, <2>1, <2>2, <2>3 DEF AuditState, Active, Terminal
<1>7. ASSUME NEW a \in Actor, Finish(a) \/ Exhaust(a)  PROVE RecordInv'
  <2>1. /\ pc[a] = "settle" /\ (faults' = 0 => faults = 0)
        /\ UNCHANGED <<cur, out, runs, attempts>>
        /\ \/ pc'[a] \in {"reply", "notify"}
           \/ pc'[a] = "verdict" /\ a = Worker /\ out[a] = "ok"
        /\ \A b \in Actor : b # a => pc'[b] = pc[b]
    BY <1>7 DEF Finish, Exhaust, Attempt, UpdateAndAudit, Fault
  <2>2. \E ev \in {"executed", "exhausted"} :
            \/ UNCHANGED <<trail, attempt>>
            \/ /\ trail' = [trail EXCEPT ![cur[a]] = Logged(trail[cur[a]], ev)]
               /\ attempt' = [attempt EXCEPT ![cur[a]] = attempt[cur[a]]]
    BY <1>7 DEF Finish, Exhaust, Attempt, UpdateAndAudit
  <2>3. Owns(a, cur[a]) /\ cur[a] \in TaskId /\ ~Reported(a)' /\ pc'[a] # "spawn"
    BY <2>1 DEF Owns, Reported
  <2>. QED  BY <1>4, <2>1, <2>2, <2>3 DEF AuditState, Active, Terminal
<1>8. ASSUME NEW a \in Actor, Begin(a)  PROVE RecordInv'
  <2>. PICK t \in TaskId : t = cur[a]
    BY <1>8 DEF Begin
  <2>1. /\ pc[a] = "begin" /\ pc'[a] = "spawn" /\ UNCHANGED <<cur, out, runs, attempts>>
        /\ \A b \in Actor : b # a => pc'[b] = pc[b]
        /\ faults' = 0 => faults = 0
        /\ faults' = 0 =>
              /\ trail' = [trail EXCEPT ![t] = Logged(trail[t], "executing")]
              /\ attempt'[t] \in {0, attempt[t]}
        /\ \A u \in TaskId : u # t => trail'[u] = trail[u] /\ attempt'[u] = attempt[u]
    BY <1>8 DEF Begin, Attempt, UpdateAndAudit, Fault
  <2>2. Owns(a, t) /\ t \in TaskId /\ \A b \in Actor : b # a => ~Owns(b, t)
    BY <1>1, <2>1 DEF Owns
  <2>3. /\ faults' = 0 => trail'[t].execs = trail[t].execs + 1
        /\ faults' = 0 => attempt'[t] \in 0 .. attempt[t]
    BY <2>1, <2>2 DEF Logged
  <2>7. faults' = 0 => \A n \in 0 .. (attempt'[t] - 1) : Recorded(t, n)'
    BY <2>1, <2>2, <2>3, RecordKept
  <2>4. faults' = 0 => runs'[t] < trail'[t].execs
    BY <2>1, <2>2, <2>3 DEF RecordInv
  <2>5. faults' = 0 => runs'[t] <= trail'[t].execs
    BY <2>1, <2>2, <2>3, <2>4 DEF RecordInv
  <2>6. ~Reported(a)' /\ attempts \subseteq attempts' /\ cur'[a] = t
    BY <2>1 DEF Reported
  <2>. HIDE DEF TypeInv, TypeOK, TablesTypeOK, InHand, tables
  <2>. QED  BY <2>1, <2>2, <2>3, <2>4, <2>5, <2>6, <2>7, RecordMoves
<1>9. ASSUME NEW a \in Actor, Spawn(a)  PROVE RecordInv'
  <2>. PICK t \in TaskId : t = cur[a]
    BY <1>9 DEF Spawn
  <2>1. /\ pc[a] = "spawn" /\ pc'[a] \in {"record", "wait"}
        /\ UNCHANGED <<trail, attempt, attempts, cur, faults>>
        /\ \A b \in Actor : b # a => pc'[b] = pc[b] /\ out'[b] = out[b]
        /\ runs' = runs \/ runs' = [runs EXCEPT ![t] = runs[t] + 1]
    BY <1>9 DEF Spawn
  <2>2. Owns(a, t) /\ t \in TaskId /\ \A b \in Actor : b # a => ~Owns(b, t)
    BY <1>1, <2>1 DEF Owns
  <2>3. faults' = 0 => runs'[t] <= trail'[t].execs
    <3>1. runs[t] \in Nat /\ trail[t].execs \in Nat /\ runs'[t] \in {runs[t], runs[t] + 1}
      BY <2>1, <2>2
    <3>2. faults = 0 => runs[t] < trail[t].execs
      BY <2>1 DEF RecordInv
    <3>. QED  BY <2>1, <3>1, <3>2
  <2>6. faults' = 0 => \A n \in 0 .. (attempt'[t] - 1) : Recorded(t, n)'
    <3>1. attempt'[t] \in 0 .. attempt[t]
      BY <2>1, <2>2
    <3>. QED  BY <2>1, <2>2, <3>1, RecordKept
  <2>4. pc'[a] # "spawn" /\ ~Reported(a)'
    BY <2>1 DEF Reported
  <2>5. \A u \in TaskId : u # t => runs'[u] = runs[u]
    BY <2>1
  <2>. HIDE DEF TypeInv, TypeOK, TablesTypeOK, InHand, tables
  <2>. QED  BY <2>1, <2>2, <2>3, <2>4, <2>5, <2>6, RecordMoves
<1>10. ASSUME NEW a \in Actor, Reap(a) \/ Notify(a) \/ Verdict(a)  PROVE RecordInv'
  <2>1. /\ UNCHANGED <<runs, trail, attempt, attempts, faults>>
        /\ \A b \in Actor : b # a => pc'[b] = pc[b] /\ cur'[b] = cur[b] /\ out'[b] = out[b]
    BY <1>10 DEF Reap, Notify, Verdict
  <2>2. pc'[a] # "spawn" /\ (Reported(a)' => Reported(a) /\ cur'[a] = cur[a])
    BY <1>10 DEF Reap, Notify, Verdict, Reported
  <2>. QED  BY <2>1, <2>2, RecordIdle DEF Reported
<1>11. ASSUME NEW a \in Actor, Record(a)  PROVE RecordInv'
  <2>. PICK t \in TaskId : t = cur[a]
    BY <1>11 DEF Record
  <2>1. /\ pc[a] = "record" /\ pc'[a] \in {"settle", "verdict"}
        /\ UNCHANGED <<trail, attempt, runs, cur, out>> /\ (faults' = 0 => faults = 0)
        /\ \A b \in Actor : b # a => pc'[b] = pc[b]
    BY <1>11 DEF Record, Attempt, RecordAttempt, Fault
  <2>2. Owns(a, t) /\ t \in TaskId /\ \A b \in Actor : b # a => ~Owns(b, t)
    BY <1>1, <2>1 DEF Owns
  <2>3. faults' = 0 => Recorded(t, attempt[t])'
    <3>1. out[a] \in Outcome
      BY <2>1
    <3>2. faults' = 0 => RecordAttempt(t, attempt[t], out[a])
      BY <1>11 DEF Record, Attempt, Fault
    <3>3. RecordAttempt(t, attempt[t], out[a]) =>
              \E p \in Outcome : <<t, attempt[t], p>> \in attempts'
      BY <3>1 DEF RecordAttempt
    <3>. QED  BY <2>1, <3>2, <3>3 DEF Recorded
  <2>4. attempts \subseteq attempts'
    BY <1>11 DEF Record, Attempt, RecordAttempt
  <2>5. pc'[a] # "spawn" /\ cur'[a] = t
    BY <2>1
  <2>6. faults' = 0 => \A n \in 0 .. (attempt'[t] - 1) : Recorded(t, n)'
    <3>1. attempt'[t] \in 0 .. attempt[t]
      BY <2>1, <2>2
    <3>. QED  BY <2>1, <2>2, <2>4, <3>1, RecordKept
  <2>7. faults' = 0 => runs'[t] <= trail'[t].execs
    BY <2>1, <2>2 DEF RecordInv
  <2>. HIDE DEF TypeInv, TypeOK, TablesTypeOK, InHand, tables
  <2>. QED  BY <2>1, <2>2, <2>3, <2>4, <2>5, <2>6, <2>7, RecordMoves
<1>12. ASSUME NEW a \in Actor, Retry(a)  PROVE RecordInv'
  <2>. PICK t \in TaskId : t = cur[a]
    BY <1>12 DEF Retry
  <2>1. /\ pc[a] = "settle" /\ pc'[a] \in {"idle", "reply"} /\ UNCHANGED <<runs, attempts>>
        /\ \A b \in Actor : b # a => pc'[b] = pc[b] /\ cur'[b] = cur[b] /\ out'[b] = out[b]
        /\ faults' = 0 => faults = 0
        /\ \/ UNCHANGED <<trail, attempt>>
           \/ /\ trail' = [trail EXCEPT ![t] = Logged(trail[t], "will-retry")]
              /\ attempt' = [attempt EXCEPT ![t] = attempt[t] + 1]
    BY <1>12 DEF Retry, Attempt, UpdateAndAudit, Fault
  <2>2. Owns(a, t) /\ t \in TaskId /\ \A b \in Actor : b # a => ~Owns(b, t)
    BY <1>1, <2>1 DEF Owns
  <2>3. /\ trail'[t].execs = trail[t].execs /\ attempt'[t] \in {attempt[t], attempt[t] + 1}
        /\ \A u \in TaskId : u # t => trail'[u] = trail[u] /\ attempt'[u] = attempt[u]
    BY <2>1, <2>2 DEF Logged
  <2>4. faults = 0 => Recorded(t, attempt[t])
    BY <2>1 DEF RecordInv, Reported
  <2>5. \A n \in Nat : Recorded(t, n)' = Recorded(t, n)
    BY <2>1 DEF Recorded
  <2>6. faults' = 0 => \A n \in 0 .. (attempt'[t] - 1) : Recorded(t, n)'
    <3>. SUFFICES ASSUME faults' = 0, NEW n \in 0 .. (attempt'[t] - 1) PROVE Recorded(t, n)
      BY <2>2, <2>3, <2>5
    <3>0. attempt[t] \in Nat /\ attempt'[t] \in {attempt[t], attempt[t] + 1}
      BY <2>2, <2>3
    <3>. HIDE DEF TypeInv, TypeOK, TablesTypeOK, InHand, tables
    <3>1. n \in 0 .. (attempt[t] - 1) \/ n = attempt[t]
      BY <3>0
    <3>. QED  BY <2>1, <2>2, <2>4, <3>1 DEF RecordInv
  <2>7. faults' = 0 => runs'[t] <= trail'[t].execs
    BY <2>1, <2>2, <2>3 DEF RecordInv
  <2>8. pc'[a] # "spawn" /\ ~Reported(a)'
    BY <2>1 DEF Reported
  <2>. HIDE DEF TypeInv, TypeOK, TablesTypeOK, InHand, tables
  <2>. QED  BY <2>1, <2>2, <2>3, <2>6, <2>7, <2>8, RecordMoves
<1>13. ASSUME NEW h \in Handler, Unreadable(h) \/ CarryOn(h) \/ Reply(h)  PROVE RecordInv'
  <2>1. /\ UNCHANGED <<runs, trail, attempt, attempts>> /\ (faults' = 0 => faults = 0)
        /\ pc'[h] \in {"idle", "admit"}
        /\ \A b \in Actor : b # h => pc'[b] = pc[b] /\ cur'[b] = cur[b] /\ out'[b] = out[b]
    BY <1>13 DEF Unreadable, CarryOn, Reply, Fault
  <2>. QED  BY <2>1, RecordIdle DEF Reported
<1>14. CASE Claim \/ Gate
  <2>1. /\ UNCHANGED <<runs, trail, attempt, attempts, faults>>
        /\ pc'[Worker] \in {"gate", "begin", "requeue"}
        /\ \A b \in Actor : b # Worker => pc'[b] = pc[b] /\ cur'[b] = cur[b] /\ out'[b] = out[b]
    BY <1>14 DEF Claim, ClaimDue, Update, Gate
  <2>. QED  BY <2>1, RecordIdle DEF Reported
<1>15. CASE ClaimLost
  BY <1>15 DEF ClaimLost, Fault, RecordInv
<1>16. ASSUME NEW t \in TaskId, ResumeRow(t)  PROVE RecordInv'
  <2>1. \A a \in Actor : pc[a] = "idle" /\ pc'[a] = "idle" /\ cur'[a] = cur[a] /\ out'[a] = out[a]
    BY <1>16 DEF ResumeRow, Resuming, Pass, OwnInv, AtRest, Running
  <2>2. /\ UNCHANGED <<runs, attempts, faults>>
        /\ \/ UNCHANGED <<trail, attempt>>
           \/ /\ trail' = [trail EXCEPT ![t] = Logged(trail[t], "canceled")]
              /\ attempt' = [attempt EXCEPT ![t] = attempt[t]]
    BY <1>16 DEF ResumeRow, Update, UpdateAndAudit
  <2>3. trail'[t].execs = trail[t].execs /\ attempt' = attempt
    BY <2>2 DEF Logged
  <2>4. \A u \in TaskId : u # t => trail'[u] = trail[u]
    BY <2>2
  <2>5. faults' = 0 => /\ runs'[t] <= trail'[t].execs
                       /\ \A n \in 0 .. (attempt'[t] - 1) : Recorded(t, n)'
    BY <2>2, <2>3 DEF RecordInv, Recorded
  <2>6. \A b \in Actor : ~Owns(b, t) /\ ~Reported(b)'
    BY <2>1 DEF Owns, Reported
  <2>7. Worker \in Actor /\ pc'[Worker] # "spawn" /\ ~Reported(Worker)'
    BY <2>1, <2>6
  <2>8. \A u \in TaskId : u # t =>
            runs'[u] = runs[u] /\ trail'[u] = trail[u] /\ attempt'[u] = attempt[u]
    BY <2>2, <2>3, <2>4
  <2>9. \A b \in Actor : b # Worker =>
            ~Owns(b, t) /\ pc'[b] = pc[b] /\ cur'[b] = cur[b] /\ out'[b] = out[b]
    BY <2>1, <2>6
  <2>. HIDE DEF TypeInv, TypeOK, TablesTypeOK, InHand
  <2>. QED  BY <2>2, <2>5, <2>7, <2>8, <2>9, RecordMoves
<1>17. ASSUME NEW h \in Handler, ClientGone(h)  PROVE RecordInv'
  BY <1>0, <1>17 DEF ClientGone
<1>18. CASE \/ \E r \in Request : Replay(r)
            \/ \E v \in Verb : Health(v) \/ CoolDown(v)
            \/ \E t \in TaskId : RetryDue(t)
  BY <1>0, <1>18 DEF Replay, Health, CoolDown, RetryDue, RunTimeReached
<1>19. CASE Boot \/ ResumeNext \/ Stop
  BY <1>0, <1>19 DEF Boot, ResumeNext, Stop, Fault
<1>20. CASE ResumeFails \/ Exit \/ Crash
  <2>1. /\ \A a \in Actor : pc'[a] = "idle"
        /\ UNCHANGED <<runs, trail, attempt, attempts>> /\ (faults' = 0 => faults = 0)
    BY <1>20 DEF ResumeFails, Exit, Crash, Wipe, Fault
  <2>. QED  BY <2>1, RecordIdle DEF Reported
<1>21. CASE UNCHANGED vars
  BY <1>0, <1>21 DEF vars
<1>. QED
  BY <1>2, <1>3, <1>5, <1>6, <1>7, <1>8, <1>9, <1>10, <1>11, <1>12, <1>13, <1>14, <1>15,
     <1>16, <1>17, <1>18, <1>19, <1>20, <1>21
     DEF Next, HandlerStep, WorkerStep, ExecStep, BootStep

(* Every child was announced in the outbox before it was started, and every
   attempt used up has its attempts row, crashes between recording and
   rescheduling included (worker.go:110-170). *)
THEOREM RunsAreOnRecord == Spec => []RunsOnRecord
<1>1. Spec => []TypeInv
  BY TypeInit, TypeStep, PTL DEF Spec
<1>2. Spec => []OwnInv
  BY <1>1, OwnInit, OwnStep, PTL DEF Spec
<1>3. Spec => []RecordInv
  BY <1>1, <1>2, RecordInit, RecordStep, PTL DEF Spec
<1>4. RecordInv => RunsOnRecord
  BY DEF RecordInv, RunsOnRecord, Recorded
<1>. QED  BY <1>3, <1>4, PTL

-----------------------------------------------------------------------------
(* The alarm.                                                              *)

Undisturbed == crashes = 0 /\ stops = 0 /\ Catalogs = {Verb} /\ ~SyncExec

Announced(t) == t \in notified \/ \E a \in Actor : cur[a] = t /\ pc[a] = "notify"

(***************************************************************************)
(* An actor on its way to notify has exhausted its row, for good.  As long *)
(* as nothing disturbs the daemon nobody's context is canceled and every   *)
(* row's verb is in the catalog, so that Exhaust is the only way to        *)
(* exhaust a row and Notify does what it is for.                           *)
(***************************************************************************)
AlarmInv ==
    faults = 0 =>
        /\ revived = {}
        /\ \A t \in notified : state[t] = "exhausted"
        /\ \A a \in Actor : pc[a] = "notify" => state[cur[a]] = "exhausted"
        /\ \A t \in TaskId : state[t] # "free" => req[t] \in Request
        /\ Undisturbed =>
              /\ phase # "stopping" /\ gone = {}
              /\ phase # "down" => catalog = Verb
              /\ \A t \in TaskId : state[t] = "exhausted" => Announced(t)

LEMMA AlarmInit == Init => AlarmInv
BY StoreAssumption, NoRequestAssumption
   DEF Init, TablesInit, AlarmInv, Announced, Actor, TaskId

(* Faults are never taken back. *)
LEMMA FaultsStay ==
    ASSUME TypeInv, [Next]_vars, faults' = 0
    PROVE  faults = 0 /\ ~Fault
<1>1. ~Fault
  BY DEF Fault, TypeInv, TypeOK
<1>2. faults' = faults
  BY <1>1
     DEF Next, vars, HandlerStep, WorkerStep, BootStep, ExecStep, Attempt, bounds,
         Post, Peek, Create, CreateRefused, Bind, Supersede, Refer, Unreadable, CarryOn, Admit,
         Handoff, Reply, ClientGone, Replay, Claim, ClaimLost, Unknown, Gate, Requeue,
         Begin, Spawn, Reap, Record, Verdict, Finish, Exhaust, Retry, Notify,
         Boot, ResumeNext, ResumeFails, ResumeRow, Stop, Exit, Crash, Health, CoolDown, RetryDue
<1>. QED  BY <1>1, <1>2

(* A step of one actor that has nothing to do with alarms. *)
LEMMA AlarmQuiet ==
    ASSUME TypeInv, OwnInv, AlarmInv, [Next]_vars, faults = 0, NEW a \in Actor,
           pc[a] # "notify", pc'[a] # "notify",
           UNCHANGED <<phase, catalog, notified, revived, crashes, stops>>,
           gone' \in SUBSET gone,
           \A b \in Actor : b # a => pc'[b] = pc[b] /\ cur'[b] = cur[b],
           \A t \in TaskId : state[t] = "free" => state'[t] = "free" \/ req'[t] \in Request,
           Undisturbed => \A t \in TaskId : state'[t] = "exhausted" => state[t] = "exhausted"
    PROVE  AlarmInv'
<1>1. \A t \in TaskId : state[t] = "exhausted" => state'[t] = "exhausted"
  BY SettledStep DEF AlarmInv, Terminal
<1>2. \A t \in TaskId : state'[t] # "free" => req'[t] \in Request
  BY RowsExist DEF AlarmInv
<1>3. notified \subseteq TaskId /\ \A b \in Actor : pc[b] = "notify" => cur[b] \in TaskId
  BY DEF TypeInv, TypeOK, InHand
<1>4. Undisturbed' <=> Undisturbed
  BY DEF Undisturbed
<1>5. \A t : Announced(t) => Announced(t)'
  BY DEF Announced, Actor
<1>. QED  BY <1>1, <1>2, <1>3, <1>4, <1>5 DEF AlarmInv, Actor

(* The same for steps that are no actor's. *)
LEMMA AlarmIdle ==
    ASSUME TypeInv, OwnInv, AlarmInv, [Next]_vars, faults = 0,
           UNCHANGED <<notified, revived, pc, cur, gone>>,
           Undisturbed' => /\ Undisturbed /\ phase' # "stopping"
                           /\ phase' # "down" => catalog' = Verb,
           \A t \in TaskId : state[t] = "free" => state'[t] = "free",
           \A t \in TaskId : state'[t] = "exhausted" => state[t] = "exhausted"
    PROVE  AlarmInv'
<1>1. \A t \in TaskId : state[t] = "exhausted" => state'[t] = "exhausted"
  BY SettledStep DEF AlarmInv, Terminal
<1>2. \A t \in TaskId : state'[t] # "free" => req'[t] \in Request
  BY RowsExist DEF AlarmInv
<1>3. notified \subseteq TaskId /\ \A b \in Actor : pc[b] = "notify" => cur[b] \in TaskId
  BY DEF TypeInv, TypeOK, InHand
<1>4. \A t : Announced(t) => Announced(t)'
  BY DEF Announced, Actor
<1>. QED  BY <1>1, <1>2, <1>3, <1>4 DEF AlarmInv, Actor

LEMMA AlarmStep == TypeInv /\ OwnInv /\ AlarmInv /\ [Next]_vars => AlarmInv'
<1>. SUFFICES ASSUME TypeInv, OwnInv, AlarmInv, [Next]_vars, faults' = 0 PROVE AlarmInv'
  BY DEF AlarmInv
<1>. USE DEF TypeInv, TypeOK, TablesTypeOK, InHand, Actor, tables, daemon, actors, ghosts,
         bounds, Goto, Done, Return
<1>0. faults = 0 /\ ~Fault
  BY FaultsStay
<1>1. ASSUME NEW h \in Handler,
             \/ Post(h) \/ Peek(h) \/ CreateRefused(h) \/ Bind(h) \/ Refer(h) \/ CarryOn(h)
             \/ Reply(h)
      PROVE  AlarmInv'
  <2>1. /\ UNCHANGED <<state, phase, catalog, notified, revived, crashes, stops>>
        /\ gone' \in SUBSET gone
        /\ pc[h] # "notify" /\ pc'[h] # "notify"
        /\ \A b \in Actor : b # h => pc'[b] = pc[b] /\ cur'[b] = cur[b]
    BY <1>1 DEF Post, Peek, CreateRefused, Bind, SaveIdempotency, Refer, CarryOn, Reply
  <2>. QED  BY <1>0, <2>1, AlarmQuiet
<1>2. ASSUME NEW h \in Handler, Create(h)  PROVE AlarmInv'
  <2>1. PICK t \in TaskId : /\ state' = [state EXCEPT ![t] = "accepted"]
                            /\ req' = [req EXCEPT ![t] = hreq[h]]
                            /\ cur' = [cur EXCEPT ![h] = t]
    BY <1>2 DEF Create, CreateAndAuditLimited
  <2>2. /\ UNCHANGED <<phase, catalog, notified, revived, crashes, stops, gone>>
        /\ pc[h] = "create" /\ hreq[h] \in Request
        /\ pc' = [pc EXCEPT ![h] = IF hreq[h].key = NoKey THEN "admit" ELSE "bind"]
    BY <1>2 DEF Create
  <2>. QED  BY <1>0, <2>1, <2>2, AlarmQuiet
<1>3. ASSUME NEW h \in Handler, Supersede(h) \/ Admit(h) \/ Handoff(h)  PROVE AlarmInv'
  <2>1. /\ UNCHANGED <<phase, catalog, notified, revived, crashes, stops, gone, cur>>
        /\ pc[h] \in {"supersede", "admit", "handoff"} /\ cur[h] \in TaskId
        /\ pc'[h] # "notify"
        /\ \A b \in Actor : b # h => pc'[b] = pc[b]
    BY <1>3 DEF Supersede, Admit, Handoff
  <2>2. \A t \in TaskId : state'[t] = "exhausted" => state[t] = "exhausted"
    BY <1>0, <1>3, <2>1 DEF Supersede, Admit, Handoff, Attempt, UpdateAndAudit
  <2>3. \A t \in TaskId : state[t] = "free" => state'[t] = "free"
    <3>1. Owns(h, cur[h]) /\ state[cur[h]] # "free"
      BY <2>1 DEF Owns, OwnInv, OwnedActive
    <3>2. \A t \in TaskId : t # cur[h] => state'[t] = state[t]
      BY <1>0, <1>3, <2>1 DEF Supersede, Admit, Handoff, Attempt, UpdateAndAudit
    <3>. QED  BY <3>1, <3>2
  <2>. QED  BY <1>0, <2>1, <2>2, <2>3, AlarmQuiet
<1>4. CASE Claim
  <2>1. PICK t \in TaskId : /\ Due(t) /\ state' = [state EXCEPT ![t] = "executing"]
                            /\ cur' = [cur EXCEPT ![Worker] = t]
    BY <1>4 DEF Claim, ClaimDue, Update
  <2>2. /\ UNCHANGED <<phase, catalog, notified, revived, crashes, stops, gone>>
        /\ pc[Worker] = "idle" /\ pc' = [pc EXCEPT ![Worker] = "gate"]
    BY <1>4 DEF Claim
  <2>. QED  BY <1>0, <2>1, <2>2, AlarmQuiet DEF Due
<1>5. CASE Gate
  <2>1. /\ UNCHANGED <<state, phase, catalog, notified, revived, crashes, stops, gone, cur>>
        /\ pc[Worker] = "gate" /\ pc'[Worker] # "notify"
        /\ \A b \in Actor : b # Worker => pc'[b] = pc[b]
    BY <1>5 DEF Gate
  <2>. QED  BY <1>0, <2>1, AlarmQuiet
<1>6. ASSUME NEW a \in Actor, pc[a] \in {"gate", "requeue", "begin", "settle"}
      PROVE  cur[a] \in TaskId /\ state[cur[a]] # "free"
  BY <1>6 DEF OwnInv, OwnedActive, Owns
<1>7. CASE Unknown
  <2>1. pc[Worker] = "gate" /\ VerbOf(Worker) \notin catalog /\ phase # "down"
    BY <1>7 DEF Unknown, OwnInv, AtRest, Running
  <2>2. VerbOf(Worker) \in Verb
    BY <1>0, <1>6, <2>1 DEF AlarmInv, VerbOf, Request
  <2>3. ~Undisturbed
    BY <1>0, <2>1, <2>2 DEF AlarmInv
  <2>4. /\ UNCHANGED <<phase, catalog, notified, revived, crashes, stops>>
        /\ gone' \in SUBSET gone /\ pc'[Worker] # "notify"
        /\ \A b \in Actor : b # Worker => pc'[b] = pc[b] /\ cur'[b] = cur[b]
        /\ \A t \in TaskId : t # cur[Worker] => state'[t] = state[t]
    BY <1>0, <1>7 DEF Unknown, Attempt, UpdateAndAudit
  <2>. QED  BY <1>0, <1>6, <2>1, <2>3, <2>4, AlarmQuiet
<1>8. CASE Requeue
  <2>1. /\ pc[Worker] = "requeue"
        /\ state' = [state EXCEPT ![cur[Worker]] = "retry_scheduled"]
    BY <1>0, <1>8 DEF Requeue, Attempt, UpdateAndAudit
  <2>2. \A t \in TaskId : state[t] = "free" => state'[t] = "free" \/ req'[t] \in Request
    BY <1>6, <2>1
  <2>3. Undisturbed => \A t \in TaskId : state'[t] = "exhausted" => state[t] = "exhausted"
    BY <1>6, <2>1
  <2>4. /\ UNCHANGED <<phase, catalog, notified, revived, crashes, stops>>
        /\ gone' \in SUBSET gone
        /\ \A b \in Actor : b # Worker => pc'[b] = pc[b] /\ cur'[b] = cur[b]
    BY <1>0, <1>8 DEF Requeue
  <2>5. Worker \in Actor /\ pc[Worker] # "notify" /\ pc'[Worker] # "notify"
    BY <1>8, <2>1 DEF Requeue
  <2>. HIDE DEF TypeInv, TypeOK, TablesTypeOK, InHand, Actor, tables, daemon, actors, ghosts,
            bounds, Goto, Done, Return
  <2>. QED  BY <1>0, <2>2, <2>3, <2>4, <2>5, AlarmQuiet, Zenon
<1>9. ASSUME NEW a \in Actor, Spawn(a) \/ Reap(a) \/ Record(a) \/ Verdict(a)  PROVE AlarmInv'
  <2>1. /\ UNCHANGED <<state, phase, catalog, notified, revived, crashes, stops>>
        /\ gone' \in SUBSET gone /\ pc[a] # "notify" /\ pc'[a] # "notify"
        /\ \A b \in Actor : b # a => pc'[b] = pc[b] /\ cur'[b] = cur[b]
    BY <1>0, <1>9 DEF Spawn, Reap, Record, Verdict, Attempt, RecordAttempt
  <2>. QED  BY <1>0, <2>1, AlarmQuiet
<1>10. ASSUME NEW a \in Actor, Begin(a) \/ Finish(a) \/ Retry(a)  PROVE AlarmInv'
  <2>1. /\ UNCHANGED <<phase, catalog, notified, revived, crashes, stops>>
        /\ gone' \in SUBSET gone /\ pc[a] \in {"begin", "settle"} /\ pc'[a] # "notify"
        /\ \A b \in Actor : b # a => pc'[b] = pc[b] /\ cur'[b] = cur[b]
    BY <1>10 DEF Begin, Finish, Retry
  <2>2. \E s \in {"executing", "executed", "retry_scheduled"} :
            state' = [state EXCEPT ![cur[a]] = s]
    BY <1>0, <1>10 DEF Begin, Finish, Retry, Attempt, UpdateAndAudit
  <2>. QED  BY <1>0, <1>6, <2>1, <2>2, AlarmQuiet
<1>11. ASSUME NEW a \in Actor, Exhaust(a)  PROVE AlarmInv'
  <2>1. /\ UNCHANGED <<phase, catalog, notified, revived, crashes, stops, gone, cur, req>>
        /\ pc[a] = "settle" /\ pc' = [pc EXCEPT ![a] = "notify"]
        /\ state' = [state EXCEPT ![cur[a]] = "exhausted"]
    BY <1>0, <1>11 DEF Exhaust, Attempt, UpdateAndAudit
  <2>2. \A t \in TaskId : state'[t] = "exhausted" => state[t] = "exhausted" \/ t = cur[a]
    BY <2>1
  <2>3. \A t : Announced(t) \/ t = cur[a] => Announced(t)'
    BY <2>1 DEF Announced
  <2>4. \A t \in TaskId : state[t] = "exhausted" => state'[t] = "exhausted"
    BY <2>1
  <2>5. Undisturbed' <=> Undisturbed
    BY <2>1 DEF Undisturbed
  <2>6. \A b \in Actor : pc'[b] = "notify" => state'[cur'[b]] = "exhausted"
    BY <1>0, <1>6, <2>1, <2>4 DEF AlarmInv
  <2>7. \A t \in TaskId : state'[t] # "free" => req'[t] \in Request
    BY <1>0, <1>6, <2>1 DEF AlarmInv
  <2>. QED  BY <1>0, <2>1, <2>2, <2>3, <2>4, <2>5, <2>6, <2>7 DEF AlarmInv
<1>12. ASSUME NEW a \in Actor, Notify(a)  PROVE AlarmInv'
  <2>1. /\ UNCHANGED <<state, req, phase, catalog, revived, crashes, stops>>
        /\ gone' \in SUBSET gone /\ pc[a] = "notify" /\ pc'[a] # "notify"
        /\ \A b \in Actor : b # a => pc'[b] = pc[b] /\ cur'[b] = cur[b]
        /\ notified' \in {notified, notified \cup {cur[a]}}
        /\ ~Canceled(a) => notified' = notified \cup {cur[a]}
    BY <1>12 DEF Notify
  <2>2. Undisturbed' <=> Undisturbed
    BY <2>1 DEF Undisturbed
  <2>3. Undisturbed => notified' = notified \cup {cur[a]}
    BY <1>0, <2>1 DEF AlarmInv, Canceled
  <2>4. Undisturbed => \A t : Announced(t) => Announced(t)'
    BY <2>1, <2>3 DEF Announced
  <2>. QED  BY <1>0, <2>1, <2>2, <2>4 DEF AlarmInv
<1>13. ASSUME NEW t \in TaskId, ResumeRow(t)  PROVE AlarmInv'
  <2>1. UNCHANGED <<phase, catalog, notified, revived, pc, cur, gone, crashes, stops>>
    BY <1>13 DEF ResumeRow, Update, UpdateAndAudit
  <2>2. /\ Resuming /\ state[t] # "free"
        /\ \E s \in {"pending", "canceled"} : state' = [state EXCEPT ![t] = s]
    BY <1>13 DEF ResumeRow, Resuming, Pass, Update, UpdateAndAudit
  <2>3. Undisturbed' => Undisturbed /\ phase' # "stopping" /\ (phase' # "down" => catalog' = Verb)
    BY <1>0, <2>1 DEF Undisturbed, AlarmInv
  <2>. QED  BY <1>0, <2>1, <2>2, <2>3, AlarmIdle
<1>14. CASE ResumeNext
  <2>1. /\ UNCHANGED <<state, catalog, notified, revived, pc, cur, gone, crashes, stops>>
        /\ phase # "down" /\ phase' # "stopping"
    BY <1>14 DEF ResumeNext, Resuming, Pass
  <2>2. Undisturbed' => Undisturbed /\ phase' # "stopping" /\ (phase' # "down" => catalog' = Verb)
    BY <1>0, <2>1 DEF Undisturbed, AlarmInv
  <2>. QED  BY <1>0, <2>1, <2>2, AlarmIdle
<1>15. CASE Boot
  <2>1. /\ UNCHANGED <<state, notified, revived, pc, cur, gone, crashes, stops>>
        /\ phase' = "resume_executing" /\ catalog' \in Catalogs
    BY <1>15 DEF Boot
  <2>2. Undisturbed' => Undisturbed /\ phase' # "stopping" /\ (phase' # "down" => catalog' = Verb)
    BY <2>1 DEF Undisturbed
  <2>. QED  BY <1>0, <2>1, <2>2, AlarmIdle
<1>16. CASE Stop
  <2>1. UNCHANGED <<state, notified, revived, pc, cur, gone>> /\ stops' = stops + 1
    BY <1>16 DEF Stop
  <2>2. ~Undisturbed'
    BY <2>1 DEF Undisturbed
  <2>. QED  BY <1>0, <2>1, <2>2, AlarmIdle
<1>17. CASE Exit \/ Crash
  <2>1. (\A a \in Actor : pc'[a] = "idle") /\ UNCHANGED <<state, req, notified, revived>>
    BY <1>17 DEF Exit, Crash, Wipe
  <2>2. ~Undisturbed'
    <3>1. CASE Exit
      BY <1>0, <3>1 DEF Exit, AlarmInv, Undisturbed
    <3>2. CASE Crash
      BY <3>2 DEF Crash, Undisturbed
    <3>. QED  BY <1>17, <3>1, <3>2
  <2>. QED  BY <1>0, <2>1, <2>2 DEF AlarmInv
<1>18. ASSUME NEW h \in Handler, ClientGone(h)  PROVE AlarmInv'
  <2>1. UNCHANGED <<state, req, notified, revived, pc, cur>> /\ SyncExec
    BY <1>18 DEF ClientGone
  <2>2. ~Undisturbed'
    BY <2>1 DEF Undisturbed
  <2>. QED  BY <1>0, <2>1, <2>2 DEF AlarmInv
<1>19. CASE \/ \E r \in Request : Replay(r)
            \/ \E v \in Verb : Health(v) \/ CoolDown(v)
            \/ \E t \in TaskId : RetryDue(t)
            \/ UNCHANGED vars
  <2>1. UNCHANGED <<state, phase, catalog, notified, revived, pc, cur, gone, crashes, stops>>
    BY <1>19 DEF Replay, Health, CoolDown, RetryDue, RunTimeReached, vars
  <2>2. Undisturbed' => Undisturbed /\ phase' # "stopping" /\ (phase' # "down" => catalog' = Verb)
    BY <1>0, <2>1 DEF Undisturbed, AlarmInv
  <2>. QED  BY <1>0, <2>1, <2>2, AlarmIdle
<1>20. ~ClaimLost /\ ~ResumeFails /\ \A h \in Handler : ~Unreadable(h)
  BY <1>0 DEF ClaimLost, ResumeFails, Unreadable
<1>. HIDE DEF TypeInv, TypeOK, TablesTypeOK, InHand, Actor, tables, daemon, actors, ghosts,
          bounds, Goto, Done, Return
<1>. QED
  BY <1>1, <1>2, <1>3, <1>4, <1>5, <1>7, <1>8, <1>9, <1>10, <1>11, <1>12, <1>13, <1>14,
     <1>15, <1>16, <1>17, <1>18, <1>19, <1>20
     DEF Next, HandlerStep, WorkerStep, ExecStep, BootStep

(* With a working store nobody is told of a task that was not given up; and as
   long as nothing disturbs the daemon somebody is told of every one that was
   (worker.go:184-198). *)
THEOREM AlarmsAreExact == Spec => []AlarmExact
<1>1. Spec => []TypeInv
  BY TypeInit, TypeStep, PTL DEF Spec
<1>2. Spec => []OwnInv
  BY <1>1, OwnInit, OwnStep, PTL DEF Spec
<1>3. Spec => []AlarmInv
  BY <1>1, <1>2, AlarmInit, AlarmStep, PTL DEF Spec
<1>4. AlarmInv => AlarmExact
  BY DEF AlarmInv, AlarmExact, Undisturbed, Announced
<1>. QED  BY <1>3, <1>4, PTL

-----------------------------------------------------------------------------
(* The retry budget.                                                       *)

(* Steps of an actor that has yet to start a child for the attempt its row is at. *)
Ahead == {"bind", "supersede", "refer", "admit", "handoff", "gate", "requeue", "begin", "spawn"}

(* Steps of an actor whose child has been started for it. *)
Behind == {"wait", "record", "verdict", "settle"}

(* Steps of a handler that knows its row to be at attempt 0. *)
AtFirst == {"bind", "supersede", "refer", "admit", "handoff", "begin"}

Granted(t) == Budget(Worker, req[t].verb)

(* No attempt is beyond the budget, and the reset of inline execution resets
   nothing. *)
GrantInv ==
    /\ \A t \in TaskId :
          IF state[t] = "free" THEN attempt[t] = 0
          ELSE req[t] \in Request /\ attempt[t] <= Granted(t)
    /\ \A h \in Handler : pc[h] \in AtFirst => attempt[cur[h]] = 0

(* A verb's budget, and what a handler executing inline grants of it. *)
LEMMA BudgetType ==
    ASSUME NEW a \in Actor, NEW v \in Verb
    PROVE  Budget(a, v) \in 0 .. Budget(Worker, v) /\ Budget(Worker, v) \in Nat
BY DispatcherAssumption DEF Budget

LEMMA GrantInit == Init => GrantInv
<1>. SUFFICES ASSUME Init PROVE GrantInv
  OBVIOUS
<1>1. ASSUME NEW t \in TaskId
      PROVE  IF state[t] = "free" THEN attempt[t] = 0
             ELSE req[t] \in Request /\ attempt[t] <= Granted(t)
  <2>1. attempt[t] = 0 /\ (state[t] # "free" => req[t] \in Request)
    BY <1>1, NoRequestAssumption DEF Init, TablesInit, TaskId
  <2>2. req[t] \in Request => Granted(t) \in Nat
    BY BudgetType DEF Granted, Request, Actor
  <2>. QED  BY <2>1, <2>2
<1>2. \A h \in Handler : pc[h] = "idle"
  BY DEF Init, Actor
<1>. QED  BY <1>1, <1>2 DEF GrantInv, AtFirst

(* A step that changes no attempt. *)
LEMMA GrantIdle ==
    ASSUME TypeInv, OwnInv, GrantInv, [Next]_vars, attempt' = attempt,
           \A t \in TaskId : state[t] = "free" =>
               state'[t] = "free" \/ (req'[t] \in Request /\ Granted(t)' \in Nat),
           \A h \in Handler : pc'[h] \in AtFirst =>
               \/ pc[h] \in AtFirst /\ cur'[h] = cur[h]
               \/ attempt[cur'[h]] = 0
    PROVE  GrantInv'
<1>1. ASSUME NEW t \in TaskId, state'[t] # "free"
      PROVE  req'[t] \in Request /\ attempt'[t] <= Granted(t)'
  <2>1. CASE state[t] = "free"
    BY <1>1, <2>1 DEF GrantInv
  <2>2. CASE state[t] # "free"
    BY <1>1, <2>2, RowsExist DEF GrantInv, Granted, Budget
  <2>. QED  BY <2>1, <2>2
<1>2. \A t \in TaskId : state'[t] = "free" => attempt'[t] = 0
  BY RowsExist DEF GrantInv
<1>. QED  BY <1>1, <1>2 DEF GrantInv

(* Only Retry changes an attempt: the reset of inline execution finds it 0. *)
LEMMA AttemptStays ==
    TypeInv /\ GrantInv /\ [Next]_vars /\ (\A a \in Actor : ~Retry(a)) => attempt' = attempt
<1>. SUFFICES ASSUME TypeInv, GrantInv, [Next]_vars, \A a \in Actor : ~Retry(a)
              PROVE  attempt' = attempt
  OBVIOUS
<1>. USE DEF TypeInv, TypeOK, TablesTypeOK, tables, Attempt, UpdateAndAudit
<1>a. attempt \in [TaskId -> Nat]
  OBVIOUS
<1>1. ASSUME NEW h \in Handler,
             \/ Post(h) \/ Peek(h) \/ Create(h) \/ CreateRefused(h) \/ Bind(h) \/ Refer(h)
             \/ CarryOn(h) \/ Unreadable(h) \/ Reply(h) \/ ClientGone(h)
      PROVE  attempt' = attempt
  BY <1>1 DEF Post, Peek, Create, CreateAndAuditLimited, CreateRefused, Bind, SaveIdempotency,
              Refer, CarryOn, Unreadable, Reply, ClientGone
<1>2. ASSUME NEW h \in Handler, Supersede(h) \/ Admit(h) \/ Handoff(h)
      PROVE  attempt' = attempt
  BY <1>2, <1>a DEF Supersede, Admit, Handoff
<1>3. CASE WorkerStep
  BY <1>3, <1>a DEF WorkerStep, Claim, ClaimLost, ClaimDue, Update, Unknown, Gate, Requeue
<1>4. ASSUME NEW a \in Actor, Begin(a)  PROVE attempt' = attempt
  <2>1. cur[a] \in TaskId /\ (a \in Handler => attempt[cur[a]] = 0)
    BY <1>4 DEF Begin, GrantInv, InHand, AtFirst
  <2>. QED  BY <1>4, <1>a, <2>1 DEF Begin, Actor
<1>5. ASSUME NEW a \in Actor,
             \/ Spawn(a) \/ Reap(a) \/ Record(a) \/ Verdict(a) \/ Finish(a) \/ Exhaust(a)
             \/ Notify(a)
      PROVE  attempt' = attempt
  BY <1>5, <1>a DEF Spawn, Reap, Record, Verdict, Finish, Exhaust, Notify, RecordAttempt
<1>6. CASE \/ BootStep \/ Stop \/ Exit \/ Crash \/ UNCHANGED vars
           \/ \E r \in Request : Replay(r)
           \/ \E v \in Verb : Health(v) \/ CoolDown(v)
           \/ \E t \in TaskId : RetryDue(t)
  BY <1>6, <1>a DEF BootStep, Boot, ResumeNext, ResumeFails, ResumeRow, Stop, Exit, Crash, Wipe,
     Replay, Health, CoolDown, RetryDue, RunTimeReached, Update, vars
<1>. HIDE DEF TypeInv, TypeOK, TablesTypeOK, tables, Attempt, UpdateAndAudit
<1>. QED
  BY <1>1, <1>2, <1>3, <1>4, <1>5, <1>6 DEF Next, HandlerStep, ExecStep

LEMMA GrantStep == TypeInv /\ OwnInv /\ GrantInv /\ [Next]_vars => GrantInv'
<1>. SUFFICES ASSUME TypeInv, OwnInv, GrantInv, [Next]_vars PROVE GrantInv'
  OBVIOUS
<1>. USE DEF TypeInv, TypeOK, TablesTypeOK, InHand, Actor, tables, daemon, actors, ghosts,
         bounds, Goto, Done, Return, AtFirst
<1>b. \A h \in Handler : h # Worker
  BY DispatcherAssumption
<1>1. ASSUME NEW h \in Handler, Create(h)  PROVE GrantInv'
  <2>. PICK t \in TaskId : CreateAndAuditLimited(t, hreq[h]) /\ cur' = [cur EXCEPT ![h] = t]
    BY <1>1 DEF Create
  <2>1. /\ pc[h] = "create" /\ hreq[h] \in Request /\ state[t] = "free"
        /\ state' = [state EXCEPT ![t] = "accepted"] /\ req' = [req EXCEPT ![t] = hreq[h]]
        /\ attempt' = attempt
        /\ \A g \in Handler : g # h => pc'[g] = pc[g]
    BY <1>1 DEF Create, CreateAndAuditLimited, Fresh
  <2>2. attempt[t] = 0
    BY <2>1 DEF GrantInv
  <2>3. req'[t] \in Request /\ Granted(t)' \in Nat
    BY <2>1, BudgetType DEF Granted, Budget, Request
  <2>4. attempt' = attempt
    BY <2>1
  <2>5. \A u \in TaskId : state[u] = "free" =>
            state'[u] = "free" \/ (req'[u] \in Request /\ Granted(u)' \in Nat)
    BY <2>1, <2>3
  <2>6. \A g \in Handler : pc'[g] \in AtFirst =>
            \/ pc[g] \in AtFirst /\ cur'[g] = cur[g]
            \/ attempt[cur'[g]] = 0
    BY <2>1, <2>2
  <2>. HIDE DEF TypeInv, AtFirst
  <2>. QED  BY <2>4, <2>5, <2>6, GrantIdle, Zenon
<1>2. ASSUME NEW a \in Actor, Retry(a)  PROVE GrantInv'
  <2>. PICK t \in TaskId : t = cur[a]
    BY <1>2 DEF Retry
  <2>1. /\ pc[a] = "settle" /\ pc'[a] \notin AtFirst
        /\ \A b \in Actor : b # a => pc'[b] = pc[b] /\ cur'[b] = cur[b]
        /\ ~(attempt[t] >= Budget(a, req[t].verb))
        /\ attempt' = attempt \/ attempt' = [attempt EXCEPT ![t] = attempt[t] + 1]
        /\ req' = req
        /\ \A u \in TaskId : u # t => state'[u] = state[u]
    BY <1>2 DEF Retry, Attempt, UpdateAndAudit, ShouldExhaust, VerbOf
  <2>2. Owns(a, t) /\ state[t] # "free"
    BY <2>1 DEF Owns, OwnInv, OwnedActive
  <2>3. req[t] \in Request /\ req[t].verb \in Verb
    BY <2>2 DEF GrantInv, Request
  <2>4. attempt[t] + 1 <= Granted(t)
    <3>1. /\ Budget(a, req[t].verb) \in 0 .. Budget(Worker, req[t].verb)
          /\ Budget(Worker, req[t].verb) \in Nat
      BY <2>3, BudgetType
    <3>. QED  BY <2>1, <3>1 DEF Granted
  <2>5. \A u \in TaskId : \/ attempt'[u] = attempt[u]
                          \/ u = t /\ attempt'[u] = attempt[u] + 1
    BY <2>1
  <2>6. \A u \in TaskId : (state'[u] = "free") <=> (state[u] = "free")
    <3>. HIDE DEF TypeInv
    <3>. QED  BY <2>1, <2>2, RowsExist
  <2>7. ASSUME NEW h \in Handler, pc'[h] \in AtFirst  PROVE attempt'[cur'[h]] = 0
    <3>1. h # a /\ pc[h] \in AtFirst /\ cur'[h] = cur[h] /\ cur[h] \in TaskId
      BY <2>1, <2>7
    <3>2. Owns(h, cur[h])
      BY <3>1 DEF Owns
    <3>3. cur[h] # t
      BY <2>2, <3>1, <3>2 DEF OwnInv, OneOwner
    <3>. QED  BY <2>5, <3>1, <3>3 DEF GrantInv
  <2>8. ASSUME NEW u \in TaskId
        PROVE  IF state'[u] = "free" THEN attempt'[u] = 0
               ELSE req'[u] \in Request /\ attempt'[u] <= Granted(u)'
    <3>1. Granted(u)' = Granted(u)
      BY <2>1 DEF Granted, Budget
    <3>. QED  BY <2>1, <2>2, <2>4, <2>5, <2>6, <3>1 DEF GrantInv
  <2>. QED  BY <2>7, <2>8 DEF GrantInv
<1>. DEFINE Moves ==
         \A h \in Handler : pc'[h] \in AtFirst => pc[h] \in AtFirst /\ cur'[h] = cur[h]
<1>3. ASSUME NEW h \in Handler,
             \/ Post(h) \/ Peek(h) \/ CreateRefused(h) \/ Bind(h) \/ Refer(h) \/ CarryOn(h)
             \/ Unreadable(h) \/ Reply(h) \/ ClientGone(h) \/ Supersede(h) \/ Admit(h)
             \/ Handoff(h)
      PROVE  Moves
  BY <1>3 DEF Post, Peek, CreateRefused, Bind, Refer, CarryOn, Unreadable, Reply, ClientGone,
              Supersede, Admit, Handoff
<1>4. ASSUME WorkerStep  PROVE Moves
  BY <1>4, <1>b DEF WorkerStep, Claim, ClaimLost, Unknown, Gate, Requeue
<1>5. ASSUME NEW a \in Actor, ExecStep(a), ~Retry(a)  PROVE Moves
  <2>1. /\ pc'[a] \notin AtFirst
        /\ \A b \in Actor : b # a => pc'[b] = pc[b] /\ cur'[b] = cur[b]
    <3>1. CASE Begin(a) \/ Spawn(a) \/ Reap(a)
      BY <3>1 DEF Begin, Spawn, Reap
    <3>2. CASE Record(a) \/ Verdict(a)
      BY <3>2 DEF Record, Verdict
    <3>3. CASE Finish(a) \/ Exhaust(a)
      BY <3>3 DEF Finish, Exhaust
    <3>4. CASE Notify(a)
      BY <3>4 DEF Notify
    <3>. QED  BY <1>5, <3>1, <3>2, <3>3, <3>4 DEF ExecStep
  <2>. QED  BY <2>1
<1>6. ASSUME ResumeFails \/ Exit \/ Crash  PROVE Moves
  BY <1>6 DEF ResumeFails, Exit, Crash, Wipe
<1>7. ASSUME \/ Boot \/ ResumeNext \/ Stop \/ UNCHANGED vars
             \/ \E r \in Request : Replay(r)
             \/ \E v \in Verb : Health(v) \/ CoolDown(v)
             \/ \E t \in TaskId : RetryDue(t) \/ ResumeRow(t)
      PROVE  Moves
  BY <1>7 DEF Boot, ResumeNext, ResumeRow, Stop, Replay, Health, CoolDown, RetryDue, vars
<1>8. ASSUME Moves, \A h \in Handler : ~Create(h), \A a \in Actor : ~Retry(a)
      PROVE  GrantInv'
  <2>. HIDE DEF TypeInv
  <2>1. attempt' = attempt
    BY <1>8, AttemptStays
  <2>2. \A t \in TaskId : state[t] = "free" => state'[t] = "free"
    BY <1>8, FreeStep
  <2>. HIDE DEF AtFirst
  <2>. QED  BY <1>8, <2>1, <2>2, GrantIdle, Zenon
<1>. HIDE DEF TypeInv, TypeOK, TablesTypeOK, InHand, Actor, tables, daemon, actors, ghosts,
          bounds, Goto, Done, Return, AtFirst, Moves
<1>. QED
  BY <1>1, <1>2, <1>3, <1>4, <1>5, <1>6, <1>7, <1>8 DEF Next, HandlerStep, ExecStep, BootStep

Deaths == crashes + stops

(* States in which a row waits for its next attempt. *)
Resting == {"free", "pending", "retry_scheduled", "pending_approval"}

(* No child of the current attempt has been started by the daemon that runs. *)
Unspent(t) ==
    \/ phase # "up"
    \/ state[t] \in Resting
    \/ \E a \in Actor : cur[a] = t /\ pc[a] \in Ahead

(* One child per attempt, and one more for each time the daemon died. *)
SpendInv ==
    \A t \in TaskId :
        /\ runs[t] <= attempt[t] + Deaths + 1
        /\ Unspent(t) => runs[t] <= attempt[t] + Deaths

LEMMA SpendInit == Init => SpendInv
BY DEF Init, TablesInit, SpendInv, Deaths, TaskId

(* A step that starts no child and leaves no row unspent that was not, unless
   by moving on to the next attempt or by the daemon dying. *)
LEMMA SpendIdle ==
    ASSUME TypeInv, TypeInv', SpendInv, runs' = runs, Deaths' >= Deaths,
           \A t \in TaskId :
               /\ attempt'[t] >= attempt[t]
               /\ Unspent(t)' => \/ Unspent(t)
                                 \/ Deaths' > Deaths
                                 \/ attempt'[t] > attempt[t]
    PROVE  SpendInv'
<1>. SUFFICES ASSUME NEW t \in TaskId
              PROVE  /\ runs'[t] <= attempt'[t] + Deaths' + 1
                     /\ Unspent(t)' => runs'[t] <= attempt'[t] + Deaths'
  BY DEF SpendInv
<1>1. /\ runs[t] \in Nat /\ runs'[t] = runs[t]
      /\ attempt[t] \in Nat /\ attempt'[t] \in Nat /\ Deaths \in Nat /\ Deaths' \in Nat
  <2>1. runs[t] \in Nat /\ attempt[t] \in Nat /\ crashes \in Nat /\ stops \in Nat
    BY DEF TypeInv, TypeOK, TablesTypeOK
  <2>2. attempt'[t] \in Nat /\ crashes' \in Nat /\ stops' \in Nat
    BY DEF TypeInv, TypeOK, TablesTypeOK
  <2>3. \A i, j \in Nat : i + j \in Nat
    OBVIOUS
  <2>4. Deaths = crashes + stops /\ Deaths' = crashes' + stops'
    BY DEF Deaths
  <2>. QED  BY <2>1, <2>2, <2>3, <2>4
<1>2. /\ runs[t] <= attempt[t] + Deaths + 1
      /\ Unspent(t) => runs[t] <= attempt[t] + Deaths
  BY DEF SpendInv
<1>3. /\ attempt'[t] >= attempt[t] /\ Deaths' >= Deaths
      /\ Unspent(t)' => Unspent(t) \/ Deaths' > Deaths \/ attempt'[t] > attempt[t]
  OBVIOUS
<1>4. runs'[t] <= attempt'[t] + Deaths' + 1
  BY <1>1, <1>2, <1>3
<1>5. Unspent(t)' => runs'[t] <= attempt'[t] + Deaths'
  BY <1>1, <1>2, <1>3
<1>. QED  BY <1>4, <1>5

(* Every step but Retry and the start of a child: a row that comes to rest was in the hands of
   an actor that had started nothing for it. *)
LEMMA SpendMoves ==
    ASSUME TypeInv, [Next]_vars, \A a \in Actor : ~Retry(a) /\ (Spawn(a) => runs' = runs)
    PROVE  /\ runs' = runs /\ Deaths' >= Deaths
           /\ \A t \in TaskId : Unspent(t)' => Unspent(t) \/ Deaths' > Deaths
<1>. DEFINE Kept == /\ runs' = runs /\ Deaths' >= Deaths
                    /\ \A t \in TaskId : Unspent(t)' => Unspent(t) \/ Deaths' > Deaths
<1>. SUFFICES Kept
  OBVIOUS
<1>. USE DEF TypeInv, TypeOK, TablesTypeOK, InHand, Actor, tables, daemon, actors, ghosts,
         bounds, Goto, Done, Return, Attempt, UpdateAndAudit, Ahead, Resting
<1>a. \A h \in Handler : h # Worker
  BY DispatcherAssumption
<1>0. ASSUME runs' = runs, crashes' = crashes, stops' = stops, phase = "up" => phase' = "up",
             \A t \in TaskId : state'[t] \in Resting => state[t] \in Resting \/ Unspent(t),
             \A a \in Actor : \A t \in TaskId :
                 cur'[a] = t /\ pc'[a] \in Ahead => Unspent(t)
      PROVE  Kept
  BY <1>0 DEF Unspent, Deaths
<1>1. ASSUME NEW h \in Handler,
             \/ Post(h) \/ Peek(h) \/ CreateRefused(h) \/ Bind(h) \/ Refer(h) \/ CarryOn(h)
             \/ Unreadable(h) \/ Reply(h) \/ ClientGone(h)
      PROVE  Kept
  <2>1. /\ runs' = runs /\ crashes' = crashes /\ stops' = stops /\ phase' = phase
        /\ state' = state
    BY <1>1 DEF Post, Peek, CreateRefused, Bind, SaveIdempotency, Refer, CarryOn, Unreadable,
                Reply, ClientGone
  <2>2. \A a \in Actor : \A t \in TaskId :
            cur'[a] = t /\ pc'[a] \in Ahead => cur[a] = t /\ pc[a] \in Ahead
    BY <1>1 DEF Post, Peek, CreateRefused, Bind, Refer, CarryOn, Unreadable, Reply, ClientGone,
                TaskId, NoTask
  <2>. HIDE DEF Ahead, Resting, Kept, TypeInv, Actor
  <2>3. /\ phase = "up" => phase' = "up"
        /\ \A t \in TaskId : state'[t] \in Resting => state[t] \in Resting \/ Unspent(t)
        /\ \A a \in Actor : \A t \in TaskId : cur'[a] = t /\ pc'[a] \in Ahead => Unspent(t)
    BY <2>1, <2>2 DEF Unspent
  <2>. QED  BY <2>1, <2>3, <1>0
<1>. DEFINE Steady == /\ runs' = runs /\ crashes' = crashes /\ stops' = stops /\ phase' = phase
<1>2. ASSUME NEW a \in Actor, pc[a] \in Ahead, Steady,
             \A t \in TaskId : state'[t] # state[t] => t = cur[a],
             \A b \in Actor : b # a => pc'[b] = pc[b] /\ cur'[b] = cur[b],
             cur'[a] \in {cur[a], NoTask}
      PROVE  Kept
  <2>. HIDE DEF TypeInv, Actor, Ahead, Resting
  <2>1. \A t \in TaskId : state'[t] \in Resting => state[t] \in Resting \/ Unspent(t)
    BY <1>2 DEF Unspent
  <2>2. \A b \in Actor : \A t \in TaskId : cur'[b] = t /\ pc'[b] \in Ahead => Unspent(t)
    BY <1>2 DEF Unspent, TaskId, NoTask
  <2>. QED  BY <1>2, <2>1, <2>2, <1>0
<1>3. ASSUME NEW h \in Handler, Supersede(h) \/ Admit(h) \/ Handoff(h)  PROVE Kept
  <2>1. /\ pc[h] \in Ahead /\ Steady /\ cur'[h] \in {cur[h], NoTask}
        /\ \A b \in Actor : b # h => pc'[b] = pc[b] /\ cur'[b] = cur[b]
    BY <1>3 DEF Supersede, Admit, Handoff
  <2>2. \A t \in TaskId : state'[t] # state[t] => t = cur[h]
    BY <1>3 DEF Supersede, Admit, Handoff
  <2>. HIDE DEF TypeInv, Actor, Ahead, Resting, Kept, Steady
  <2>. QED  BY <2>1, <2>2, <1>2 DEF Actor
<1>4. CASE Unknown \/ Requeue
  <2>1. /\ pc[Worker] \in Ahead /\ Steady /\ cur'[Worker] \in {cur[Worker], NoTask}
        /\ \A b \in Actor : b # Worker => pc'[b] = pc[b] /\ cur'[b] = cur[b]
    BY <1>4 DEF Unknown, Requeue
  <2>2. \A t \in TaskId : state'[t] # state[t] => t = cur[Worker]
    BY <1>4 DEF Unknown, Requeue
  <2>. HIDE DEF TypeInv, Actor, Ahead, Resting, Kept, Steady
  <2>. QED  BY <2>1, <2>2, <1>2 DEF Actor
<1>5. CASE Gate
  <2>1. /\ pc[Worker] \in Ahead /\ Steady /\ cur'[Worker] \in {cur[Worker], NoTask}
        /\ \A b \in Actor : b # Worker => pc'[b] = pc[b] /\ cur'[b] = cur[b]
        /\ state' = state
    BY <1>5 DEF Gate
  <2>. HIDE DEF TypeInv, Actor, Ahead, Resting, Kept, Steady
  <2>. QED  BY <2>1, <1>2 DEF Actor
<1>6. ASSUME NEW a \in Actor, Begin(a)  PROVE Kept
  <2>1. /\ pc[a] \in Ahead /\ Steady /\ cur'[a] \in {cur[a], NoTask}
        /\ \A b \in Actor : b # a => pc'[b] = pc[b] /\ cur'[b] = cur[b]
    BY <1>6 DEF Begin
  <2>2. \A t \in TaskId : state'[t] # state[t] => t = cur[a]
    BY <1>6 DEF Begin
  <2>. HIDE DEF TypeInv, Actor, Ahead, Resting, Kept, Steady
  <2>. QED  BY <2>1, <2>2, <1>2
<1>7. ASSUME NEW a \in Actor, Steady, pc'[a] \notin Ahead,
             \A t \in TaskId : state'[t] # state[t] => state'[t] \notin Resting,
             \A b \in Actor : b # a => pc'[b] = pc[b] /\ cur'[b] = cur[b]
      PROVE  Kept
  <2>. HIDE DEF TypeInv, Actor, Ahead, Resting
  <2>1. \A t \in TaskId : state'[t] \in Resting => state[t] \in Resting \/ Unspent(t)
    BY <1>7
  <2>2. \A b \in Actor : \A t \in TaskId : cur'[b] = t /\ pc'[b] \in Ahead => Unspent(t)
    BY <1>7 DEF Unspent
  <2>. QED  BY <1>7, <2>1, <2>2, <1>0
<1>8. ASSUME NEW h \in Handler, Peek(h)  PROVE Kept
  <2>1. Steady /\ state' = state /\ pc'[h] \notin Ahead
    BY <1>8 DEF Peek
  <2>2. \A b \in Actor : b # h => pc'[b] = pc[b] /\ cur'[b] = cur[b]
    BY <1>8 DEF Peek
  <2>. HIDE DEF TypeInv, Actor, Ahead, Resting, Kept, Steady
  <2>. QED  BY <2>1, <2>2, <1>7 DEF Actor
<1>9. ASSUME NEW a \in Actor,
             Spawn(a) \/ Reap(a) \/ Record(a) \/ Verdict(a) \/ Notify(a)
      PROVE  Kept
  <2>1. Steady /\ state' = state /\ pc'[a] \notin Ahead
    BY <1>9 DEF Spawn, Reap, Record, RecordAttempt, Verdict, Notify
  <2>2. \A b \in Actor : b # a => pc'[b] = pc[b] /\ cur'[b] = cur[b]
    BY <1>9 DEF Spawn, Reap, Record, Verdict, Notify
  <2>. HIDE DEF TypeInv, Actor, Ahead, Resting, Kept, Steady
  <2>. QED  BY <2>1, <2>2, <1>7
<1>10. ASSUME NEW a \in Actor, Finish(a) \/ Exhaust(a)  PROVE Kept
  <2>1. Steady /\ pc'[a] \notin Ahead
    BY <1>10 DEF Finish, Exhaust
  <2>2. \A b \in Actor : b # a => pc'[b] = pc[b] /\ cur'[b] = cur[b]
    BY <1>10 DEF Finish, Exhaust
  <2>3. \A t \in TaskId : state'[t] # state[t] => state'[t] \notin Resting
    BY <1>10 DEF Finish, Exhaust
  <2>. HIDE DEF TypeInv, Actor, Ahead, Resting, Kept, Steady
  <2>. QED  BY <2>1, <2>2, <2>3, <1>7
<1>11. ASSUME NEW h \in Handler, Create(h)  PROVE Kept
  <2>. PICK t \in TaskId : /\ state[t] = "free" /\ state' = [state EXCEPT ![t] = "accepted"]
                           /\ cur' = [cur EXCEPT ![h] = t]
    BY <1>11 DEF Create, CreateAndAuditLimited, Fresh
  <2>1. Steady /\ \A b \in Actor : b # h => pc'[b] = pc[b] /\ cur'[b] = cur[b]
    BY <1>11 DEF Create
  <2>2. Unspent(t) /\ cur'[h] = t
    BY DEF Unspent
  <2>3. \A u \in TaskId : state'[u] \in Resting => state[u] \in Resting
    OBVIOUS
  <2>. HIDE DEF TypeInv, Actor, Ahead, Resting
  <2>4. \A b \in Actor : \A u \in TaskId : cur'[b] = u /\ pc'[b] \in Ahead => Unspent(u)
    BY <2>1, <2>2 DEF Unspent
  <2>. QED  BY <2>1, <2>3, <2>4, <1>0
<1>12. CASE Claim
  <2>. PICK t \in TaskId : /\ state[t] \in Resting
                           /\ state' = [state EXCEPT ![t] = "executing"]
                           /\ cur' = [cur EXCEPT ![Worker] = t]
    BY <1>12 DEF Claim, ClaimDue, Due, Update
  <2>1. Steady /\ \A b \in Actor : b # Worker => pc'[b] = pc[b] /\ cur'[b] = cur[b]
    BY <1>12 DEF Claim
  <2>2. Unspent(t) /\ cur'[Worker] = t
    BY DEF Unspent
  <2>3. \A u \in TaskId : state'[u] \in Resting => state[u] \in Resting
    OBVIOUS
  <2>. HIDE DEF TypeInv, Actor, Ahead, Resting
  <2>4. \A b \in Actor : \A u \in TaskId : cur'[b] = u /\ pc'[b] \in Ahead => Unspent(u)
    BY <2>1, <2>2 DEF Unspent
  <2>. QED  BY <2>1, <2>3, <2>4, <1>0
<1>13. CASE \/ ClaimLost \/ UNCHANGED vars
            \/ \E r \in Request : Replay(r)
            \/ \E v \in Verb : Health(v) \/ CoolDown(v)
            \/ \E t \in TaskId : RetryDue(t)
  <2>1. Steady /\ pc' = pc /\ cur' = cur
    BY <1>13 DEF ClaimLost, Replay, Health, CoolDown, RetryDue, vars
  <2>2. \A t \in TaskId : state'[t] # state[t] => state'[t] \notin Resting
    BY <1>13 DEF ClaimLost, ClaimDue, Update, Replay, Health, CoolDown, RetryDue, RunTimeReached,
                 vars
  <2>. HIDE DEF TypeInv, Actor, Ahead, Resting
  <2>3. \A t \in TaskId : state'[t] \in Resting => state[t] \in Resting
    BY <2>2
  <2>4. \A b \in Actor : \A u \in TaskId : cur'[b] = u /\ pc'[b] \in Ahead => Unspent(u)
    BY <2>1 DEF Unspent
  <2>. QED  BY <2>1, <2>3, <2>4, <1>0
<1>14. CASE phase # "up" /\ (BootStep \/ Exit)
  <2>1. runs' = runs /\ crashes' = crashes /\ stops' = stops
    BY <1>14 DEF BootStep, Boot, ResumeNext, ResumeFails, ResumeRow, Exit, Wipe
  <2>2. \A t \in TaskId : Unspent(t)
    BY <1>14 DEF Unspent
  <2>. QED  BY <2>1, <2>2 DEF Deaths
<1>15. CASE Stop \/ Crash
  <2>1. /\ runs' = runs /\ crashes \in Nat /\ stops \in Nat
        /\ \/ crashes' = crashes + 1 /\ stops' = stops
           \/ crashes' = crashes /\ stops' = stops + 1
    BY <1>15 DEF Stop, Crash, Wipe
  <2>. HIDE DEF TypeInv
  <2>2. Deaths' = Deaths + 1 /\ Deaths \in Nat
    BY <2>1 DEF Deaths
  <2>. HIDE DEF Deaths
  <2>. QED  BY <2>1, <2>2
<1>16. (BootStep \/ Exit) => phase # "up"
  BY DEF BootStep, Boot, ResumeNext, ResumeFails, ResumeRow, Resuming, Pass, Exit
<1>. HIDE DEF TypeInv, TypeOK, TablesTypeOK, InHand, Actor, tables, daemon, actors, ghosts,
          bounds, Goto, Done, Return, Attempt, UpdateAndAudit, Ahead, Resting, Kept, Steady
<1>. QED
  BY <1>1, <1>8, <1>3, <1>4, <1>5, <1>6, <1>9, <1>10, <1>11, <1>12, <1>13, <1>14, <1>15, <1>16
     DEF Next, HandlerStep, WorkerStep, ExecStep

(* Where a child is started, its row was unspent and no longer is: the actor
   that starts it is the only one that owns the row. *)
LEMMA SpendStep ==
    TypeInv /\ TypeInv' /\ OwnInv /\ GrantInv /\ SpendInv /\ [Next]_vars => SpendInv'
<1>. SUFFICES ASSUME TypeInv, TypeInv', OwnInv, GrantInv, SpendInv, [Next]_vars PROVE SpendInv'
  OBVIOUS
<1>a. \A t \in TaskId : attempt[t] \in Nat /\ runs[t] \in Nat
  BY DEF TypeInv, TypeOK, TablesTypeOK
<1>1. ASSUME NEW a \in Actor, Spawn(a), runs' # runs  PROVE SpendInv'
  <2>. PICK t \in TaskId : t = cur[a] /\ pc[a] = "spawn"
    BY <1>1 DEF Spawn, TypeInv, InHand
  <2>1. /\ runs' = [runs EXCEPT ![t] = runs[t] + 1] /\ phase # "stopping" /\ phase' = phase
        /\ state' = state /\ attempt' = attempt /\ crashes' = crashes /\ stops' = stops
        /\ cur' = cur /\ pc' = [pc EXCEPT ![a] = "wait"]
    BY <1>1 DEF Spawn, Canceled, tables, daemon, bounds
  <2>2. phase = "up"
    BY <2>1 DEF OwnInv, AtRest, Running
  <2>3. Owns(a, t)
    BY DEF Owns
  <2>4. state[t] \notin Resting
    BY <2>3, RowInHand DEF Resting
  <2>5. \A b \in Actor : cur[b] = t /\ pc[b] \in Ahead => b = a
    BY <2>3 DEF OwnInv, OneOwner, Owns, Ahead
  <2>6. ~Unspent(t)'
    BY <2>1, <2>2, <2>4, <2>5 DEF Unspent, Ahead, TypeInv, TypeOK
  <2>7. Unspent(t)
    BY DEF Unspent, Ahead
  <2>8. \A u \in TaskId : Unspent(u)' => Unspent(u)
    BY <2>1 DEF Unspent, Ahead, TypeInv, TypeOK
  <2>9. Deaths' = Deaths /\ Deaths \in Nat
    BY <2>1 DEF Deaths, TypeInv, TypeOK
  <2>. SUFFICES ASSUME NEW u \in TaskId
                PROVE  /\ runs'[u] <= attempt'[u] + Deaths' + 1
                       /\ Unspent(u)' => runs'[u] <= attempt'[u] + Deaths'
    BY DEF SpendInv
  <2>10. /\ runs[u] <= attempt[u] + Deaths + 1
         /\ Unspent(u) => runs[u] <= attempt[u] + Deaths
    BY DEF SpendInv
  <2>11. attempt'[u] = attempt[u] /\ (Unspent(u)' => Unspent(u) /\ u # t)
    BY <2>1, <2>6, <2>8
  <2>12. CASE u = t
    <3>1. runs'[u] = runs[u] + 1
      BY <1>a, <2>1, <2>12 DEF TypeInv, TypeOK
    <3>2. runs[u] <= attempt[u] + Deaths
      BY <2>7, <2>10, <2>12
    <3>. QED  BY <1>a, <2>9, <2>11, <2>12, <3>1, <3>2
  <2>13. CASE u # t
    <3>1. runs'[u] = runs[u]
      BY <2>1, <2>13 DEF TypeInv, TypeOK
    <3>. QED  BY <1>a, <2>9, <2>10, <2>11, <3>1
  <2>. QED  BY <2>12, <2>13
<1>2. ASSUME NEW a \in Actor, Retry(a)  PROVE SpendInv'
  <2>. PICK t \in TaskId : t = cur[a]
    BY <1>2 DEF Retry, TypeInv, InHand
  <2>1. /\ runs' = runs /\ phase' = phase /\ crashes' = crashes /\ stops' = stops
        /\ pc'[a] \notin Ahead
        /\ \A b \in Actor : b # a => pc'[b] = pc[b] /\ cur'[b] = cur[b]
    BY <1>2 DEF Retry, Return, Goto, Done, Ahead, daemon, ghosts, TypeInv, TypeOK
  <2>2. \/ attempt' = attempt /\ state' = state
        \/ /\ attempt' = [attempt EXCEPT ![t] = attempt[t] + 1]
           /\ \A u \in TaskId : u # t => state'[u] = state[u]
    BY <1>2 DEF Retry, Attempt, UpdateAndAudit, tables, TypeInv, TypeOK, TablesTypeOK
  <2>3. \A u \in TaskId : \/ attempt'[u] = attempt[u] /\ state'[u] = state[u]
                          \/ attempt'[u] = attempt[u] + 1
    BY <2>2 DEF TypeInv, TypeOK, TablesTypeOK
  <2>4. Deaths' = Deaths /\ Deaths \in Nat
    BY <2>1 DEF Deaths, TypeInv, TypeOK
  <2>5. ASSUME NEW u \in TaskId
        PROVE  /\ attempt'[u] >= attempt[u]
               /\ Unspent(u)' => Unspent(u) \/ Deaths' > Deaths \/ attempt'[u] > attempt[u]
    <3>1. CASE attempt'[u] = attempt[u] + 1
      BY <1>a, <3>1
    <3>2. CASE attempt'[u] = attempt[u] /\ state'[u] = state[u]
      <4>1. Unspent(u)' => Unspent(u)
        BY <2>1, <3>2 DEF Unspent
      <4>. QED  BY <1>a, <3>2, <4>1
    <3>. QED  BY <2>3, <3>1, <3>2
  <2>6. Deaths' >= Deaths
    BY <2>4
  <2>. QED  BY <2>1, <2>5, <2>6, SpendIdle, Zenon
<1>3. ASSUME \A a \in Actor : ~Retry(a) /\ (Spawn(a) => runs' = runs)  PROVE SpendInv'
  <2>1. attempt' = attempt
    BY <1>3, AttemptStays
  <2>2. \A t \in TaskId : attempt'[t] >= attempt[t]
    BY <1>a, <2>1
  <2>3. /\ runs' = runs /\ Deaths' >= Deaths
        /\ \A t \in TaskId : Unspent(t)' => Unspent(t) \/ Deaths' > Deaths
    BY <1>3, SpendMoves
  <2>. QED  BY <2>2, <2>3, SpendIdle, Zenon
<1>. QED  BY <1>1, <1>2, <1>3

(* Nothing cuts an attempt short but the death of the daemon: no SIGTERM, no
   verb missing from the catalog, no client that hangs up. *)
Steady == stops = 0 /\ Catalogs = {Verb} /\ ~SyncExec

CalmInv ==
    Steady =>
        /\ phase # "stopping" /\ gone = {}
        /\ phase # "down" => catalog = Verb
        /\ \A h \in Handler : pc[h] \notin ExecSteps

(* Then an attempt is used up by a child alone, and a row given up by the
   last of them. *)
TriedInv ==
    Steady =>
        /\ \A t \in TaskId : attempt[t] <= runs[t]
        /\ \A a \in Actor : pc[a] \in Behind => attempt[cur[a]] < runs[cur[a]]
        /\ \A t \in TaskId : state[t] = "exhausted" => Granted(t) < runs[t]

LEMMA TriedInit == Init => CalmInv /\ TriedInv
BY DEF Init, TablesInit, CalmInv, TriedInv, TaskId, Actor, ExecSteps, Behind

LEMMA CalmStep == TypeInv /\ CalmInv /\ [Next]_vars => CalmInv' /\ (Steady' => Steady)
<1>. SUFFICES ASSUME TypeInv, CalmInv, [Next]_vars, Steady'
              PROVE  CalmInv' /\ Steady
  BY DEF CalmInv
<1>. USE DEF TypeInv, TypeOK, Actor, tables, daemon, actors, ghosts, bounds, Goto, Done, Return
<1>a. \A h \in Handler : h # Worker
  BY DispatcherAssumption
<1>0. ASSUME stops' = stops  PROVE Steady
  BY <1>0 DEF Steady
<1>. DEFINE Calm == /\ stops' = stops
                    /\ phase' # "stopping" /\ gone' = {}
                    /\ phase' # "down" => catalog' = Verb
                    /\ \A h \in Handler : pc'[h] \notin ExecSteps
<1>. SUFFICES stops' = stops /\ (Steady => Calm)
  BY <1>0 DEF CalmInv
<1>. USE DEF CalmInv, ExecSteps
<1>1. CASE Stop
  BY <1>1 DEF Stop, Steady
<1>2. CASE ResumeFails \/ Exit \/ Crash
  BY <1>2 DEF ResumeFails, Exit, Crash, Wipe
<1>3. CASE Boot
  BY <1>3 DEF Boot, Steady
<1>4. CASE ResumeNext
  BY <1>4 DEF ResumeNext, Resuming, Pass
<1>5. CASE \/ UNCHANGED vars
           \/ \E r \in Request : Replay(r)
           \/ \E v \in Verb : Health(v) \/ CoolDown(v)
           \/ \E t \in TaskId : RetryDue(t) \/ ResumeRow(t)
  BY <1>5 DEF vars, Replay, Health, CoolDown, RetryDue, ResumeRow
<1>6. CASE WorkerStep
  BY <1>6, <1>a DEF WorkerStep, Claim, ClaimLost, Unknown, Gate, Requeue
<1>7. ASSUME NEW a \in Actor, ExecStep(a)  PROVE stops' = stops /\ (Steady => Calm)
  <2>1. stops' = stops
    BY <1>7 DEF ExecStep, Begin, Spawn, Reap, Record, Verdict, Finish, Exhaust, Retry, Notify
  <2>2. pc[a] \in ExecSteps /\ phase' = phase /\ catalog' = catalog /\ gone' \in SUBSET gone
    BY <1>7 DEF ExecStep, Begin, Spawn, Reap, Record, Verdict, Finish, Exhaust, Retry, Notify
  <2>3. \A b \in Actor : b # a => pc'[b] = pc[b]
    BY <1>7 DEF ExecStep, Begin, Spawn, Reap, Record, Verdict, Finish, Exhaust, Retry, Notify
  <2>. QED  BY <2>1, <2>2, <2>3
<1>8. ASSUME NEW h \in Handler, Post(h) \/ HandlerStep(h) \/ ClientGone(h)
      PROVE  stops' = stops /\ (Steady => Calm)
  <2>1. stops' = stops /\ phase' = phase /\ catalog' = catalog
    BY <1>8 DEF Post, HandlerStep, ClientGone, Peek, Create, CreateRefused, Bind, Supersede,
                Refer, Unreadable, CarryOn, Admit, Handoff, Reply
  <2>2. Steady => gone' \in SUBSET gone
    BY <1>8 DEF Post, HandlerStep, ClientGone, Peek, Create, CreateRefused, Bind, Supersede,
                Refer, Unreadable, CarryOn, Admit, Handoff, Reply, Steady
  <2>3. \A g \in Handler : g # h => pc'[g] = pc[g]
    BY <1>8 DEF Post, HandlerStep, ClientGone, Peek, Create, CreateRefused, Bind, Supersede,
                Refer, Unreadable, CarryOn, Admit, Handoff, Reply
  <2>4. Steady => pc'[h] \notin ExecSteps
    BY <1>8 DEF Post, HandlerStep, ClientGone, Peek, Create, CreateRefused, Bind, Supersede,
                Refer, Unreadable, CarryOn, Admit, Handoff, Reply, Steady
  <2>. QED  BY <2>1, <2>2, <2>3, <2>4
<1>. HIDE DEF TypeInv, TypeOK, Actor, tables, daemon, actors, ghosts, bounds, Goto, Done, Return,
          CalmInv, ExecSteps, Calm
<1>. QED
  BY <1>1, <1>2, <1>3, <1>4, <1>5, <1>6, <1>7, <1>8 DEF Next, BootStep

(* A step that neither uses an attempt nor starts a child, leaves nobody at a
   later step of one and gives no row up. *)
LEMMA TriedIdle ==
    ASSUME TypeInv, GrantInv, TriedInv, Steady, [Next]_vars,
           runs' = runs, attempt' = attempt,
           \A a \in Actor : pc'[a] \in Behind => pc[a] \in Behind /\ cur'[a] = cur[a],
           \A t \in TaskId : state'[t] = "exhausted" =>
               state[t] = "exhausted" \/ Granted(t)' < runs[t]
    PROVE  TriedInv'
<1>1. \A t \in TaskId : state[t] = "exhausted" => Granted(t)' = Granted(t)
  BY RowsExist DEF Granted, Budget
<1>2. /\ \A t \in TaskId : attempt[t] <= runs[t]
      /\ \A a \in Actor : pc[a] \in Behind => attempt[cur[a]] < runs[cur[a]]
      /\ \A t \in TaskId : state[t] = "exhausted" => Granted(t) < runs[t]
  BY DEF TriedInv
<1>3. \A a \in Actor : pc'[a] \in Behind => attempt'[cur'[a]] < runs'[cur'[a]]
  BY <1>2
<1>4. \A t \in TaskId : state'[t] = "exhausted" => Granted(t)' < runs'[t]
  BY <1>1, <1>2
<1>. QED  BY <1>2, <1>3, <1>4 DEF TriedInv

LEMMA TriedStep ==
    TypeInv /\ OwnInv /\ GrantInv /\ CalmInv /\ TriedInv /\ [Next]_vars => TriedInv'
<1>. SUFFICES ASSUME TypeInv, OwnInv, GrantInv, CalmInv, TriedInv, [Next]_vars, Steady'
              PROVE  TriedInv'
  BY DEF TriedInv
<1>a. /\ Steady /\ phase # "stopping" /\ gone = {}
      /\ phase # "down" => catalog = Verb
      /\ \A h \in Handler : pc[h] \notin ExecSteps
  BY CalmStep DEF CalmInv
<1>b. /\ \A t \in TaskId : attempt[t] <= runs[t]
      /\ \A a \in Actor : pc[a] \in Behind => attempt[cur[a]] < runs[cur[a]]
      /\ \A t \in TaskId : state[t] = "exhausted" => Granted(t) < runs[t]
  BY <1>a DEF TriedInv
<1>c. \A t \in TaskId : attempt[t] \in Nat /\ runs[t] \in Nat
  BY DEF TypeInv, TypeOK, TablesTypeOK
<1>d. \A t \in TaskId : state[t] = "exhausted" =>
          state'[t] # "free" /\ Granted(t)' = Granted(t)
  BY RowsExist DEF Granted, Budget
<1>e. \A a \in Actor : pc[a] \in ExecSteps => a = Worker
  BY <1>a DEF Actor
<1>f. \A a \in Actor : pc[a] \notin {"idle", "peek", "create"} => cur[a] \in TaskId
  BY DEF TypeInv, InHand
<1>1. ASSUME NEW a \in Actor, Spawn(a)  PROVE TriedInv'
  <2>. PICK t \in TaskId : t = cur[a] /\ pc[a] = "spawn"
    BY <1>1, <1>f DEF Spawn
  <2>1. ~Canceled(a)
    BY <1>a DEF Canceled
  <2>2. /\ runs' = [runs EXCEPT ![t] = runs[t] + 1] /\ attempt' = attempt
        /\ state' = state /\ cur' = cur /\ pc' = [pc EXCEPT ![a] = "wait"]
    BY <1>1, <2>1 DEF Spawn, tables
  <2>3. \A u \in TaskId : /\ runs'[u] \in Nat /\ runs[u] <= runs'[u]
                          /\ u = t => runs[u] < runs'[u]
    BY <1>c, <2>2 DEF TypeInv, TypeOK
  <2>4. \A u \in TaskId : attempt'[u] <= runs'[u] /\ (u = t => attempt'[u] < runs'[u])
    BY <1>b, <1>c, <2>2, <2>3
  <2>5. ASSUME NEW b \in Actor, pc'[b] \in Behind  PROVE attempt'[cur'[b]] < runs'[cur'[b]]
    <3>1. CASE b = a
      BY <2>2, <2>4, <3>1
    <3>2. CASE b # a
      <4>1. pc[b] \in Behind /\ cur'[b] = cur[b] /\ cur[b] \in TaskId
        BY <1>f, <2>2, <2>5, <3>2 DEF TypeInv, TypeOK, Behind
      <4>. QED  BY <1>b, <1>c, <2>2, <2>3, <4>1
    <3>. QED  BY <3>1, <3>2
  <2>6. ASSUME NEW u \in TaskId, state'[u] = "exhausted"  PROVE Granted(u)' < runs'[u]
    <3>1. req[u] \in Request /\ Granted(u)' = Granted(u) /\ Granted(u) < runs[u]
      BY <1>b, <1>d, <2>2, <2>6 DEF GrantInv
    <3>2. Granted(u) \in Nat
      BY <3>1, BudgetType DEF Granted, Actor, Request
    <3>. QED  BY <1>c, <2>3, <3>1, <3>2
  <2>. QED  BY <2>4, <2>5, <2>6 DEF TriedInv
<1>2. ASSUME NEW a \in Actor, Retry(a)  PROVE TriedInv'
  <2>. PICK t \in TaskId : t = cur[a] /\ pc[a] = "settle"
    BY <1>2, <1>f DEF Retry
  <2>1. /\ runs' = runs
        /\ pc'[a] \notin Behind
        /\ \A b \in Actor : b # a => pc'[b] = pc[b] /\ cur'[b] = cur[b]
        /\ \A u \in TaskId : state'[u] = "exhausted" => state[u] = "exhausted"
        /\ \A u \in TaskId : \/ attempt'[u] = attempt[u]
                             \/ u = t /\ attempt'[u] = attempt[u] + 1
    BY <1>2 DEF Retry, Attempt, UpdateAndAudit, Return, Goto, Done, Behind, tables, ghosts,
                TypeInv, TypeOK, TablesTypeOK
  <2>2. attempt[t] < runs[t] /\ a = Worker
    BY <1>b, <1>e DEF Behind, ExecSteps
  <2>3. \A u \in TaskId : attempt'[u] <= runs'[u]
    BY <1>b, <1>c, <2>1, <2>2
  <2>4. \A b \in Actor : pc'[b] \notin Behind
    BY <1>e, <2>1, <2>2 DEF Behind, ExecSteps
  <2>5. \A u \in TaskId : state'[u] = "exhausted" => Granted(u)' < runs'[u]
    BY <1>b, <1>d, <2>1
  <2>. QED  BY <2>3, <2>4, <2>5 DEF TriedInv
<1>. DEFINE Quiet ==
         /\ runs' = runs
         /\ \A a \in Actor : pc'[a] \in Behind => pc[a] \in Behind /\ cur'[a] = cur[a]
         /\ \A t \in TaskId : state'[t] = "exhausted" =>
                state[t] = "exhausted" \/ Granted(t)' < runs[t]
<1>3. ASSUME \A a \in Actor : ~Retry(a), Quiet  PROVE TriedInv'
  <2>1. attempt' = attempt
    BY <1>3, AttemptStays
  <2>. QED  BY <1>3, <1>a, <2>1, TriedIdle, Zenon
<1>. USE DEF TypeInv, TypeOK, TablesTypeOK, Actor, tables, daemon, actors, ghosts, bounds,
         Goto, Done, Return, Behind
<1>4. ASSUME NEW h \in Handler, Post(h) \/ HandlerStep(h) \/ ClientGone(h)  PROVE Quiet
  <2>1. runs' = runs
    BY <1>4 DEF Post, HandlerStep, ClientGone, Peek, Create, CreateRefused, Bind, Supersede,
                Refer, Unreadable, CarryOn, Admit, Handoff, Reply
  <2>2. \A b \in Actor : b # h => pc'[b] = pc[b] /\ cur'[b] = cur[b]
    BY <1>4 DEF Post, HandlerStep, ClientGone, Peek, Create, CreateRefused, Bind, Supersede,
                Refer, Unreadable, CarryOn, Admit, Handoff, Reply
  <2>3. pc'[h] \in Behind => pc[h] \in Behind /\ cur'[h] = cur[h]
    BY <1>4 DEF Post, HandlerStep, ClientGone, Peek, Create, CreateRefused, Bind, Supersede,
                Refer, Unreadable, CarryOn, Admit, Handoff, Reply
  <2>4. \A t \in TaskId : state'[t] = "exhausted" => state[t] = "exhausted"
    <3>1. CASE Create(h)
      BY <3>1 DEF Create, CreateAndAuditLimited
    <3>2. CASE Supersede(h) \/ Admit(h) \/ Handoff(h)
      BY <3>2 DEF Supersede, Admit, Handoff, Attempt, UpdateAndAudit
    <3>. QED
      BY <1>4, <3>1, <3>2 DEF Post, HandlerStep, ClientGone, Peek, CreateRefused, Bind,
         SaveIdempotency, Refer, Unreadable, CarryOn, Reply
  <2>. QED  BY <2>1, <2>2, <2>3, <2>4
<1>5. ASSUME WorkerStep  PROVE Quiet
  <2>1. ~Unknown
    <3>. SUFFICES ASSUME Unknown PROVE FALSE
      OBVIOUS
    <3>1. cur[Worker] \in TaskId /\ Owns(Worker, cur[Worker]) /\ req[cur[Worker]].verb \notin catalog
      BY <1>f DEF Unknown, Owns, VerbOf
    <3>2. state[cur[Worker]] # "free"
      BY <3>1 DEF OwnInv, OwnedActive
    <3>3. req[cur[Worker]].verb \in Verb
      BY <3>1, <3>2 DEF GrantInv, Request
    <3>4. phase # "down"
      BY <3>1 DEF OwnInv, AtRest, Running, Owns
    <3>. QED  BY <1>a, <3>1, <3>3, <3>4
  <2>2. /\ runs' = runs
        /\ \A a \in Actor : a # Worker => pc'[a] = pc[a] /\ cur'[a] = cur[a]
    BY <1>5, <2>1 DEF WorkerStep, Claim, ClaimLost, Gate, Requeue
  <2>3. pc'[Worker] \notin Behind
    BY <1>5, <2>1 DEF WorkerStep, Claim, ClaimLost, Gate, Requeue
  <2>4. \A t \in TaskId : state'[t] = "exhausted" => state[t] = "exhausted"
    BY <1>5, <2>1 DEF WorkerStep, Claim, ClaimLost, ClaimDue, Update, Gate, Requeue,
                      Attempt, UpdateAndAudit
  <2>. QED  BY <2>2, <2>3, <2>4
<1>6. ASSUME NEW a \in Actor, Exhaust(a)  PROVE Quiet
  <2>. PICK t \in TaskId : t = cur[a] /\ pc[a] = "settle"
    BY <1>6, <1>f DEF Exhaust
  <2>1. /\ runs' = runs /\ pc'[a] = "notify" /\ req' = req
        /\ \A b \in Actor : b # a => pc'[b] = pc[b] /\ cur'[b] = cur[b]
        /\ attempt[t] >= Budget(a, req[t].verb)
        /\ \A u \in TaskId : state'[u] = "exhausted" => state[u] = "exhausted" \/ u = t
    BY <1>6 DEF Exhaust, Attempt, UpdateAndAudit, ShouldExhaust, VerbOf
  <2>2. attempt[t] < runs[t] /\ a = Worker
    BY <1>b, <1>e DEF ExecSteps
  <2>3. Owns(a, t) /\ state[t] # "free"
    BY DEF Owns, OwnInv, OwnedActive
  <2>4. Granted(t)' = Granted(t) /\ Granted(t) \in Nat
    <3>1. req[t] \in Request
      BY <2>3 DEF GrantInv
    <3>. QED  BY <2>1, <3>1, BudgetType DEF Granted, Budget, Request
  <2>5. Granted(t)' < runs[t]
    BY <1>c, <2>1, <2>2, <2>4 DEF Granted
  <2>. QED  BY <2>1, <2>5
<1>7. ASSUME NEW a \in Actor, ExecStep(a), ~Spawn(a), ~Retry(a), ~Exhaust(a)  PROVE Quiet
  <2>1. runs' = runs
    BY <1>7 DEF ExecStep, Begin, Reap, Record, Verdict, Finish, Notify
  <2>2. \A b \in Actor : b # a => pc'[b] = pc[b] /\ cur'[b] = cur[b]
    BY <1>7 DEF ExecStep, Begin, Reap, Record, Verdict, Finish, Notify
  <2>3. pc'[a] \in Behind => pc[a] \in Behind /\ cur'[a] = cur[a]
    BY <1>7 DEF ExecStep, Begin, Reap, Record, Verdict, Finish, Notify
  <2>4. \A t \in TaskId : state'[t] = "exhausted" => state[t] = "exhausted"
    BY <1>7 DEF ExecStep, Begin, Reap, Record, Verdict, Finish, Notify, Attempt, UpdateAndAudit,
                RecordAttempt
  <2>. QED  BY <2>1, <2>2, <2>3, <2>4
<1>8. ASSUME ResumeFails \/ Exit \/ Crash  PROVE Quiet
  BY <1>8 DEF ResumeFails, Exit, Crash, Wipe
<1>9. ASSUME \/ Boot \/ ResumeNext \/ Stop \/ UNCHANGED vars
             \/ \E r \in Request : Replay(r)
             \/ \E v \in Verb : Health(v) \/ CoolDown(v)
             \/ \E t \in TaskId : RetryDue(t) \/ ResumeRow(t)
      PROVE  Quiet
  <2>1. runs' = runs /\ pc' = pc /\ cur' = cur
    BY <1>9 DEF Boot, ResumeNext, ResumeRow, Stop, Replay, Health, CoolDown, RetryDue, vars
  <2>2. \A t \in TaskId : state'[t] = "exhausted" => state[t] = "exhausted"
    BY <1>9 DEF Boot, ResumeNext, ResumeRow, Update, UpdateAndAudit, Stop, Replay, Health,
                CoolDown, RetryDue, RunTimeReached, vars
  <2>. QED  BY <2>1, <2>2
<1>. HIDE DEF TypeInv, TypeOK, TablesTypeOK, Actor, tables, daemon, actors, ghosts, bounds,
         Goto, Done, Return, Behind, Quiet
<1>10. (\E a \in Actor : Retry(a) \/ Spawn(a)) \/ (Quiet /\ \A a \in Actor : ~Retry(a))
  BY <1>4, <1>5, <1>6, <1>7, <1>8, <1>9 DEF Next, BootStep
<1>. QED  BY <1>1, <1>2, <1>3, <1>10

(***************************************************************************)
(* The retry policy is exact, whatever is posted, fails, dies or is told   *)
(* to stop: a task costs at most one child process per granted attempt and *)
(* one more for each time the daemon died; and, as long as nothing but its *)
(* death cuts attempts short, a task is given up only after its command    *)
(* was tried as often as granted (retry.ShouldExhaust, worker.go:170-198,  *)
(* server.go executeOnce).                                                 *)
(***************************************************************************)
THEOREM BudgetIsExact == Spec => []BudgetExact
<1>1. Spec => []TypeInv
  BY TypeInit, TypeStep, PTL DEF Spec
<1>2. Spec => []OwnInv
  BY <1>1, OwnInit, OwnStep, PTL DEF Spec
<1>3. Spec => []GrantInv
  BY <1>1, <1>2, GrantInit, GrantStep, PTL DEF Spec
<1>4. Spec => []SpendInv
  BY <1>1, <1>2, <1>3, SpendInit, SpendStep, PTL DEF Spec
<1>5. Spec => []CalmInv
  BY <1>1, TriedInit, CalmStep, PTL DEF Spec
<1>6. Spec => []TriedInv
  BY <1>1, <1>2, <1>3, <1>5, TriedInit, TriedStep, PTL DEF Spec
<1>7. ASSUME TypeInv, GrantInv, SpendInv, TriedInv  PROVE BudgetExact
  <2>. SUFFICES ASSUME NEW t \in TaskId, req[t] # NoRequest
                PROVE  LET granted == Budget(Worker, req[t].verb) + 1
                       IN  /\ runs[t] <= granted + crashes + stops
                           /\ stops = 0 /\ Catalogs = {Verb} /\ ~SyncExec =>
                                 (state[t] = "exhausted" => runs[t] >= granted)
    BY DEF BudgetExact
  <2>1. /\ attempt[t] \in Nat /\ runs[t] \in Nat /\ crashes \in Nat /\ stops \in Nat
        /\ req[t] \in Request
    BY <1>7 DEF TypeInv, TypeOK, TablesTypeOK
  <2>2. Granted(t) \in Nat /\ Granted(t) = Budget(Worker, req[t].verb)
    BY <2>1, BudgetType DEF Granted, Actor, Request
  <2>3. attempt[t] <= Granted(t)
    BY <1>7, <2>1, <2>2 DEF GrantInv
  <2>4. runs[t] <= attempt[t] + crashes + stops + 1
    BY <1>7, <2>1 DEF SpendInv, Deaths
  <2>5. stops = 0 /\ Catalogs = {Verb} /\ ~SyncExec => (state[t] = "exhausted" => Granted(t) < runs[t])
    BY <1>7 DEF TriedInv, Steady
  <2>. HIDE DEF Granted
  <2>. QED  BY <2>1, <2>2, <2>3, <2>4, <2>5
<1>. QED  BY <1>1, <1>3, <1>4, <1>6, <1>7, PTL

-----------------------------------------------------------------------------
(* The life cycle, on a store that works or does not.                      *)

(* The actor is past the step that marks its row executing (the worker's claim
   is one), and has not settled it yet. *)
Executing(a) ==
    \/ pc[a] \in {"gate", "requeue", "spawn", "wait", "record", "settle"}
    \/ pc[a] = "begin" /\ a = Worker
    \/ pc[a] = "verdict" /\ (a # Worker \/ out[a] # "ok")

(* No row has come back to life, and none that a handler executes has escaped
   its executing mark.  Once irregular, always irregular. *)
Regular == revived = {} /\ (SyncExec => faults = 0)

(* A handler has a row in hand that it has not launched. *)
Unlaunched == {"bind", "supersede", "admit", "handoff", "begin"}

(***************************************************************************)
(* What TaskLifecycle takes for granted and the daemon must keep up: a row *)
(* is executing while an actor runs it, and accepted until then if that    *)
(* actor is a handler, but canceled once the handler has lost the race for *)
(* its key; a row is put off for a verb that is in the catalog and created *)
(* for one that is.                                                        *)
(***************************************************************************)
OnCourse ==
    /\ \A h \in Handler : pc[h] \in {"peek", "create"} => hreq[h].verb \in catalog
    /\ \A h \in Handler : pc[h] \notin {"gate", "requeue"}
    /\ \A h \in Handler : pc[h] \in ExecSteps => SyncExec
    /\ \A h \in Handler : pc[h] \in Unlaunched => state[cur[h]] = "accepted"
    /\ \A h \in Handler : pc[h] = "refer" => state[cur[h]] \in {"accepted", "canceled"}
    /\ pc[Worker] \notin HandlerSteps
    /\ \A a \in Actor : Executing(a) => state[cur[a]] = "executing"
    /\ pc[Worker] = "requeue" => VerbOf(Worker) \in catalog
    /\ \A t \in TaskId : state[t] # "free" => req[t] \in Request

LifeInv == Regular => OnCourse

LEMMA LifeInit == Init => LifeInv
BY StoreAssumption, NoRequestAssumption
   DEF Init, TablesInit, LifeInv, OnCourse, Unlaunched, Executing, Actor, HandlerSteps, ExecSteps, TaskId

(* Who runs a row, or is about to, owns it. *)
LEMMA RunnersOwn ==
    ASSUME TypeInv, OnCourse, NEW a \in Actor,
           Executing(a) \/ pc[a] = "begin" \/ (a # Worker /\ pc[a] \in Unlaunched \cup {"refer"})
    PROVE  cur[a] \in TaskId /\ Owns(a, cur[a]) /\ state[cur[a]] \in {"accepted", "executing", "canceled"}
BY DEF Executing, Unlaunched, TypeInv, InHand, Owns, Actor, OnCourse

(* A step of one actor, on a row of its own or one that nobody runs. *)
LEMMA LifeMoves ==
    ASSUME TypeInv, OwnInv, OnCourse, [Next]_vars, NEW a \in Actor, catalog' = catalog,
           \A b \in Actor : b # a =>
               pc'[b] = pc[b] /\ cur'[b] = cur[b] /\ out'[b] = out[b] /\ hreq'[b] = hreq[b],
           \A t \in TaskId : state'[t] # state[t] =>
               state[t] \notin {"accepted", "executing", "canceled"} \/ Owns(a, t),
           \A t \in TaskId : state[t] = "free" => state'[t] = "free" \/ req'[t] \in Request,
           a \in Handler =>
               /\ pc'[a] \in {"peek", "create"} => hreq'[a].verb \in catalog
               /\ pc'[a] \notin {"gate", "requeue"}
               /\ pc'[a] \in ExecSteps => pc[a] \in ExecSteps \/ SyncExec
               /\ pc'[a] \in Unlaunched => state'[cur'[a]] = "accepted"
               /\ pc'[a] = "refer" => state'[cur'[a]] \in {"accepted", "canceled"},
           a = Worker =>
               /\ pc'[a] \notin HandlerSteps
               /\ pc'[a] = "requeue" =>
                     pc[a] = "gate" /\ cur'[a] = cur[a] /\ VerbOf(a) \in catalog,
           Executing(a)' => state'[cur'[a]] = "executing"
    PROVE  OnCourse'
<1>1. \A t \in TaskId : state'[t] # "free" => req'[t] \in Request
  BY RowsExist DEF OnCourse
<1>2. ASSUME NEW b \in Actor, b # a,
             Executing(b) \/ pc[b] = "begin" \/ (b # Worker /\ pc[b] \in Unlaunched \cup {"refer"})
      PROVE  state'[cur'[b]] = state[cur[b]]
  <2>1. cur[b] \in TaskId /\ Owns(b, cur[b]) /\ state[cur[b]] \in {"accepted", "executing", "canceled"}
    BY <1>2, RunnersOwn
  <2>2. ~Owns(a, cur[b])
    BY <1>2, <2>1 DEF OwnInv, OneOwner
  <2>. QED  BY <1>2, <2>1, <2>2
<1>3. ASSUME NEW b \in Actor, Executing(b)'  PROVE state'[cur'[b]] = "executing"
  <2>1. CASE b = a
    BY <1>3, <2>1
  <2>2. CASE b # a
    <3>1. Executing(b)
      BY <1>3, <2>2 DEF Executing
    <3>. QED  BY <1>2, <2>2, <3>1 DEF OnCourse
  <2>. QED  BY <2>1, <2>2
<1>4. ASSUME NEW h \in Handler
      PROVE  /\ pc'[h] \in Unlaunched => state'[cur'[h]] = "accepted"
             /\ pc'[h] = "refer" => state'[cur'[h]] \in {"accepted", "canceled"}
  BY <1>2, DispatcherAssumption DEF OnCourse, Actor, Unlaunched
<1>5. ASSUME pc'[Worker] = "requeue"  PROVE VerbOf(Worker)' \in catalog'
  <2>1. pc[Worker] \in {"gate", "requeue"} /\ cur'[Worker] = cur[Worker]
        /\ VerbOf(Worker) \in catalog
    BY <1>5 DEF OnCourse, Actor
  <2>2. cur[Worker] \in TaskId /\ state[cur[Worker]] # "free"
    BY <2>1, RunnersOwn DEF Executing, Actor
  <2>. QED  BY <2>1, <2>2, RowsExist DEF VerbOf
<1>6. /\ \A h \in Handler : pc'[h] \in {"peek", "create"} => hreq'[h].verb \in catalog'
      /\ \A h \in Handler : pc'[h] \notin {"gate", "requeue"}
      /\ \A h \in Handler : pc'[h] \in ExecSteps => SyncExec
      /\ pc'[Worker] \notin HandlerSteps
  BY DEF OnCourse, Actor
<1>. QED  BY <1>1, <1>3, <1>4, <1>5, <1>6 DEF OnCourse

(* Only a fault is counted as one, and only with one does a row come back to
   life. *)
LEMMA FaultsCounted ==
    ASSUME [Next]_vars
    PROVE  revived \subseteq revived' /\ (UNCHANGED <<faults, revived>> \/ Fault)
<1>. USE DEF bounds, ghosts, Attempt, Fault
<1>1. ASSUME NEW h \in Handler, Post(h) \/ HandlerStep(h) \/ ClientGone(h)
      PROVE  revived \subseteq revived' /\ (UNCHANGED <<faults, revived>> \/ Fault)
  BY <1>1 DEF HandlerStep, Post, Peek, Create, CreateRefused, Bind, Supersede, Refer, Unreadable,
              CarryOn, Admit, Handoff, Reply, ClientGone
<1>2. ASSUME NEW a \in Actor, ExecStep(a)
      PROVE  revived \subseteq revived' /\ (UNCHANGED <<faults, revived>> \/ Fault)
  BY <1>2 DEF ExecStep, Begin, Spawn, Reap, Record, Verdict, Finish, Exhaust, Retry, Notify
<1>3. ASSUME WorkerStep \/ BootStep
      PROVE  revived \subseteq revived' /\ (UNCHANGED <<faults, revived>> \/ Fault)
  BY <1>3 DEF WorkerStep, BootStep, Claim, ClaimLost, Unknown, Gate, Requeue, Boot, ResumeNext,
              ResumeFails, ResumeRow, Wipe
<1>4. ASSUME \/ Stop \/ Exit \/ Crash
             \/ \E r \in Request : Replay(r)
             \/ \E v \in Verb : Health(v) \/ CoolDown(v)
             \/ \E t \in TaskId : RetryDue(t)
             \/ UNCHANGED vars
      PROVE  revived \subseteq revived' /\ (UNCHANGED <<faults, revived>> \/ Fault)
  BY <1>4 DEF Stop, Exit, Crash, Wipe, Replay, Health, CoolDown, RetryDue, vars
<1>. QED  BY <1>1, <1>2, <1>3, <1>4 DEF Next

(* Once irregular, always irregular; and inline, a fault is irregular. *)
LEMMA RegularBefore ==
    ASSUME TypeInv, [Next]_vars, Regular'
    PROVE  Regular /\ (SyncExec => ~Fault)
<1>1. faults \in Nat /\ (Fault => faults' = faults + 1)
  BY DEF TypeInv, TypeOK, Fault
<1>. QED  BY <1>1, FaultsCounted DEF Regular

LEMMA LifeStep ==
    ASSUME TypeInv, OwnInv, LifeInv, [Next]_vars
    PROVE  LifeInv'
<1>. SUFFICES ASSUME Regular', OnCourse, SyncExec => ~Fault  PROVE OnCourse'
  BY RegularBefore DEF LifeInv
<1>. USE DEF TypeInv, TypeOK, TablesTypeOK, InHand, Actor, tables, daemon, actors, ghosts,
         Goto, Done, Return
<1>1. ASSUME UNCHANGED <<state, req, pc, cur, out, hreq, catalog>>  PROVE OnCourse'
  BY <1>1 DEF OnCourse, Executing, VerbOf
<1>2. ASSUME NEW h \in Handler,
             \/ Post(h) \/ Peek(h) \/ CreateRefused(h) \/ Bind(h) \/ Refer(h) \/ Unreadable(h)
             \/ CarryOn(h) \/ Reply(h)
      PROVE  OnCourse'
  <2>1. /\ UNCHANGED <<state, req, catalog>> /\ pc'[h] \in {"idle"} \cup HandlerSteps
        /\ \A b \in Actor : b # h =>
              pc'[b] = pc[b] /\ cur'[b] = cur[b] /\ out'[b] = out[b] /\ hreq'[b] = hreq[b]
    BY <1>2 DEF Post, Peek, CreateRefused, Bind, SaveIdempotency, Refer, Unreadable, CarryOn,
                Reply, HandlerSteps
  <2>2. pc'[h] \in {"peek", "create"} => hreq'[h].verb \in catalog
    BY <1>2 DEF Post, Peek, CreateRefused, Bind, Refer, Unreadable, CarryOn, Reply, OnCourse
  <2>3. h # Worker /\ ~Executing(h)' /\ pc'[h] \notin {"gate", "requeue"} \cup ExecSteps
    BY <2>1, DispatcherAssumption DEF Executing, HandlerSteps, ExecSteps
  <2>4. /\ pc'[h] \in Unlaunched => state'[cur'[h]] = "accepted"
        /\ pc'[h] = "refer" => state'[cur'[h]] \in {"accepted", "canceled"}
    <3>1. CASE Unreadable(h)
      <4>1. state[cur[h]] \in {"accepted", "canceled"} /\ revived' = {}
        BY <3>1 DEF Unreadable, OnCourse, Regular
      <4>2. state[cur[h]] = "accepted"
        BY <3>1, <4>1 DEF Unreadable, Terminal
      <4>. QED  BY <2>1, <3>1, <4>2 DEF Unreadable
    <3>2. CASE Bind(h) \/ CarryOn(h)
      <4>1. state[cur[h]] = "accepted" /\ cur' = cur
        BY <3>2 DEF Bind, CarryOn, OnCourse, Unlaunched
      <4>. QED  BY <2>1, <4>1
    <3>3. CASE Post(h) \/ Peek(h) \/ CreateRefused(h) \/ Refer(h) \/ Reply(h)
      <4>1. pc'[h] \in {"idle", "peek", "create"}
        BY <3>3 DEF Post, Peek, CreateRefused, Refer, Reply
      <4>. QED  BY <4>1 DEF Unlaunched
    <3>. QED  BY <1>2, <3>1, <3>2, <3>3
  <2>. QED  BY <2>1, <2>2, <2>3, <2>4, LifeMoves
<1>3. ASSUME NEW h \in Handler, Create(h)  PROVE OnCourse'
  <2>1. /\ pc[h] = "create" /\ UNCHANGED <<out, hreq, catalog>>
        /\ pc' = [pc EXCEPT ![h] = IF hreq[h].key = NoKey THEN "admit" ELSE "bind"]
        /\ \E t \in TaskId : /\ state[t] = "free" /\ cur' = [cur EXCEPT ![h] = t]
                             /\ state' = [state EXCEPT ![t] = "accepted"]
                             /\ req' = [req EXCEPT ![t] = hreq[h]]
    BY <1>3 DEF Create, CreateAndAuditLimited, Fresh
  <2>2. h # Worker /\ hreq[h] \in Request /\ ~Executing(h)'
    BY <2>1, DispatcherAssumption DEF Executing
  <2>. QED  BY <2>1, <2>2, LifeMoves DEF ExecSteps
<1>4. ASSUME NEW h \in Handler, Supersede(h) \/ Admit(h) \/ Handoff(h)  PROVE OnCourse'
  <2>1. /\ pc[h] \in {"supersede", "admit", "handoff"}
        /\ pc'[h] \in {"refer", "handoff", "reply", "begin"}
        /\ pc'[h] = "begin" => Admit(h) /\ SyncExec
        /\ UNCHANGED <<req, cur, out, hreq, catalog>>
        /\ \A b \in Actor : b # h => pc'[b] = pc[b]
    BY <1>4 DEF Supersede, Admit, Handoff, Attempt, UpdateAndAudit
  <2>2. \A t \in TaskId : state'[t] # state[t] => t = cur[h]
    BY <1>4 DEF Supersede, Admit, Handoff, Attempt, UpdateAndAudit
  <2>3. Owns(h, cur[h]) /\ h # Worker /\ ~Executing(h)'
    BY <2>1, DispatcherAssumption DEF Owns, Executing
  <2>4. /\ pc'[h] \in Unlaunched => state'[cur'[h]] = "accepted"
        /\ pc'[h] = "refer" => state'[cur'[h]] \in {"accepted", "canceled"}
    BY <1>4, <2>1 DEF Supersede, Admit, Handoff, Attempt, UpdateAndAudit, OnCourse, Unlaunched
  <2>5. \A t \in TaskId : state[t] = "free" => state'[t] = "free"
    BY <2>2, <2>3 DEF OwnInv, OwnedActive
  <2>6. /\ pc'[h] \notin {"gate", "requeue", "peek", "create"}
        /\ pc'[h] \in ExecSteps => SyncExec
    BY <2>1 DEF ExecSteps
  <2>7. \A t \in TaskId : state'[t] # state[t] => Owns(h, t)
    BY <2>2, <2>3
  <2>8. \A b \in Actor : b # h =>
           pc'[b] = pc[b] /\ cur'[b] = cur[b] /\ out'[b] = out[b] /\ hreq'[b] = hreq[b]
    BY <2>1
  <2>9. catalog' = catalog
    BY <2>1
  <2>. HIDE DEF TypeInv, TypeOK, TablesTypeOK, InHand, tables, daemon, actors, ghosts, Goto, Done,
            Return
  <2>. QED  BY <2>3, <2>4, <2>5, <2>6, <2>7, <2>8, <2>9, LifeMoves
<1>5. CASE Claim
  <2>1. \E t \in TaskId : /\ Due(t) /\ cur' = [cur EXCEPT ![Worker] = t]
                          /\ state' = [state EXCEPT ![t] = "executing"]
    BY <1>5 DEF Claim, ClaimDue, Update
  <2>2. pc' = [pc EXCEPT ![Worker] = "gate"] /\ UNCHANGED <<out, hreq, catalog>>
    BY <1>5 DEF Claim
  <2>3. state'[cur'[Worker]] = "executing" /\ pc'[Worker] = "gate" /\ Worker \notin Handler
    BY <2>1, <2>2, DispatcherAssumption
  <2>4. \A t \in TaskId : state'[t] # state[t] => Due(t)
    BY <2>1
  <2>5. \A b \in Actor : b # Worker =>
           pc'[b] = pc[b] /\ cur'[b] = cur[b] /\ out'[b] = out[b] /\ hreq'[b] = hreq[b]
    BY <2>1, <2>2
  <2>. QED  BY <2>2, <2>3, <2>4, <2>5, LifeMoves DEF HandlerSteps, Due
<1>6. CASE Unknown \/ Requeue
  <2>1. /\ pc[Worker] \in {"gate", "requeue"} /\ pc'[Worker] = "idle" /\ catalog' = catalog
        /\ \A t \in TaskId : state'[t] # state[t] => t = cur[Worker]
        /\ \A b \in Actor : b # Worker =>
              pc'[b] = pc[b] /\ cur'[b] = cur[b] /\ out'[b] = out[b] /\ hreq'[b] = hreq[b]
    BY <1>6 DEF Unknown, Requeue, Attempt, UpdateAndAudit
  <2>2. Owns(Worker, cur[Worker]) /\ Worker \notin Handler /\ ~Executing(Worker)'
    BY <2>1, DispatcherAssumption DEF Owns, Executing
  <2>3. \A t \in TaskId : state[t] = "free" => state'[t] = "free"
    BY <2>1, <2>2 DEF OwnInv, OwnedActive
  <2>. QED  BY <2>1, <2>2, <2>3, LifeMoves DEF HandlerSteps
<1>7. CASE Gate
  <2>1. /\ pc[Worker] = "gate" /\ pc'[Worker] \in {"begin", "requeue"}
        /\ UNCHANGED <<state, cur, out, hreq, catalog>> /\ VerbOf(Worker) \in catalog
        /\ \A b \in Actor : b # Worker => pc'[b] = pc[b]
    BY <1>7 DEF Gate
  <2>2. state[cur[Worker]] = "executing" /\ Worker \notin Handler
    BY <2>1, DispatcherAssumption DEF OnCourse, Executing
  <2>. QED  BY <2>1, <2>2, LifeMoves DEF HandlerSteps
<1>8. ASSUME NEW a \in Actor, ExecStep(a)  PROVE OnCourse'
  <2>1. /\ pc[a] \in ExecSteps /\ catalog' = catalog
        /\ \A b \in Actor : b # a =>
              pc'[b] = pc[b] /\ cur'[b] = cur[b] /\ out'[b] = out[b] /\ hreq'[b] = hreq[b]
        /\ pc'[a] = "idle" \/ cur'[a] = cur[a]
    BY <1>8 DEF ExecStep, Begin, Spawn, Reap, Record, Verdict, Finish, Exhaust, Retry, Notify,
                ExecSteps
  <2>2. /\ pc'[a] \in {"spawn", "wait", "record", "verdict", "settle", "notify", "idle", "reply"}
        /\ pc'[a] = "reply" => a # Worker
    BY <1>8 DEF ExecStep, Begin, Spawn, Reap, Record, Verdict, Finish, Exhaust, Retry, Notify
  <2>3. /\ pc[a] = "begin" => Begin(a)
        /\ pc[a] \in {"spawn", "wait", "record", "verdict"} =>
              Spawn(a) \/ Reap(a) \/ Record(a) \/ Verdict(a)
        /\ pc[a] = "settle" => Finish(a) \/ Exhaust(a) \/ Retry(a)
        /\ pc[a] = "notify" => Notify(a)
    BY <1>8 DEF ExecStep, Begin, Spawn, Reap, Record, Verdict, Finish, Exhaust, Retry, Notify
  <2>4. /\ pc[a] \in {"spawn", "wait", "record", "verdict", "notify"} => state' = state
        /\ \A t \in TaskId : state'[t] # state[t] => t = cur[a]
    <3>1. Spawn(a) \/ Reap(a) \/ Record(a) \/ Verdict(a) \/ Notify(a) => state' = state
      BY DEF Spawn, Reap, Record, Verdict, Notify, Attempt, RecordAttempt
    <3>2. Begin(a) \/ Finish(a) \/ Exhaust(a) \/ Retry(a) =>
             \A t \in TaskId : state'[t] # state[t] => t = cur[a]
      BY DEF Begin, Finish, Exhaust, Retry, Attempt, UpdateAndAudit
    <3>. QED  BY <2>1, <2>3, <3>1, <3>2 DEF ExecSteps
  <2>5. Executing(a)' => state'[cur'[a]] = "executing"
    <3>1. ASSUME pc[a] = "begin"  PROVE state'[cur'[a]] = "executing"
      <4>1. a # Worker => ~Fault
        BY <2>1 DEF OnCourse
      <4>2. a = Worker => state[cur[a]] = "executing"
        BY <3>1 DEF OnCourse, Executing
      <4>. QED  BY <2>1, <2>3, <3>1, <4>1, <4>2 DEF Begin, Attempt, UpdateAndAudit
    <3>2. ASSUME pc[a] \in {"spawn", "wait", "record", "verdict"}, Executing(a)'
          PROVE  state'[cur'[a]] = "executing"
      <4>1. Executing(a) /\ cur'[a] = cur[a]
        BY <2>1, <2>3, <3>2 DEF Executing, Spawn, Reap, Record, Verdict
      <4>. QED  BY <2>4, <3>2, <4>1 DEF OnCourse
    <3>3. ASSUME pc[a] \in {"settle", "notify"}  PROVE ~Executing(a)'
      BY <2>3, <3>3, DispatcherAssumption DEF Executing, Finish, Exhaust, Retry, Notify
    <3>. QED  BY <2>1, <3>1, <3>2, <3>3 DEF ExecSteps
  <2>6. state' = state \/ Owns(a, cur[a])
    BY <2>1, <2>4 DEF ExecSteps, Owns
  <2>7. \A t \in TaskId : state[t] = "free" => state'[t] = "free"
    BY <2>4, <2>6 DEF OwnInv, OwnedActive
  <2>8. \A t \in TaskId : state'[t] # state[t] => Owns(a, t)
    BY <2>4, <2>6
  <2>. QED  BY <2>1, <2>2, <2>5, <2>7, <2>8, LifeMoves DEF HandlerSteps, Unlaunched
<1>9. ASSUME NEW t \in TaskId, ResumeRow(t)  PROVE OnCourse'
  <2>1. \A a \in Actor : pc[a] = "idle" /\ pc'[a] = "idle"
    BY <1>9 DEF ResumeRow, Resuming, Pass, OwnInv, AtRest, Running
  <2>2. state[t] # "free" /\ req' = req /\ \A u \in TaskId : u # t => state'[u] = state[u]
    BY <1>9 DEF ResumeRow, Resuming, Pass, Update, UpdateAndAudit
  <2>. QED  BY <2>1, <2>2 DEF OnCourse, Executing, HandlerSteps, ExecSteps, Unlaunched
<1>10. CASE Boot
  <2>1. \A a \in Actor : pc[a] = "idle" /\ pc'[a] = "idle"
    BY <1>10 DEF Boot, OwnInv, AtRest, Running
  <2>. QED  BY <1>10, <2>1 DEF Boot, OnCourse, Executing, HandlerSteps, ExecSteps, Unlaunched
<1>11. CASE ResumeFails \/ Exit \/ Crash
  <2>1. (\A a \in Actor : pc'[a] = "idle") /\ UNCHANGED <<state, req>>
    BY <1>11 DEF ResumeFails, Exit, Crash, Wipe
  <2>. QED  BY <2>1 DEF OnCourse, Executing, HandlerSteps, ExecSteps, Unlaunched
<1>12. CASE ResumeNext \/ Stop
  BY <1>1, <1>12 DEF ResumeNext, Stop
<1>13. ASSUME NEW h \in Handler, ClientGone(h)  PROVE OnCourse'
  BY <1>1, <1>13 DEF ClientGone
<1>14. CASE \/ \E r \in Request : Replay(r)
            \/ \E v \in Verb : Health(v) \/ CoolDown(v)
            \/ \E t \in TaskId : RetryDue(t)
  BY <1>1, <1>14 DEF Replay, Health, CoolDown, RetryDue, RunTimeReached
<1>15. CASE ClaimLost
  <2>1. \E t \in TaskId : Due(t) /\ state' = [state EXCEPT ![t] = "executing"]
    BY <1>15 DEF ClaimLost, ClaimDue, Update
  <2>2. UNCHANGED <<pc, cur, out, hreq, catalog, req>> /\ pc[Worker] = "idle"
    BY <1>15 DEF ClaimLost, ClaimDue, Update
  <2>3. \A t \in TaskId : state'[t] # state[t] => Due(t)
    BY <2>1
  <2>4. Worker \notin Handler /\ ~Executing(Worker)'
    BY <2>2, DispatcherAssumption DEF Executing
  <2>. QED  BY <2>2, <2>3, <2>4, LifeMoves DEF HandlerSteps, Due
<1>16. CASE UNCHANGED vars
  BY <1>1, <1>16 DEF vars
<1>. QED
  BY <1>2, <1>3, <1>4, <1>5, <1>6, <1>7, <1>8, <1>9, <1>10, <1>11, <1>12, <1>13, <1>14, <1>15,
     <1>16
     DEF Next, HandlerStep, WorkerStep, BootStep

(* The mapping of Lifecycle: a task's verb, and the verbs not on offer. *)
NoVerb == [t \in TaskId |-> IF req[t] = NoRequest THEN "none" ELSE req[t].verb]
Gone   == IF phase = "down" THEN Verb ELSE Verb \ catalog

(* What the mapping looks at of rows and daemon, and what most steps leave. *)
mapped == <<req, attempt, succeeded, phase, catalog>>

LEMMA LifecycleInit == Init => Lifecycle!Init
BY StoreAssumption DEF Init, TablesInit, Lifecycle!Init, Request

(* A step that leaves the tasks alone is a new catalog or a stutter. *)
LEMMA LifecycleIdle ==
    ASSUME UNCHANGED <<state, req, attempt, succeeded>>
    PROVE  Lifecycle!Next
<1>1. Lifecycle!NewCatalog
  BY DEF Lifecycle!NewCatalog
<1>. QED  BY <1>1 DEF Lifecycle!Next

(* A step that moves one task and nothing else that is mapped. *)
LEMMA LifecycleMove ==
    ASSUME TypeInv, NEW t \in TaskId, NEW s, state' = [state EXCEPT ![t] = s],
           UNCHANGED mapped,
           \/ state[t] \in {"accepted", "pending_approval"} /\ s = "canceled"
           \/ state[t] = "accepted" /\ s = "pending"
           \/ state[t] \in {"accepted", "pending", "retry_scheduled"} /\ s = "executing"
           \/ state[t] = "executing" /\ s = "pending"
           \/ state[t] = "executing" /\ s = "executed" /\ t \in succeeded
           \/ state[t] = "executing" /\ s = "retry_scheduled" /\ NoVerb[t] \notin Gone
           \/ /\ state[t] = "executing" /\ s = "exhausted"
              /\ \/ attempt[t] >= [v \in Verb |-> Budget(Worker, v)][NoVerb[t]]
                 \/ NoVerb[t] \in Gone
    PROVE  Lifecycle!Next
<1>. USE DEF mapped
<1>1. CASE state[t] \in {"accepted", "pending_approval"} /\ s = "canceled"
  <2>1. Lifecycle!Cancel(t)
    BY <1>1 DEF Lifecycle!Cancel, Lifecycle!Move
  <2>. QED  BY <2>1 DEF Lifecycle!Next
<1>2. CASE state[t] = "accepted" /\ s = "pending"
  <2>1. Lifecycle!Queue(t)
    BY <1>2 DEF Lifecycle!Queue, Lifecycle!Move
  <2>. QED  BY <2>1 DEF Lifecycle!Next
<1>3. CASE state[t] \in {"accepted", "pending", "retry_scheduled"} /\ s = "executing"
  <2>1. Lifecycle!Start(t)
    BY <1>3 DEF Lifecycle!Start, Lifecycle!Move
  <2>. QED  BY <2>1 DEF Lifecycle!Next
<1>4. CASE state[t] = "executing" /\ s = "pending"
  <2>1. Lifecycle!Recover(t)
    BY <1>4 DEF Lifecycle!Recover, Lifecycle!Move
  <2>. QED  BY <2>1 DEF Lifecycle!Next
<1>5. CASE state[t] = "executing" /\ s = "executed" /\ t \in succeeded
  <2>1. Lifecycle!Finish(t)
    BY <1>5 DEF Lifecycle!Finish, Lifecycle!Move
  <2>. QED  BY <2>1 DEF Lifecycle!Next
<1>6. CASE state[t] = "executing" /\ s = "retry_scheduled" /\ NoVerb[t] \notin Gone
  <2>1. Lifecycle!Defer(t)
    BY <1>6 DEF Lifecycle!Defer, Lifecycle!Move, NoVerb, Gone
  <2>. QED  BY <2>1 DEF Lifecycle!Next
<1>7. CASE /\ state[t] = "executing" /\ s = "exhausted"
           /\ \/ attempt[t] >= [v \in Verb |-> Budget(Worker, v)][NoVerb[t]]
              \/ NoVerb[t] \in Gone
  <2>1. Lifecycle!GiveUp(t)
    BY <1>7 DEF Lifecycle!GiveUp, Lifecycle!Move, NoVerb, Gone
  <2>. QED  BY <2>1 DEF Lifecycle!Next
<1>. QED  BY <1>1, <1>2, <1>3, <1>4, <1>5, <1>6, <1>7

(* All that execute grant the same budget: a handler executing inline takes a
   stored 0 as it is, the worker for "not set". *)
OneBudget == SyncExec => DaemonRetries = 0 \/ \A v \in Verb : Retries[v] # 0

LEMMA SameBudget ==
    ASSUME OneBudget, SyncExec, NEW a \in Actor, NEW v \in Verb
    PROVE  Budget(a, v) = Budget(Worker, v)
BY DispatcherAssumption DEF OneBudget, Budget

(* Each step of the daemon is one of TaskLifecycle's, most of them none. *)
LEMMA LifecycleStep ==
    ASSUME OneBudget, TypeInv, OwnInv, EarnedInv, GrantInv, LifeInv, Regular', [Next]_vars
    PROVE  Lifecycle!Next
<1>. SUFFICES ASSUME OnCourse, SyncExec => ~Fault  PROVE Lifecycle!Next
  BY RegularBefore DEF LifeInv
<1>. USE DEF TypeInv, TypeOK, TablesTypeOK, InHand, Actor, tables, daemon, actors, ghosts,
         Goto, Done, Return, mapped
<1>. DEFINE Still == UNCHANGED <<state, req, attempt, succeeded>>
<1>1. ASSUME NEW h \in Handler,
             \/ Post(h) \/ Peek(h) \/ CreateRefused(h) \/ Bind(h) \/ Refer(h) \/ Unreadable(h)
             \/ CarryOn(h) \/ Reply(h) \/ ClientGone(h)
      PROVE  Lifecycle!Next
  <2>1. Still
    BY <1>1 DEF Post, Peek, CreateRefused, Bind, SaveIdempotency, Refer, Unreadable, CarryOn,
                Reply, ClientGone
  <2>. QED  BY <2>1, LifecycleIdle
<1>2. ASSUME NEW h \in Handler, Create(h)  PROVE Lifecycle!Next
  <2>1. phase # "down"
    BY <1>2 DEF Create, OwnInv, AtRest, Running
  <2>2. hreq[h] \in Request /\ hreq[h].verb \in Verb /\ hreq[h].verb \in catalog
    BY <1>2 DEF Create, OnCourse, Request
  <2>3. PICK t \in TaskId : /\ state[t] = "free" /\ state' = [state EXCEPT ![t] = "accepted"]
                            /\ req' = [req EXCEPT ![t] = hreq[h]]
    BY <1>2 DEF Create, CreateAndAuditLimited, Fresh
  <2>4. UNCHANGED <<attempt, succeeded, phase, catalog>>
    BY <1>2 DEF Create, CreateAndAuditLimited
  <2>5. NoVerb' = [NoVerb EXCEPT ![t] = hreq[h].verb]
    BY <2>2, <2>3, NoRequestAssumption DEF NoVerb
  <2>6. hreq[h].verb \in Verb \ Gone
    BY <2>1, <2>2 DEF Gone
  <2>7. Lifecycle!Accept(t)
    BY <2>3, <2>4, <2>5, <2>6 DEF Lifecycle!Accept, Lifecycle!Move, NoVerb, Gone
  <2>. QED  BY <2>7 DEF Lifecycle!Next
<1>3. ASSUME NEW h \in Handler, Supersede(h)  PROVE Lifecycle!Next
  <2>1. cur[h] \in TaskId /\ state[cur[h]] = "accepted"
        /\ (Still \/ (UNCHANGED mapped /\ state' = [state EXCEPT ![cur[h]] = "canceled"]))
    BY <1>3 DEF Supersede, Attempt, UpdateAndAudit, OnCourse, Unlaunched
  <2>. QED  BY <2>1, LifecycleIdle, LifecycleMove
<1>4. ASSUME NEW h \in Handler, Admit(h)  PROVE Lifecycle!Next
  <2>1. Still
    BY <1>4 DEF Admit, Attempt, UpdateAndAudit
  <2>. QED  BY <2>1, LifecycleIdle
<1>5. ASSUME NEW h \in Handler, Handoff(h)  PROVE Lifecycle!Next
  <2>1. cur[h] \in TaskId /\ state[cur[h]] = "accepted"
        /\ (Still \/ (UNCHANGED mapped /\ state' = [state EXCEPT ![cur[h]] = "pending"]))
    BY <1>5 DEF Handoff, Attempt, UpdateAndAudit, OnCourse, Unlaunched
  <2>. QED  BY <2>1, LifecycleIdle, LifecycleMove
<1>6. CASE Claim \/ ClaimLost
  <2>1. PICK t \in TaskId : Due(t) /\ state' = [state EXCEPT ![t] = "executing"]
    BY <1>6 DEF Claim, ClaimLost, ClaimDue, Update
  <2>2. UNCHANGED mapped
    BY <1>6 DEF Claim, ClaimLost, ClaimDue, Update
  <2>. QED  BY <2>1, <2>2, LifecycleMove DEF Due
<1>7. ASSUME NEW a \in Actor, Executing(a)
      PROVE  /\ cur[a] \in TaskId /\ state[cur[a]] = "executing" /\ phase # "down"
             /\ req[cur[a]] \in Request /\ VerbOf(a) \in Verb
             /\ NoVerb[cur[a]] = VerbOf(a)
  <2>1. cur[a] \in TaskId /\ state[cur[a]] = "executing"
    BY <1>7, RunnersOwn DEF OnCourse
  <2>2. phase # "down"
    BY <1>7 DEF OwnInv, AtRest, Running, Executing
  <2>3. req[cur[a]] \in Request
    BY <2>1 DEF OnCourse
  <2>. QED  BY <2>1, <2>2, <2>3, NoRequestAssumption DEF NoVerb, VerbOf, Request
<1>8. CASE Unknown
  <2>1. /\ pc[Worker] = "gate" /\ VerbOf(Worker) \notin catalog
        /\ Still \/ (UNCHANGED mapped /\ state' = [state EXCEPT ![cur[Worker]] = "exhausted"])
    BY <1>7, <1>8 DEF Unknown, Attempt, UpdateAndAudit, Executing
  <2>2. NoVerb[cur[Worker]] \in Gone
    BY <1>7, <2>1 DEF Gone, Executing
  <2>. QED  BY <1>7, <2>1, <2>2, LifecycleIdle, LifecycleMove DEF Executing
<1>9. CASE Requeue
  <2>1. /\ pc[Worker] = "requeue" /\ VerbOf(Worker) \in catalog
        /\ Still
           \/ (UNCHANGED mapped /\ state' = [state EXCEPT ![cur[Worker]] = "retry_scheduled"])
    BY <1>7, <1>9 DEF Requeue, Attempt, UpdateAndAudit, OnCourse, Executing
  <2>2. NoVerb[cur[Worker]] \notin Gone
    BY <1>7, <2>1 DEF Gone, Executing
  <2>. QED  BY <1>7, <2>1, <2>2, LifecycleIdle, LifecycleMove DEF Executing
<1>10. ASSUME NEW a \in Actor, a # Worker, pc[a] \in ExecSteps  PROVE SyncExec
  BY <1>10 DEF OnCourse
<1>11. ASSUME NEW a \in Actor, Begin(a)  PROVE Lifecycle!Next
  <2>1. pc[a] = "begin" /\ cur[a] \in TaskId /\ attempt' = attempt
    BY <1>11, AttemptStays DEF Begin, Retry
  <2>2. UNCHANGED <<req, succeeded, phase, catalog>>
        /\ (state' = state \/ state' = [state EXCEPT ![cur[a]] = "executing"])
    BY <1>11 DEF Begin, Attempt, UpdateAndAudit
  <2>3. CASE a = Worker
    <3>0. state[cur[a]] = "executing"
      BY <2>1, <2>3 DEF OnCourse, Executing
    <3>1. state' = state
      <4>1. state \in [TaskId -> TaskState]
        OBVIOUS
      <4>2. [state EXCEPT ![cur[a]] = "executing"] = state
        BY <3>0, <4>1
      <4>. QED  BY <2>2, <4>2
    <3>2. Still
      BY <2>1, <2>2, <3>1
    <3>. QED  BY <3>2, LifecycleIdle
  <2>4. CASE a # Worker
    <3>1. state[cur[a]] = "accepted"
      BY <2>1, <2>4 DEF OnCourse, Unlaunched
    <3>. QED  BY <2>1, <2>2, <3>1, LifecycleIdle, LifecycleMove
  <2>. QED  BY <2>3, <2>4
<1>12. ASSUME NEW a \in Actor, Spawn(a) \/ Record(a) \/ Verdict(a) \/ Notify(a)
       PROVE  Lifecycle!Next
  <2>1. Still
    BY <1>12 DEF Spawn, Record, Verdict, Notify, Attempt, RecordAttempt
  <2>. QED  BY <2>1, LifecycleIdle
<1>13. ASSUME NEW a \in Actor, Reap(a)  PROVE Lifecycle!Next
  <2>1. pc[a] = "wait" /\ UNCHANGED <<state, req, attempt, phase, catalog>>
        /\ (succeeded' = succeeded \/ succeeded' = succeeded \cup {cur[a]})
    BY <1>13 DEF Reap
  <2>2. CASE succeeded' = succeeded
    BY <2>1, <2>2, LifecycleIdle
  <2>3. CASE succeeded' = succeeded \cup {cur[a]}
    <3>1. cur[a] \in TaskId /\ state[cur[a]] = "executing"
      BY <1>7, <2>1 DEF Executing
    <3>2. PICK t \in TaskId : t = cur[a]
      BY <3>1
    <3>3. Lifecycle!Succeed(t)
      BY <2>1, <2>3, <3>1, <3>2 DEF Lifecycle!Succeed
    <3>. QED  BY <3>3 DEF Lifecycle!Next
  <2>. QED  BY <2>1, <2>2, <2>3
<1>14. ASSUME NEW a \in Actor, pc[a] = "settle"
       PROVE  /\ Executing(a) /\ Budget(a, VerbOf(a)) = Budget(Worker, VerbOf(a))
              /\ Budget(a, VerbOf(a)) \in Nat
  <2>1. Executing(a) /\ VerbOf(a) \in Verb
    BY <1>7, <1>14 DEF Executing
  <2>. QED  BY <1>10, <1>14, <2>1, SameBudget, BudgetType DEF ExecSteps
<1>15. ASSUME NEW a \in Actor, Finish(a) \/ Exhaust(a) \/ Retry(a)  PROVE Lifecycle!Next
  <2>0. pc[a] = "settle" /\ Executing(a)
    BY <1>14, <1>15 DEF Finish, Exhaust, Retry
  <2>1. CASE Finish(a)
    <3>1. out[a] = "ok"
          /\ (Still \/ (UNCHANGED mapped /\ state' = [state EXCEPT ![cur[a]] = "executed"]))
      BY <1>7, <2>0, <2>1 DEF Finish, Attempt, UpdateAndAudit
    <3>2. cur[a] \in succeeded
      BY <3>1 DEF EarnedInv, Earned
    <3>. QED  BY <1>7, <2>0, <3>1, <3>2, LifecycleIdle, LifecycleMove
  <2>2. CASE Exhaust(a)
    <3>1. attempt[cur[a]] >= Budget(a, VerbOf(a))
          /\ (Still \/ (UNCHANGED mapped /\ state' = [state EXCEPT ![cur[a]] = "exhausted"]))
      BY <1>7, <2>0, <2>2 DEF Exhaust, Attempt, UpdateAndAudit, ShouldExhaust
    <3>2. attempt[cur[a]] >= [v \in Verb |-> Budget(Worker, v)][NoVerb[cur[a]]]
      BY <1>7, <1>14, <2>0, <3>1
    <3>. QED  BY <1>7, <2>0, <3>1, <3>2, LifecycleIdle, LifecycleMove
  <2>3. CASE Retry(a)
    <3>1. /\ UNCHANGED <<req, succeeded, phase, catalog>>
          /\ ~(attempt[cur[a]] >= Budget(a, VerbOf(a)))
          /\ \/ Still
             \/ /\ state' = [state EXCEPT ![cur[a]] = "retry_scheduled"]
                /\ attempt' = [attempt EXCEPT ![cur[a]] = attempt[cur[a]] + 1]
      BY <1>7, <2>0, <2>3 DEF Retry, Attempt, UpdateAndAudit, ShouldExhaust
    <3>2. PICK t \in TaskId : t = cur[a]
      BY <1>7, <2>0
    <3>3. attempt[t] < [v \in Verb |-> Budget(Worker, v)][NoVerb[t]]
      BY <1>7, <1>14, <2>0, <3>1, <3>2
    <3>4. Still \/ Lifecycle!Retry(t)
      BY <1>7, <2>0, <3>1, <3>2, <3>3 DEF Lifecycle!Retry, Lifecycle!Move, NoVerb
    <3>. QED  BY <3>4, LifecycleIdle DEF Lifecycle!Next
  <2>. QED  BY <1>15, <2>1, <2>2, <2>3
<1>16. ASSUME NEW t \in TaskId, ResumeRow(t)  PROVE Lifecycle!Next
  <2>1. UNCHANGED mapped
    BY <1>16 DEF ResumeRow, Update, UpdateAndAudit
  <2>2. \/ state[t] = "executing" /\ state' = [state EXCEPT ![t] = "pending"]
        \/ /\ state[t] \in {"accepted", "pending_approval"}
           /\ state' = [state EXCEPT ![t] = "canceled"]
    BY <1>16 DEF ResumeRow, Resuming, Pass, Update, UpdateAndAudit
  <2>. QED  BY <2>1, <2>2, LifecycleMove
<1>17. CASE Boot \/ ResumeNext \/ ResumeFails \/ Stop \/ Exit \/ Crash
  <2>1. Still
    BY <1>17 DEF Boot, ResumeNext, ResumeFails, Stop, Exit, Crash, Wipe
  <2>. QED  BY <2>1, LifecycleIdle
<1>18. CASE Gate \/ UNCHANGED vars
  <2>1. Still
    BY <1>18 DEF Gate, vars
  <2>. QED  BY <2>1, LifecycleIdle
<1>19. CASE \/ \E r \in Request : Replay(r)
            \/ \E v \in Verb : Health(v) \/ CoolDown(v)
            \/ \E t \in TaskId : RetryDue(t)
  <2>1. Still
    BY <1>19 DEF Replay, Health, CoolDown, RetryDue, RunTimeReached
  <2>. QED  BY <2>1, LifecycleIdle
<1>20. ASSUME NEW a \in Actor, ExecStep(a)  PROVE Lifecycle!Next
  BY <1>11, <1>12, <1>13, <1>15, <1>20 DEF ExecStep
<1>. HIDE DEF TypeInv, TypeOK, TablesTypeOK, InHand, Actor, tables, daemon, actors, ghosts,
          Goto, Done, Return, mapped
<1>. QED
  BY <1>1, <1>2, <1>3, <1>4, <1>5, <1>6, <1>8, <1>9, <1>16, <1>17, <1>18, <1>19, <1>20
     DEF Next, HandlerStep, WorkerStep, BootStep

(***************************************************************************)
(* The life of a task as spec section 9.1 draws it, for any number of      *)
(* tasks, verbs, handlers, crashes, shutdowns and failing store calls:     *)
(* though the errors of its writes are discarded, each step the daemon     *)
(* takes is one the life cycle allows (queue/task.go:14-25), until a race  *)
(* loser has revived its row (server.go:311) or, inline, a write was lost. *)
(***************************************************************************)
THEOREM LifecycleKeptAnyway ==
    ASSUME OneBudget
    PROVE  Spec => LifecycleKept
<1>1. Spec => []TypeInv
  BY TypeInit, TypeStep, PTL DEF Spec
<1>2. Spec => []OwnInv
  BY <1>1, OwnInit, OwnStep, PTL DEF Spec
<1>3. Spec => []EarnedInv
  BY <1>1, EarnedInit, EarnedStep, PTL DEF Spec
<1>4. Spec => []GrantInv
  BY <1>1, <1>2, GrantInit, GrantStep, PTL DEF Spec
<1>5. Spec => []LifeInv
  BY <1>1, <1>2, LifeInit, LifeStep, PTL DEF Spec
<1>6. TypeInv /\ OwnInv /\ EarnedInv /\ GrantInv /\ LifeInv /\ [Next]_vars
        => (revived' = {} /\ (SyncExec => faults' = 0)
              => [Lifecycle!Next]_(Lifecycle!vars))
  BY LifecycleStep DEF Regular
<1>. QED
  BY <1>1, <1>2, <1>3, <1>4, <1>5, <1>6, LifecycleInit, PTL DEF Spec, LifecycleKept

(* A store that works stays so, and then no row is revived. *)
Working == faults = 0 /\ revived = {}

LEMMA WorkingStep == ASSUME MaxFaults = 0, Working, [Next]_vars  PROVE Working'
BY FaultsCounted DEF Working, Fault

(***************************************************************************)
(* With a store that works, the daemon implements the life cycle, whether  *)
(* the worker runs the commands or the handlers do - but for the budget of *)
(* a verb whose retries are 0, where the two differ (worker.go:146-149).   *)
(***************************************************************************)
THEOREM LifecycleImplemented ==
    ASSUME MaxFaults = 0, OneBudget
    PROVE  Spec => ImplementsLifecycle
<1>1. Spec => LifecycleKept
  BY LifecycleKeptAnyway
<1>2. Spec => []Working
  <2>1. Init => Working
    BY DEF Init, Working
  <2>2. Working /\ [Next]_vars => Working'
    BY WorkingStep
  <2>. QED  BY <2>1, <2>2, PTL DEF Spec
<1>3. Working' => revived' = {} /\ (SyncExec => faults' = 0)
  BY DEF Working
<1>4. ASSUME UNCHANGED vars  PROVE UNCHANGED Lifecycle!vars
  BY <1>4 DEF vars, tables, daemon, actors, ghosts, bounds, Lifecycle!vars
<1>. QED
  BY <1>1, <1>2, <1>3, <1>4, PTL DEF Spec, LifecycleKept, ImplementsLifecycle, Lifecycle!Spec
=============================================================================
