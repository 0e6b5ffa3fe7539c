--------------------------- MODULE StreamsProofs ----------------------------
(***************************************************************************)
(* Streams: the registry stays within its limit and no process strays, for *)
(* any numbers of clients, slots, processes, deletions and restarts.       *)
(***************************************************************************)
EXTENDS Streams, FiniteSetTheorems, TLAPS

-----------------------------------------------------------------------------
(* The limit *)

BoundInv == IsFiniteSet(registered) /\ RegistryBounded

LEMMA BoundInit == Init => BoundInv
  BY StreamsAssumption, FS_EmptySet DEF Init, BoundInv, RegistryBounded

(* Taking streams off the registry keeps it small. *)
LEMMA Shrinks ==
    ASSUME BoundInv, registered' \subseteq registered PROVE BoundInv'
  <1>1. IsFiniteSet(registered') /\ Cardinality(registered') <= Cardinality(registered)
    BY FS_Subset DEF BoundInv
  <1>2. Cardinality(registered) \in Nat /\ Cardinality(registered') \in Nat
    BY <1>1, FS_CardinalityType DEF BoundInv
  <1> QED BY <1>1, <1>2, StreamsAssumption DEF BoundInv, RegistryBounded

(* Register is all that adds to it, and looks again. *)
LEMMA Grows ==
    ASSUME NEW c \in Client, BoundInv, Register(c) PROVE BoundInv'
  <1>1. CASE Full
    BY <1>1, Shrinks DEF Register
  <1>2. CASE ~Full
    <2>1. registered' = registered \cup {cur[c]}
      BY <1>2 DEF Register
    <2>2. /\ IsFiniteSet(registered')
          /\ Cardinality(registered') =
                 IF cur[c] \in registered THEN Cardinality(registered)
                                          ELSE Cardinality(registered) + 1
      BY <2>1, FS_AddElement DEF BoundInv
    <2>3. Cardinality(registered) \in Nat /\ Cardinality(registered) < MaxStreams
      BY <1>2, FS_CardinalityType, StreamsAssumption DEF BoundInv, Full
    <2> QED BY <2>2, <2>3, StreamsAssumption DEF BoundInv, RegistryBounded
  <1> QED BY <1>1, <1>2

LEMMA BoundStep == BoundInv /\ [Next]_vars => BoundInv'
  <1> SUFFICES ASSUME BoundInv, [Next]_vars,
                      ~ \E c \in Client : Register(c)
               PROVE  registered' \subseteq registered
    BY Shrinks, Grows
  <1>1. ASSUME NEW c \in Client, Request(c) \/ Handle(c)
        PROVE  UNCHANGED registered
    BY <1>1 DEF Request, Handle, Check, Launch, LaunchFails, KillOwn, Refuse, Open
  <1>2. ASSUME NEW s \in StreamId,
               ChildEnds(s) \/ AskDelete(s) \/ Delete(s) \/ Kill(s) \/ CloseOne(s)
        PROVE  registered' \subseteq registered
    BY <1>2 DEF ChildEnds, AskDelete, Delete, Kill, CloseOne
  <1>3. CASE Stop \/ CloseAll \/ Exit \/ Crash \/ Boot \/ OpenForElapses
    BY <1>3 DEF Stop, CloseAll, Exit, Crash, Gone, Boot, OpenForElapses
  <1>4. CASE UNCHANGED vars
    BY <1>4 DEF vars
  <1> QED BY <1>1, <1>2, <1>3, <1>4 DEF Next

(* registry.go:79-84, 103-110: however many requests start a process between
   the first look and the second, MaxStreams is never exceeded. *)
THEOREM RegistryStaysBounded == Spec => []RegistryBounded
  <1>1. BoundInv => RegistryBounded
    BY DEF BoundInv
  <1> QED BY <1>1, BoundInit, BoundStep, PTL DEF Spec

-----------------------------------------------------------------------------
(* No stray process *)

(* What the handlers and the processes are, as far as it matters here. *)
HandsTypeOK ==
    /\ pc \in [Client -> {"idle", "check", "launch", "register", "kill", "refuse", "open"}]
    /\ cur \in [Client -> StreamId \cup {NoStream}]
    /\ child \in [StreamId -> {"none", "running", "dead"}]

Tidy == crashes = 0 /\ ~rushed

Accounted(s) ==
    \/ s \in registered \cup reaping
    \/ \E c \in Client : cur[c] = s /\ pc[c] \in {"register", "kill"}

(* A shutdown that began in time has its handlers behind it: the streams are
   those CloseAll knows of, and it waits for all of its kills. *)
ClosingInv ==
    phase = "closing" =>
        /\ deleting = {} /\ \A c \in Client : pc[c] = "idle"
        /\ registered \subseteq closing /\ reaping \subseteq awaited

StrayInv ==
    /\ HandsTypeOK
    /\ crashes \in Nat
    /\ Tidy => ClosingInv
    /\ Tidy => \A s \in StreamId : child[s] = "running" => Accounted(s)

LEMMA StrayInit == Init => StrayInv
  BY DEF Init, StrayInv, HandsTypeOK, ClosingInv, Accounted, NoStream

(* A handler's step: its own stream is accounted for before and after. *)
LEMMA HandlerSteps ==
    ASSUME NEW c \in Client, StrayInv, Request(c) \/ Handle(c)
    PROVE  StrayInv'
  <1> USE DEF StrayInv, HandsTypeOK, ClosingInv, Accounted, Step, Tidy, removal
  <1>1. CASE Request(c)
    BY <1>1 DEF Request
  <1>2. CASE Check(c)
    BY <1>2 DEF Check
  <1>3. CASE Launch(c)
    BY <1>3 DEF Launch
  <1>4. CASE LaunchFails(c)
    BY <1>4 DEF LaunchFails
  <1>5. CASE Register(c)
    BY <1>5 DEF Register
  <1>6. CASE KillOwn(c)
    <2>1. HandsTypeOK' /\ (Tidy' => ClosingInv')
      BY <1>6 DEF KillOwn
    <2>2. ASSUME Tidy', NEW s \in StreamId, child'[s] = "running" PROVE Accounted(s)'
      <3>1. child[s] = "running" /\ s # cur[c]
        BY <1>6, <2>2 DEF KillOwn
      <3>2. Accounted(s) /\ UNCHANGED <<registered, reaping, cur>>
        BY <1>6, <2>2, <3>1 DEF KillOwn
      <3>3. \A d \in Client : d # c => pc'[d] = pc[d]
        BY <1>6 DEF KillOwn
      <3> QED BY <3>1, <3>2, <3>3
    <2>3. UNCHANGED crashes
      BY <1>6 DEF KillOwn
    <2> QED BY <2>1, <2>2, <2>3
  <1>7. CASE Refuse(c)
    BY <1>7 DEF Refuse
  <1>8. CASE Open(c)
    BY <1>8 DEF Open
  <1> QED BY <1>1, <1>2, <1>3, <1>4, <1>5, <1>6, <1>7, <1>8 DEF Handle

(* A stream leaves the registry into somebody's hands, and those by its
   death. *)
LEMMA RemovalSteps ==
    ASSUME NEW t \in StreamId, StrayInv,
           ChildEnds(t) \/ AskDelete(t) \/ Delete(t) \/ Kill(t) \/ CloseOne(t)
    PROVE  StrayInv'
  <1> USE DEF StrayInv, HandsTypeOK, ClosingInv, Accounted, Tidy, removal, handlers
  <1>1. CASE ChildEnds(t)
    BY <1>1 DEF ChildEnds
  <1>2. CASE AskDelete(t)
    BY <1>2 DEF AskDelete
  <1>3. CASE Delete(t)
    BY <1>3 DEF Delete
  <1>4. CASE Kill(t)
    BY <1>4 DEF Kill
  <1>5. CASE CloseOne(t)
    BY <1>5 DEF CloseOne
  <1> QED BY <1>1, <1>2, <1>3, <1>4, <1>5

(* Exit finds nothing left to account for. *)
LEMMA DaemonSteps ==
    ASSUME StrayInv, Stop \/ CloseAll \/ Exit \/ Crash \/ Boot \/ OpenForElapses
    PROVE  StrayInv'
  <1> USE DEF StrayInv, HandsTypeOK, ClosingInv, Accounted, Tidy, removal, handlers
  <1>1. CASE Stop
    BY <1>1 DEF Stop
  <1>2. CASE CloseAll
    BY <1>2 DEF CloseAll, Quiet
  <1>3. CASE Exit
    <2>1. Tidy' => Tidy /\ registered = {} /\ reaping = {} /\ \A c \in Client : pc[c] = "idle"
      BY <1>3 DEF Exit, Gone
    <2>2. HandsTypeOK' /\ crashes' \in Nat /\ phase' = "down" /\ child' = child
      BY <1>3 DEF Exit, Gone, NoStream
    <2>3. Tidy' => \A s \in StreamId : child[s] # "running"
      BY <2>1
    <2> QED BY <2>2, <2>3
  <1>4. CASE Crash
    BY <1>4 DEF Crash, Gone, NoStream
  <1>5. CASE Boot
    BY <1>5 DEF Boot
  <1>6. CASE OpenForElapses
    BY <1>6 DEF OpenForElapses
  <1> QED BY <1>1, <1>2, <1>3, <1>4, <1>5, <1>6

LEMMA StrayStep == StrayInv /\ [Next]_vars => StrayInv'
  <1>1. ASSUME StrayInv, UNCHANGED vars PROVE StrayInv'
    BY <1>1 DEF vars, removal, handlers, StrayInv, HandsTypeOK, ClosingInv, Accounted, Tidy
  <1> QED BY <1>1, HandlerSteps, RemovalSteps, DaemonSteps DEF Next

(* registry.go:103-113, 235-280, main.go: as long as no daemon is killed and
   every handler ends in time, each running child is registered, about to be
   killed, or in the hands of a handler, shutdowns and restarts included. *)
THEOREM NothingStrays == Spec => []NoStray
  <1>1. StrayInv => NoStray
    BY DEF StrayInv, NoStray, Tidy, Accounted
  <1> QED BY <1>1, StrayInit, StrayStep, PTL DEF Spec
=============================================================================
