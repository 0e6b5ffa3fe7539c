------------------------------ MODULE Streams ------------------------------
(***************************************************************************)
(* Watch streams (internal/streams/registry.go) with the handlers that     *)
(* open and close them (handlePostStream, handleDeleteStream in            *)
(* internal/api/server.go), the breaker of their verb, and the shutdown    *)
(* that closes what is left (main.go).                                     *)
(*                                                                         *)
(* A stream is numbered as its child process starts.  Start looks at the   *)
(* registry twice, with the lock released while the process starts;        *)
(* removing an entry and killing its process group are two steps of every  *)
(* deletion; a child may end by itself at any time and stays registered.   *)
(***************************************************************************)
EXTENDS Naturals, FiniteSets, Breaker

CONSTANTS
    Client,         \* concurrent POST /v1/streams requests
    MaxStreams,     \* streams.MaxStreams (16)
    MaxStarts,      \* bound: child processes started
    MaxCrashes      \* bound: times the daemon is killed

ASSUME StreamsAssumption ==
    /\ MaxStreams \in Nat \ {0}
    /\ {MaxStarts, MaxCrashes} \subseteq Nat

StreamId == 1 .. MaxStarts
NoStream == 0

VARIABLES
    phase,          \* "up", "draining", "closing" or "down"
    registered,     \* keys of Registry.streams
    child,          \* per stream: its process group
    deleting,       \* streams a DELETE handler is about to take off the registry
    reaping,        \* streams taken off the registry and not yet killed
    closing,        \* CloseAll: streams its goroutines have yet to delete
    awaited,        \* CloseAll: streams its goroutines are killing
    pc, cur,        \* per client: next step of its handler, stream in hand
    breaker,        \* circuit of the (one) watch verb
    rushed,         \* ghost: Shutdown's 5 s once ran out with handlers under way
    crashes

handlers == <<pc, cur>>
removal  == <<deleting, reaping, closing, awaited>>
vars     == <<phase, registered, child, removal, handlers, breaker, rushed, crashes>>

TypeOK ==
    /\ phase \in {"up", "draining", "closing", "down"}
    /\ registered \in SUBSET StreamId
    /\ child \in [StreamId -> {"none", "running", "dead"}]
    /\ deleting \in SUBSET StreamId
    /\ reaping \in SUBSET StreamId
    /\ closing \in SUBSET StreamId
    /\ awaited \in SUBSET StreamId
    /\ pc \in [Client -> {"idle", "check", "launch", "register", "kill", "refuse", "open"}]
    /\ cur \in [Client -> StreamId \cup {NoStream}]
    /\ breaker \in BreakerType
    /\ rushed \in BOOLEAN
    /\ crashes \in 0 .. MaxCrashes

Init ==
    /\ phase = "up"
    /\ registered = {} /\ deleting = {} /\ reaping = {}
    /\ closing = {} /\ awaited = {}
    /\ child = [s \in StreamId |-> "none"]
    /\ pc = [c \in Client |-> "idle"]
    /\ cur = [c \in Client |-> NoStream]
    /\ breaker = NewBreaker
    /\ rushed = FALSE
    /\ crashes = 0

Full == Cardinality(registered) >= MaxStreams

(* One step of a client's handler; those under way go on during a shutdown. *)
Step(c, from, to) ==
    /\ phase # "down"
    /\ pc[c] = from
    /\ pc' = [pc EXCEPT ![c] = to]

-----------------------------------------------------------------------------
(* POST /v1/streams                                                        *)

(* 503 while the breaker is open; Start is called otherwise. *)
Request(c) ==
    /\ phase = "up"
    /\ Step(c, "idle", IF Snapshot(breaker) = "open" THEN "idle" ELSE "check")
    /\ breaker' = MaybeTransition(breaker)
    /\ UNCHANGED <<phase, registered, child, removal, cur, rushed, crashes>>

(* The first look at the registry. *)
Check(c) ==
    /\ Step(c, "check", IF Full THEN "refuse" ELSE "launch")
    /\ UNCHANGED <<phase, registered, child, removal, cur, breaker, rushed, crashes>>

Launch(c) ==
    /\ \E s \in StreamId :
          /\ child[s] = "none"
          /\ \A r \in 1 .. (s - 1) : child[r] # "none"
          /\ child' = [child EXCEPT ![s] = "running"]
          /\ cur' = [cur EXCEPT ![c] = s]
    /\ Step(c, "launch", "register")
    /\ UNCHANGED <<phase, registered, removal, breaker, rushed, crashes>>

(* cmd.Start fails: no such program, no process to be had. *)
LaunchFails(c) ==
    /\ Step(c, "launch", "refuse")
    /\ UNCHANGED <<phase, registered, child, removal, cur, breaker, rushed, crashes>>

(* Mutant: no second look. *)
Register_Unchecked(c) ==
    /\ Step(c, "register", "open")
    /\ registered' = registered \cup {cur[c]}
    /\ UNCHANGED <<phase, child, removal, cur, breaker, rushed, crashes>>

(* Mutant: the loser's process is left alone. *)
Register_LeavesChild(c) ==
    /\ IF Full
       THEN Step(c, "register", "refuse") /\ UNCHANGED registered
       ELSE Step(c, "register", "open") /\ registered' = registered \cup {cur[c]}
    /\ UNCHANGED <<phase, child, removal, cur, breaker, rushed, crashes>>

(* The second look: others may have filled the registry meanwhile. *)
Register(c) ==
    /\ IF Full
       THEN Step(c, "register", "kill") /\ UNCHANGED registered
       ELSE Step(c, "register", "open") /\ registered' = registered \cup {cur[c]}
    /\ UNCHANGED <<phase, child, removal, cur, breaker, rushed, crashes>>

KillOwn(c) ==
    /\ Step(c, "kill", "refuse")
    /\ child' = [child EXCEPT ![cur[c]] = "dead"]
    /\ UNCHANGED <<phase, registered, removal, cur, breaker, rushed, crashes>>

(* 500, and a failure for the breaker whatever the reason. *)
Refuse(c) ==
    /\ Step(c, "refuse", "idle")
    /\ cur' = [cur EXCEPT ![c] = NoStream]
    /\ breaker' = AfterFailure(breaker)
    /\ UNCHANGED <<phase, registered, child, removal, rushed, crashes>>

(* 202 with the stream id. *)
Open(c) ==
    /\ Step(c, "open", "idle")
    /\ cur' = [cur EXCEPT ![c] = NoStream]
    /\ breaker' = AfterSuccess(breaker)
    /\ UNCHANGED <<phase, registered, child, removal, rushed, crashes>>

-----------------------------------------------------------------------------
(* The end of a stream.                                                    *)

ChildEnds(s) ==
    /\ child[s] = "running"
    /\ child' = [child EXCEPT ![s] = "dead"]
    /\ UNCHANGED <<phase, registered, removal, handlers, breaker, rushed, crashes>>

(* DELETE /v1/streams/{id} finds the stream on the registry... *)
AskDelete(s) ==
    /\ phase = "up"
    /\ s \in registered \ deleting
    /\ deleting' = deleting \cup {s}
    /\ UNCHANGED <<phase, registered, child, reaping, closing, awaited, handlers,
                   breaker, rushed, crashes>>

(* ...and takes it off, unless somebody has been faster: then it is a 404. *)
Delete(s) ==
    /\ phase # "down" /\ s \in deleting
    /\ deleting' = deleting \ {s}
    /\ registered' = registered \ {s}
    /\ reaping' = IF s \in registered THEN reaping \cup {s} ELSE reaping
    /\ UNCHANGED <<phase, child, closing, awaited, handlers, breaker, rushed, crashes>>

(* SIGKILL to the process group. *)
Kill(s) ==
    /\ s \in reaping
    /\ child' = [child EXCEPT ![s] = "dead"]
    /\ reaping' = reaping \ {s}
    /\ awaited' = awaited \ {s}
    /\ UNCHANGED <<phase, registered, deleting, closing, handlers, breaker, rushed, crashes>>

-----------------------------------------------------------------------------
(* Shutdown.                                                               *)

(* SIGTERM: the listener is closed. *)
Stop ==
    /\ phase = "up"
    /\ phase' = "draining"
    /\ UNCHANGED <<registered, child, removal, handlers, breaker, rushed, crashes>>

Quiet == deleting \cup reaping = {} /\ \A c \in Client : pc[c] = "idle"

(* Shutdown returns once the handlers have, or after 5 s; CloseAll then
   takes the list of streams. *)
CloseAll ==
    /\ phase = "draining"
    /\ rushed' = (rushed \/ ~Quiet)
    /\ phase' = "closing"
    /\ closing' = registered
    /\ UNCHANGED <<registered, child, deleting, reaping, awaited, handlers, breaker, crashes>>

(* Mutant: an entry that is gone is waited for. *)
CloseOne_Insists(s) ==
    /\ phase = "closing" /\ s \in closing \cap registered
    /\ closing' = closing \ {s}
    /\ registered' = registered \ {s}
    /\ reaping' = reaping \cup {s}
    /\ awaited' = awaited \cup {s}
    /\ UNCHANGED <<phase, child, deleting, handlers, breaker, rushed, crashes>>

(* One of its goroutines calls Delete.  A handler may have been faster; its
   kill is not waited for. *)
CloseOne(s) ==
    /\ phase = "closing" /\ s \in closing
    /\ closing' = closing \ {s}
    /\ IF s \in registered
       THEN /\ registered' = registered \ {s}
            /\ reaping' = reaping \cup {s}
            /\ awaited' = awaited \cup {s}
       ELSE UNCHANGED <<registered, reaping, awaited>>
    /\ UNCHANGED <<phase, child, deleting, handlers, breaker, rushed, crashes>>

(* Memory is gone; process groups of their own are not. *)
Gone ==
    /\ phase' = "down"
    /\ registered' = {}
    /\ deleting' = {} /\ reaping' = {} /\ closing' = {} /\ awaited' = {}
    /\ pc' = [c \in Client |-> "idle"]
    /\ cur' = [c \in Client |-> NoStream]
    /\ breaker' = NewBreaker
    /\ UNCHANGED <<child, rushed>>

Exit ==
    /\ phase = "closing" /\ closing \cup awaited = {}
    /\ Gone
    /\ UNCHANGED crashes

Crash ==
    /\ phase # "down" /\ crashes < MaxCrashes
    /\ Gone
    /\ crashes' = crashes + 1

(* Nothing about streams is read back. *)
Boot ==
    /\ phase = "down"
    /\ phase' = "up"
    /\ UNCHANGED <<registered, child, removal, handlers, breaker, rushed, crashes>>

OpenForElapses ==
    /\ breaker.state = "open" /\ ~breaker.cooled
    /\ breaker' = Cool(breaker)
    /\ UNCHANGED <<phase, registered, child, removal, handlers, rushed, crashes>>

Handle(c) ==
    \/ Check(c) \/ Launch(c) \/ LaunchFails(c) \/ Register(c) \/ KillOwn(c)
    \/ Refuse(c) \/ Open(c)

Next ==
    \/ \E c \in Client : Request(c) \/ Handle(c)
    \/ \E s \in StreamId : ChildEnds(s) \/ AskDelete(s) \/ Delete(s) \/ Kill(s) \/ CloseOne(s)
    \/ Stop \/ CloseAll \/ Exit \/ Crash \/ Boot
    \/ OpenForElapses

Spec == Init /\ [][Next]_vars

(* Handlers and goroutines are scheduled.  Children need not end, nobody
   need delete anything. *)
FairSpec ==
    /\ Spec
    /\ \A c \in Client : WF_vars(Handle(c))
    /\ \A s \in StreamId : WF_vars(Delete(s)) /\ WF_vars(Kill(s)) /\ WF_vars(CloseOne(s))
    /\ WF_vars(CloseAll) /\ WF_vars(Exit)

-----------------------------------------------------------------------------
(* Properties.                                                             *)

(* However many Starts pass the first check together, the registry never
   holds more than MaxStreams streams. *)
RegistryBounded == Cardinality(registered) <= MaxStreams

(* No process leaks (NFR-2): every running child is on the registry, being
   killed, or in the hands of a handler that will do one or the other --
   also after a shutdown and the restart that follows it.  (Nothing can be
   said of the children of a daemon that was killed, or whose handlers
   outlived the grace period.) *)
NoStray ==
    crashes = 0 /\ ~rushed =>
        \A s \in StreamId : child[s] = "running" =>
            \/ s \in registered \cup reaping
            \/ \E c \in Client : cur[c] = s /\ pc[c] \in {"register", "kill"}

(* Liveness: a shutdown gets to its end, whatever starts and deletions it
   finds under way, in time or not. *)
StopEnds == phase = "draining" ~> phase = "down"

=============================================================================
