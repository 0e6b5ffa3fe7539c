------------------------------ MODULE Dispatcher ------------------------------
(***************************************************************************)
(* The dispatcher daemon: HTTP handlers of POST /v1/verbs/{name}           *)
(* (internal/api/server.go), the background worker                         *)
(* (internal/worker/worker.go), boot, crash-resume and shutdown            *)
(* (cmd/dispatcher/main.go, internal/queue/resume.go) over the shared      *)
(* store and circuit registry.                                             *)
(*                                                                         *)
(* An actor is a handler goroutine or the worker goroutine.  Its program   *)
(* counter advances at every point where another actor can see or change   *)
(* something: each store transaction, each breaker method, each child      *)
(* process event is one action.  The daemon may be killed between any two. *)
(***************************************************************************)
EXTENDS TaskStore, Breaker

CONSTANTS
    Handler, Worker,    \* goroutines: concurrent requests, and the one worker
    SyncExec,           \* the -sync-exec flag
    Retries,            \* Retries[v]: max_retries stored with a task of verb v
    DaemonRetries,      \* daemon.max_retries
    Catalogs,           \* the sets of verbs a boot may find in verbs.yaml
    MaxCrashes, MaxStops, MaxFaults   \* bounds: kills, SIGTERMs, store errors

ASSUME DispatcherAssumption ==
    /\ Worker \notin Handler
    /\ SyncExec \in BOOLEAN
    /\ Retries \in [Verb -> Nat]
    /\ DaemonRetries \in Nat
    /\ Catalogs \subseteq SUBSET Verb
    /\ {MaxCrashes, MaxStops, MaxFaults} \subseteq Nat

Actor == Handler \cup {Worker}

Phase == {"down", "resume_executing", "resume_accepted", "resume_legacy",
          "up", "stopping"}

(* Where an actor stands: the next step it will take. *)
HandlerSteps == {"peek", "create", "bind", "supersede", "refer", "admit",
                 "handoff", "reply"}
ExecSteps    == {"begin", "spawn", "wait", "record", "verdict", "settle", "notify"}
Step == {"idle", "gate", "requeue"} \cup HandlerSteps \cup ExecSteps

VARIABLES
    phase, catalog,     \* daemon life cycle; verbs of the loaded catalog
    breakers,           \* the circuit registry (in memory)
    pc, cur, out, hreq, \* per actor: step, task in hand, outcome, request
    gone,               \* handlers whose client has disconnected
    runs,               \* ghost: child processes started for each task
    succeeded,          \* ghost: tasks one of whose children exited 0 in time
    notified,           \* ghost: tasks whose exhaustion was announced
    acked,              \* ghost: tasks answered with 202
    replayed,           \* ghost: <<request, task>> answered with a replay
    revived,            \* ghost: settled rows a handler went on working on
    crashes, stops, faults   \* how much of each bound is used up

daemon == <<phase, catalog>>
actors == <<pc, cur, out, hreq, gone>>
ghosts == <<runs, succeeded, notified, acked, replayed, revived>>
bounds == <<crashes, stops, faults>>
vars   == <<tables, daemon, breakers, actors, ghosts, bounds>>

TypeOK ==
    /\ TablesTypeOK
    /\ phase \in Phase
    /\ catalog \in SUBSET Verb
    /\ breakers \in [Verb -> BreakerType]
    /\ pc \in [Actor -> Step]
    /\ cur \in [Actor -> TaskId \cup {NoTask}]
    /\ out \in [Actor -> Outcome \cup {"none"}]
    /\ hreq \in [Actor -> Request \cup {NoRequest}]
    /\ gone \in SUBSET Handler
    /\ runs \in [TaskId -> Nat]
    /\ succeeded \in SUBSET TaskId
    /\ notified \in SUBSET TaskId
    /\ acked \in SUBSET TaskId
    /\ replayed \in SUBSET (Request \X TaskId)
    /\ revived \in SUBSET TaskId
    /\ crashes \in Nat /\ stops \in Nat /\ faults \in Nat

Init ==
    /\ TablesInit
    /\ phase = "down" /\ catalog = {}
    /\ breakers = [v \in Verb |-> NewBreaker]
    /\ pc = [a \in Actor |-> "idle"]
    /\ cur = [a \in Actor |-> NoTask]
    /\ out = [a \in Actor |-> "none"]
    /\ hreq = [a \in Actor |-> NoRequest]
    /\ gone = {}
    /\ runs = [t \in TaskId |-> 0]
    /\ succeeded = {} /\ notified = {} /\ acked = {} /\ replayed = {} /\ revived = {}
    /\ crashes = 0 /\ stops = 0 /\ faults = 0

-----------------------------------------------------------------------------
(* Control flow of one actor.                                              *)

Goto(a, step) ==
    /\ pc' = [pc EXCEPT ![a] = step]
    /\ UNCHANGED <<cur, out, hreq, gone>>

(* The goroutine is finished with its request or task. *)
Done(a) ==
    /\ pc' = [pc EXCEPT ![a] = "idle"]
    /\ cur' = [cur EXCEPT ![a] = NoTask]
    /\ out' = [out EXCEPT ![a] = "none"]
    /\ hreq' = [hreq EXCEPT ![a] = NoRequest]
    /\ gone' = gone \ {a}

(* End of execute / executeOnce: the worker ticks on, a handler answers. *)
Return(a) == IF a = Worker THEN Done(a) ELSE Goto(a, "reply")

(* A store call fails (disk, lock, corruption) and changes nothing. *)
Fault ==
    /\ faults < MaxFaults
    /\ faults' = faults + 1

(* A write whose error the caller discards: it happens, or a fault does. *)
Attempt(A) == \/ A /\ UNCHANGED faults
              \/ Fault /\ UNCHANGED tables

(* The context of the actor's work is canceled: SIGTERM for everyone
   (BaseContext), a lost client for its own request. *)
Canceled(a) == phase = "stopping" \/ a \in gone

VerbOf(a) == req[cur[a]].verb

-----------------------------------------------------------------------------
(* POST /v1/verbs/{name}                                                   *)

(* Room for one more row among those already on their way (MaxTasks). *)
IdsLeft == Cardinality({t \in TaskId : state[t] = "free"})
           > Cardinality({h \in Handler : pc[h] \in {"peek", "create"}})

(* The hash covers verb and payload; on a mismatch the answer is a 409. *)
SameHash(r, s) == r.verb = s.verb /\ r.body = s.body

(* A request for a known verb passes the idempotency lookup if its key is not
   bound, or if the task the key is bound to cannot be read. *)
Post(h) ==
    /\ phase = "up" /\ pc[h] = "idle" /\ IdsLeft
    /\ \E r \in Request :
          /\ r.verb \in catalog
          /\ \/ ~Bound(r.key) /\ UNCHANGED faults
             \/ Bound(r.key) /\ SameHash(r, req[idem[r.key]]) /\ Fault
          /\ hreq' = [hreq EXCEPT ![h] = r]
    /\ pc' = [pc EXCEPT ![h] = "peek"]
    /\ UNCHANGED <<tables, daemon, breakers, cur, out, gone, ghosts, crashes, stops>>

(* A request whose key is bound to the same request is answered at once. *)
Replay(r) ==
    /\ phase = "up"
    /\ r.verb \in catalog
    /\ Bound(r.key)
    /\ SameHash(r, req[idem[r.key]])
    /\ replayed' = replayed \cup {<<r, idem[r.key]>>}
    /\ UNCHANGED <<tables, daemon, breakers, actors,
                   runs, succeeded, notified, acked, revived, bounds>>

(* Mutant: the peek takes the half-open slot. *)
Peek_Allows(h) ==
    /\ pc[h] = "peek"
    /\ LET v == hreq[h].verb IN
          /\ breakers' = [breakers EXCEPT ![v] = AfterAllow(@)]
          /\ IF Allow(breakers[v]) THEN Goto(h, "create") ELSE Done(h)
    /\ UNCHANGED <<tables, daemon, ghosts, bounds>>

(* 503 circuit_open while the breaker is open; Snapshot itself may move it
   to half_open. *)
Peek(h) ==
    /\ pc[h] = "peek"
    /\ LET v == hreq[h].verb IN
          /\ breakers' = [breakers EXCEPT ![v] = MaybeTransition(@)]
          /\ IF Snapshot(breakers[v]) = "open" THEN Done(h) ELSE Goto(h, "create")
    /\ UNCHANGED <<tables, daemon, ghosts, bounds>>

Create(h) ==
    /\ pc[h] = "create"
    /\ \E t \in TaskId :
          /\ CreateAndAuditLimited(t, hreq[h])
          /\ cur' = [cur EXCEPT ![h] = t]
    /\ pc' = [pc EXCEPT ![h] = IF hreq[h].key = NoKey THEN "admit" ELSE "bind"]
    /\ UNCHANGED <<daemon, breakers, out, hreq, gone, ghosts, bounds>>

(* 503 queue_full, or 500 on a store error: nothing is created. *)
CreateRefused(h) ==
    /\ pc[h] = "create"
    /\ \/ Depth >= MaxQueueDepth /\ UNCHANGED faults
       \/ Fault
    /\ Done(h)
    /\ UNCHANGED <<tables, daemon, breakers, ghosts, crashes, stops>>

Bind(h) ==
    /\ pc[h] = "bind"
    /\ \/ /\ SaveIdempotency(hreq[h].key, cur[h])
          /\ Goto(h, "admit")
          /\ UNCHANGED faults
       \/ /\ \/ Bound(hreq[h].key) /\ UNCHANGED faults
             \/ Fault
          /\ Goto(h, "supersede")
          /\ UNCHANGED tables
    /\ UNCHANGED <<daemon, breakers, ghosts, crashes, stops>>

(* Mutant: the loser cancels the winner's row. *)
Supersede_CancelsWinner(h) ==
    /\ pc[h] = "supersede"
    /\ LET winner == idem[hreq[h].key] IN
          /\ Bound(hreq[h].key)
          /\ Attempt(UpdateAndAudit(winner, "canceled", attempt[winner],
                                    waiting[winner], "canceled"))
    /\ Goto(h, "refer")
    /\ UNCHANGED <<daemon, breakers, ghosts, crashes, stops>>

(* The loser of a same-key race cancels its own row... *)
Supersede(h) ==
    /\ pc[h] = "supersede"
    /\ Bound(hreq[h].key)
    /\ LET t == cur[h] IN
          Attempt(UpdateAndAudit(t, "canceled", attempt[t], waiting[t], "canceled"))
    /\ Goto(h, "refer")
    /\ UNCHANGED <<daemon, breakers, ghosts, crashes, stops>>

(* ...and replays the winner. *)
Refer(h) ==
    /\ pc[h] = "refer" /\ Bound(hreq[h].key)
    /\ replayed' = replayed \cup {<<hreq[h], idem[hreq[h].key]>>}
    /\ Done(h)
    /\ UNCHANGED <<tables, daemon, breakers, runs, succeeded, notified, acked, revived, bounds>>

(* The winner cannot be read: the handler carries on with its own row, which
   it has just canceled. *)
Unreadable(h) ==
    /\ pc[h] = "refer"
    /\ Fault
    /\ revived' = IF state[cur[h]] \in Terminal THEN revived \cup {cur[h]} ELSE revived
    /\ Goto(h, "admit")
    /\ UNCHANGED <<tables, daemon, breakers,
                   runs, succeeded, notified, acked, replayed, crashes, stops>>

(* Mutant: the row is canceled before the winner is looked for. *)
CarryOn_Cancels(h) ==
    /\ pc[h] = "supersede"
    /\ ~Bound(hreq[h].key) /\ UNCHANGED faults
    /\ UpdateAndAudit(cur[h], "canceled", attempt[cur[h]], waiting[cur[h]], "canceled")
    /\ Goto(h, "admit")
    /\ UNCHANGED <<daemon, breakers, ghosts, crashes, stops>>

(* No winner to be found: the save failed for another reason, or the lookup
   fails too.  The handler carries on with its own row. *)
CarryOn(h) ==
    /\ pc[h] = "supersede"
    /\ \/ ~Bound(hreq[h].key) /\ UNCHANGED faults
       \/ Fault
    /\ Goto(h, "admit")
    /\ UNCHANGED <<tables, daemon, breakers, ghosts, crashes, stops>>

(* Mutant: the answer is given before the task is handed to the worker. *)
Admit_EarlyReply(h) ==
    /\ pc[h] = "admit"
    /\ LET t == cur[h] IN
          Attempt(UpdateAndAudit(t, state[t], attempt[t], waiting[t], "accepted"))
    /\ Goto(h, IF SyncExec THEN "begin" ELSE "reply")
    /\ UNCHANGED <<daemon, breakers, ghosts, crashes, stops>>

(* runPipeline: the second "accepted" audit row, the row itself unchanged. *)
Admit(h) ==
    /\ pc[h] = "admit"
    /\ LET t == cur[h] IN
          Attempt(UpdateAndAudit(t, state[t], attempt[t], waiting[t], "accepted"))
    /\ Goto(h, IF SyncExec THEN "begin" ELSE "handoff")
    /\ UNCHANGED <<daemon, breakers, ghosts, crashes, stops>>

(* The task becomes claimable by the worker. *)
Handoff(h) ==
    /\ pc[h] = "handoff"
    /\ LET t == cur[h] IN
          Attempt(UpdateAndAudit(t, "pending", attempt[t], waiting[t], "pending"))
    /\ Goto(h, "reply")
    /\ UNCHANGED <<daemon, breakers, ghosts, crashes, stops>>

(* 202 with the task id, or 500 when the row cannot be read back; a client
   that hung up sees neither. *)
Reply(h) ==
    /\ pc[h] = "reply"
    /\ \/ /\ acked' = IF h \in gone THEN acked ELSE acked \cup {cur[h]}
          /\ UNCHANGED faults
       \/ Fault /\ UNCHANGED acked
    /\ Done(h)
    /\ UNCHANGED <<tables, daemon, breakers,
                   runs, succeeded, notified, replayed, revived, crashes, stops>>

(* r.Context() is canceled under a handler that is executing inline. *)
ClientGone(h) ==
    /\ SyncExec
    /\ pc[h] \in ExecSteps \ {"begin"}
    /\ h \notin gone
    /\ gone' = gone \cup {h}
    /\ UNCHANGED <<tables, daemon, breakers, pc, cur, out, hreq, ghosts, bounds>>

-----------------------------------------------------------------------------
(* The worker's loop up to the point where it shares execute's body.       *)

Claim ==
    /\ phase \in {"up", "stopping"} /\ pc[Worker] = "idle"
    /\ \E t \in TaskId :
          /\ ClaimDue(t)
          /\ cur' = [cur EXCEPT ![Worker] = t]
    /\ pc' = [pc EXCEPT ![Worker] = "gate"]
    /\ UNCHANGED <<daemon, breakers, out, hreq, gone, ghosts, bounds>>

(* The UPDATE commits and the SELECT that reads the row back fails: tick
   drops the error and nobody holds the claimed task. *)
ClaimLost ==
    /\ phase \in {"up", "stopping"} /\ pc[Worker] = "idle"
    /\ Fault
    /\ \E t \in TaskId : ClaimDue(t)
    /\ UNCHANGED <<daemon, breakers, actors, ghosts, crashes, stops>>

(* The verb is no longer in the catalog: exhausted without running. *)
Unknown ==
    /\ pc[Worker] = "gate"
    /\ VerbOf(Worker) \notin catalog
    /\ LET t == cur[Worker] IN
          Attempt(UpdateAndAudit(t, "exhausted", attempt[t], waiting[t], "exhausted"))
    /\ Done(Worker)
    /\ UNCHANGED <<daemon, breakers, ghosts, crashes, stops>>

Gate ==
    /\ pc[Worker] = "gate"
    /\ VerbOf(Worker) \in catalog
    /\ LET v == VerbOf(Worker) IN
          /\ breakers' = [breakers EXCEPT ![v] = AfterAllow(@)]
          /\ Goto(Worker, IF Allow(breakers[v]) THEN "begin" ELSE "requeue")
    /\ UNCHANGED <<tables, daemon, ghosts, bounds>>

(* Refused by the breaker: try again in a second, no attempt used. *)
Requeue ==
    /\ pc[Worker] = "requeue"
    /\ LET t == cur[Worker] IN
          Attempt(UpdateAndAudit(t, "retry_scheduled", attempt[t], TRUE, "circuit_open"))
    /\ Done(Worker)
    /\ UNCHANGED <<daemon, breakers, ghosts, crashes, stops>>

-----------------------------------------------------------------------------
(* Running the command: the body worker.execute and server.executeOnce     *)
(* share, and the order in which each of them does it.                     *)

(* executing row and its audit row; inline execution also resets attempt. *)
Begin(a) ==
    /\ pc[a] = "begin"
    /\ LET t == cur[a] IN
          Attempt(UpdateAndAudit(t, "executing", IF a = Worker THEN attempt[t] ELSE 0,
                                 waiting[t], "executing"))
    /\ Goto(a, "spawn")
    /\ UNCHANGED <<daemon, breakers, ghosts, crashes, stops>>

(* execx.Run starts the child, or refuses because the context is canceled. *)
Spawn(a) ==
    /\ pc[a] = "spawn"
    /\ IF Canceled(a)
       THEN /\ pc' = [pc EXCEPT ![a] = "record"]
            /\ out' = [out EXCEPT ![a] = "failed"]
            /\ UNCHANGED runs
       ELSE /\ pc' = [pc EXCEPT ![a] = "wait"]
            /\ runs' = [runs EXCEPT ![cur[a]] = @ + 1]
            /\ UNCHANGED out
    /\ UNCHANGED <<tables, daemon, breakers, cur, hreq, gone,
                   succeeded, notified, acked, replayed, revived, bounds>>

(* Mutant: only the error of cmd.Run is looked at, not the exit code. *)
Reap_ExitIgnored(a) ==
    /\ pc[a] = "wait"
    /\ \E o \in Outcome :
          /\ out' = [out EXCEPT ![a] = "ok"]
          /\ succeeded' = IF o = "ok" THEN succeeded \cup {cur[a]} ELSE succeeded
    /\ pc' = [pc EXCEPT ![a] = "record"]
    /\ UNCHANGED <<tables, daemon, breakers, cur, hreq, gone,
                   runs, notified, acked, replayed, revived, bounds>>

(* The child exits, fails, or is killed at the deadline or on cancellation. *)
Reap(a) ==
    /\ pc[a] = "wait"
    /\ \E o \in Outcome :
          /\ out' = [out EXCEPT ![a] = o]
          /\ succeeded' = IF o = "ok" THEN succeeded \cup {cur[a]} ELSE succeeded
    /\ pc' = [pc EXCEPT ![a] = "record"]
    /\ UNCHANGED <<tables, daemon, breakers, cur, hreq, gone,
                   runs, notified, acked, replayed, revived, bounds>>

(* Mutant: attempts are numbered from one. *)
Record_FromOne(a) ==
    /\ pc[a] = "record"
    /\ Attempt(RecordAttempt(cur[a], attempt[cur[a]] + 1, out[a]))
    /\ Goto(a, IF a = Worker /\ out[a] = "ok" THEN "settle" ELSE "verdict")
    /\ UNCHANGED <<daemon, breakers, ghosts, crashes, stops>>

(* The attempts row. *)
Record(a) ==
    /\ pc[a] = "record"
    /\ Attempt(RecordAttempt(cur[a], attempt[cur[a]], out[a]))
    /\ Goto(a, IF a = Worker /\ out[a] = "ok" THEN "settle" ELSE "verdict")
    /\ UNCHANGED <<daemon, breakers, ghosts, crashes, stops>>

(* The breaker hears the outcome: before the row is settled, except for the
   worker's successes, which settle first. *)
Verdict(a) ==
    /\ pc[a] = "verdict"
    /\ LET v == VerbOf(a) IN
          breakers' = [breakers EXCEPT ![v] = IF out[a] = "ok" THEN AfterSuccess(@)
                                                              ELSE AfterFailure(@)]
    /\ IF a = Worker /\ out[a] = "ok" THEN Done(a) ELSE Goto(a, "settle")
    /\ UNCHANGED <<tables, daemon, ghosts, bounds>>

Finish(a) ==
    /\ pc[a] = "settle" /\ out[a] = "ok"
    /\ LET t == cur[a] IN
          Attempt(UpdateAndAudit(t, "executed", attempt[t], FALSE, "executed"))
    /\ Goto(a, IF a = Worker THEN "verdict" ELSE "reply")
    /\ UNCHANGED <<daemon, breakers, ghosts, crashes, stops>>

(* The retries an actor grants: the worker takes a stored 0 for "not set". *)
Budget(a, v) ==
    IF a = Worker /\ Retries[v] = 0 THEN DaemonRetries ELSE Retries[v]

(* Mutant: one retry too many. *)
ShouldExhaust_OffByOne(n, maxRetries) == n > maxRetries

(* retry.ShouldExhaust *)
ShouldExhaust(n, maxRetries) == n >= maxRetries

(* Mutant: the outcome is stored as the state. *)
Exhaust_OutcomeAsState(a) ==
    /\ pc[a] = "settle" /\ out[a] # "ok"
    /\ LET t == cur[a] IN
          /\ ShouldExhaust(attempt[t], Budget(a, VerbOf(a)))
          /\ Attempt(UpdateAndAudit(t, out[a], attempt[t], FALSE, "exhausted"))
    /\ Goto(a, "notify")
    /\ UNCHANGED <<daemon, breakers, ghosts, crashes, stops>>

(* Mutant: nobody is told. *)
Exhaust_Silent(a) ==
    /\ pc[a] = "settle" /\ out[a] # "ok"
    /\ LET t == cur[a] IN
          /\ ShouldExhaust(attempt[t], Budget(a, VerbOf(a)))
          /\ Attempt(UpdateAndAudit(t, "exhausted", attempt[t], FALSE, "exhausted"))
    /\ Return(a)
    /\ UNCHANGED <<daemon, breakers, ghosts, crashes, stops>>

(* No retry left. *)
Exhaust(a) ==
    /\ pc[a] = "settle" /\ out[a] # "ok"
    /\ LET t == cur[a] IN
          /\ ShouldExhaust(attempt[t], Budget(a, VerbOf(a)))
          /\ Attempt(UpdateAndAudit(t, "exhausted", attempt[t], FALSE, "exhausted"))
    /\ Goto(a, "notify")
    /\ UNCHANGED <<daemon, breakers, ghosts, crashes, stops>>

Retry(a) ==
    /\ pc[a] = "settle" /\ out[a] # "ok"
    /\ LET t == cur[a] IN
          /\ ~ShouldExhaust(attempt[t], Budget(a, VerbOf(a)))
          /\ Attempt(UpdateAndAudit(t, "retry_scheduled", attempt[t] + 1, TRUE, "will-retry"))
    /\ Return(a)
    /\ UNCHANGED <<daemon, breakers, ghosts, crashes, stops>>

(* The notification is itself a child process under the same context. *)
Notify(a) ==
    /\ pc[a] = "notify"
    /\ notified' = IF Canceled(a) THEN notified ELSE notified \cup {cur[a]}
    /\ Return(a)
    /\ UNCHANGED <<tables, daemon, breakers, runs, succeeded, acked, replayed, revived, bounds>>

-----------------------------------------------------------------------------
(* Life cycle of the daemon, and time.                                     *)

(* Mutant: the daemon serves at once, without Resume. *)
Boot_NoResume ==
    /\ phase = "down"
    /\ phase' = "up"
    /\ catalog' \in Catalogs
    /\ UNCHANGED <<tables, breakers, actors, ghosts, bounds>>

(* A fresh process: an empty circuit registry and whatever catalog is there. *)
Boot ==
    /\ phase = "down"
    /\ phase' = "resume_executing"
    /\ catalog' \in Catalogs
    /\ UNCHANGED <<tables, breakers, actors, ghosts, bounds>>

(* The three passes of queue.Resume: what each looks for and what is next. *)
Pass == [resume_executing |-> [from |-> "executing",        next |-> "resume_accepted"],
         resume_accepted  |-> [from |-> "accepted",         next |-> "resume_legacy"],
         resume_legacy    |-> [from |-> "pending_approval", next |-> "up"]]

Resuming == phase \in DOMAIN Pass

(* Mutant: cancellations at restart leave no audit row. *)
ResumeRow_Silent(t) ==
    /\ Resuming
    /\ state[t] = Pass[phase].from
    /\ Update(t, IF phase = "resume_executing" THEN "pending" ELSE "canceled")
    /\ UNCHANGED <<daemon, breakers, actors, ghosts, bounds>>

(* An interrupted execution is queued again, unaudited; a half-created or
   legacy row is canceled. *)
ResumeRow(t) ==
    /\ Resuming
    /\ state[t] = Pass[phase].from
    /\ IF phase = "resume_executing"
       THEN Update(t, "pending")
       ELSE UpdateAndAudit(t, "canceled", attempt[t], waiting[t], "canceled")
    /\ UNCHANGED <<daemon, breakers, actors, ghosts, bounds>>

(* A pass ends when its rows are handled; List drops a row, or all of them,
   when a read fails. *)
ResumeNext ==
    /\ Resuming
    /\ \/ (\A t \in TaskId : state[t] # Pass[phase].from) /\ UNCHANGED faults
       \/ Fault
    /\ phase' = Pass[phase].next
    /\ UNCHANGED <<tables, catalog, breakers, actors, ghosts, crashes, stops>>

(* Nothing in memory survives. *)
Wipe ==
    /\ phase' = "down" /\ catalog' = {}
    /\ breakers' = [v \in Verb |-> NewBreaker]
    /\ pc' = [a \in Actor |-> "idle"]
    /\ cur' = [a \in Actor |-> NoTask]
    /\ out' = [a \in Actor |-> "none"]
    /\ hreq' = [a \in Actor |-> NoRequest]
    /\ gone' = {}
    /\ UNCHANGED <<tables, ghosts>>

(* A failed row update makes Resume, and with it the boot, give up. *)
ResumeFails ==
    /\ Resuming
    /\ \E t \in TaskId : state[t] = Pass[phase].from
    /\ Fault
    /\ Wipe
    /\ UNCHANGED <<crashes, stops>>

(* SIGTERM or Ctrl-C: every context is canceled, no request is accepted. *)
Stop ==
    /\ phase = "up" /\ stops < MaxStops
    /\ phase' = "stopping"
    /\ stops' = stops + 1
    /\ UNCHANGED <<tables, catalog, breakers, actors, ghosts, crashes, faults>>

(* main returns once the handlers are done, and after 5 s in any case. *)
Exit ==
    /\ phase = "stopping"
    /\ Wipe
    /\ UNCHANGED bounds

(* Killed by Android, by the watchdog or by a power loss. *)
Crash ==
    /\ phase # "down" /\ crashes < MaxCrashes
    /\ crashes' = crashes + 1
    /\ Wipe
    /\ UNCHANGED <<stops, faults>>

(* GET /v1/health takes a Snapshot of every breaker, one after the other. *)
Health(v) ==
    /\ phase = "up"
    /\ breakers' = [breakers EXCEPT ![v] = MaybeTransition(@)]
    /\ UNCHANGED <<tables, daemon, actors, ghosts, bounds>>

(* The clock: OpenFor elapses, a retry falls due.  A probe lease may lapse
   too, but only Allow looks at it, its one caller is the worker, and the
   worker is busy with the probe as long as there is one (ProbeHasOwner). *)
CoolDown(v) ==
    /\ breakers[v].state = "open" /\ ~breakers[v].cooled
    /\ breakers' = [breakers EXCEPT ![v] = Cool(@)]
    /\ UNCHANGED <<tables, daemon, actors, ghosts, bounds>>

RetryDue(t) ==
    /\ RunTimeReached(t)
    /\ UNCHANGED <<daemon, breakers, actors, ghosts, bounds>>

-----------------------------------------------------------------------------
ExecStep(a) ==
    \/ Begin(a) \/ Spawn(a) \/ Reap(a) \/ Record(a) \/ Verdict(a)
    \/ Finish(a) \/ Exhaust(a) \/ Retry(a) \/ Notify(a)

HandlerStep(h) ==
    \/ Peek(h) \/ Create(h) \/ CreateRefused(h) \/ Bind(h) \/ Supersede(h)
    \/ Refer(h) \/ Unreadable(h) \/ CarryOn(h) \/ Admit(h) \/ Handoff(h) \/ Reply(h)

WorkerStep == Claim \/ ClaimLost \/ Unknown \/ Gate \/ Requeue

BootStep == Boot \/ ResumeNext \/ ResumeFails \/ \E t \in TaskId : ResumeRow(t)

Next ==
    \/ \E h \in Handler : Post(h) \/ HandlerStep(h) \/ ClientGone(h)
    \/ \E r \in Request : Replay(r)
    \/ WorkerStep
    \/ \E a \in Actor : ExecStep(a)
    \/ BootStep
    \/ Stop \/ Exit \/ Crash
    \/ \E v \in Verb : Health(v) \/ CoolDown(v)
    \/ \E t \in TaskId : RetryDue(t)

Spec == Init /\ [][Next]_vars

(***************************************************************************)
(* Goroutines are scheduled, children end (execx kills them at the         *)
(* deadline), time passes, the agent watchdog restarts a daemon that is    *)
(* down and a daemon told to stop exits.  Nothing obliges a client to      *)
(* post, hang up or ask for health, or the machine to crash.               *)
(***************************************************************************)
Fairness ==
    /\ \A h \in Handler : WF_vars(HandlerStep(h))
    /\ \A a \in Actor : WF_vars(ExecStep(a))
    /\ WF_vars(WorkerStep)
    /\ WF_vars(BootStep)
    /\ WF_vars(Exit)
    /\ \A v \in Verb : WF_vars(CoolDown(v))
    /\ \A t \in TaskId : WF_vars(RetryDue(t))

FairSpec == Spec /\ Fairness

-----------------------------------------------------------------------------
(* Properties.                                                             *)

Running == phase \in {"up", "stopping"}

(* The actor may still write the row of the task it has in hand. *)
Owns(a, t) ==
    /\ cur[a] = t
    /\ \/ pc[a] \notin {"idle", "reply", "notify", "verdict"}
       \/ pc[a] = "verdict" /\ (a # Worker \/ out[a] # "ok")

(* Requests answered, retries and restarts never make a task look executed
   unless one of its child processes really ended well (FR-6.5: "never
   phantom-executed", resume.go:20). *)
NoPhantomExecuted ==
    \A t \in TaskId : state[t] = "executed" => t \in succeeded

(* However concurrent posts interleave their peek, their capacity check and
   their insert, the active rows never exceed max_queue_depth, and nothing
   that happens later (retry, resume) brings a settled row back into the
   count (sqlite.go:249-302) -- revived rows apart, see SettledStays. *)
DepthBounded == Legacy <= MaxQueueDepth /\ revived = {} => Depth <= MaxQueueDepth

(* A settled task is never touched again: not by the loser of a same-key
   race, not by a claim, not by resume after a crash, whatever fails.  The one
   exception is a canceled row its own handler carries on with because it
   cannot read the winner (SettledStays has it as a finding). *)
SettledForGood ==
    [][\A t \in TaskId \ revived : state[t] \in Terminal => state'[t] = state[t]]_vars

(* ADR-0002, no transition without its audit row: a task has exactly one
   closing audit row if it is settled and none before, the closing row is
   its last and names the state the row is in -- across crashes and failed
   writes. *)
AuditCloses ==
    \A t \in TaskId \ revived :
        IF state[t] \in Terminal
        THEN trail[t].closed = 1 /\ trail[t].last = state[t]
        ELSE trail[t].closed = 0

(* No two goroutines work on one row: the claim, the inline execution and
   the race loser's cancellation never meet on a task. *)
OneOwner ==
    \A a, b \in Actor : \A t \in TaskId : Owns(a, t) /\ Owns(b, t) => a = b

(* While the daemon runs and the store works, every accepted or executing
   row is in the hands of a goroutine: nothing is left that only a restart
   would pick up, whatever crashed before. *)
NoOrphans ==
    faults = 0 /\ Running =>
        \A t \in TaskId : state[t] \in {"accepted", "executing"} =>
            \E a \in Actor : Owns(a, t)

(* ADR-0003: of all the rows that concurrent posts, crashes and retries
   create under one idempotency key, at most one ever runs, and it is the
   one the key is bound to. *)
KeyRunsOnce ==
    faults = 0 =>
        \A t \in TaskId :
            runs[t] > 0 /\ req[t].key \in Key => idem[req[t].key] = t

(* A 202 is a promise: with a working store a task whose post was answered
   202 is never canceled, whenever the daemon dies. *)
AckedNotCanceled ==
    faults = 0 => \A t \in acked : state[t] # "canceled"

(* The retry policy is exact.  A task costs at most one child process per
   granted attempt and one more for each time the daemon died; and it is given
   up only after its command was tried as often as granted: waiting for a
   breaker and dying do not use up attempts.  (The second part without
   SIGTERM, verbs leaving the catalog, or clients hanging up.) *)
BudgetExact ==
    \A t \in TaskId : req[t] # NoRequest =>
        LET granted == Budget(Worker, req[t].verb) + 1
        IN  /\ runs[t] <= granted + crashes + stops
            /\ stops = 0 /\ Catalogs = {Verb} /\ ~SyncExec =>
                  (state[t] = "exhausted" => runs[t] >= granted)

(* A half-open probe is never left outstanding: as long as a breaker counts
   one, the worker is executing a task of that verb and will report. *)
ProbeHasOwner ==
    \A v \in Verb : breakers[v].trial =>
        /\ pc[Worker] \in {"begin", "spawn", "wait", "record", "settle", "verdict"}
        /\ VerbOf(Worker) = v

(* What ran is on record.  The outbox holds an "executing" row for every child
   started, before it is started; and every attempt that was used up has left
   its attempts row, crashes between recording and rescheduling included. *)
RunsOnRecord ==
    faults = 0 =>
        \A t \in TaskId :
            /\ runs[t] <= trail[t].execs
            /\ \A n \in 0 .. (attempt[t] - 1) :
                  \E o \in Outcome : <<t, n, o>> \in attempts

(* The exhaustion alarm (FR-6.3) is raised for exhausted tasks only, and as
   long as nothing interrupts the daemon it misses none of them. *)
AlarmExact ==
    faults = 0 =>
        /\ \A t \in notified : state[t] = "exhausted"
        /\ crashes = 0 /\ stops = 0 /\ Catalogs = {Verb} /\ ~SyncExec =>
              \A t \in TaskId : state[t] = "exhausted" =>
                  t \in notified \/ \E a \in Actor : cur[a] = t /\ pc[a] = "notify"

(* Liveness: no row stays active for ever, acknowledged or not, through open
   breakers, crashes, shutdowns and restarts.  With AckedNotCanceled: what was
   answered 202 is eventually executed or given up. *)
RowsSettle ==
    \A t \in TaskId : state[t] \in Active ~> state[t] \in Terminal

(* What docs and comments say and the code does not do: each of these fails
   (README, "Findings").                                                   *)

(* A replay answers the request it was given: the task it names was created
   for the same verb and payload (task.go:53-55). *)
ReplayMatchesRequest ==
    \A p \in replayed : SameHash(p[1], req[p[2]])

(* An explicit retries: 0 means a failing command is not run again
   (verbs.go:184-186). *)
RetriesHonored ==
    \A t \in TaskId : req[t] # NoRequest =>
        runs[t] <= Retries[req[t].verb] + 1 + crashes + stops

(* executed, exhausted and canceled are terminal (spec.md, section 9). *)
SettledStays ==
    [][\A t \in TaskId : state[t] \in Terminal => state'[t] = state[t]]_vars

(* Resume leaves an audit row when it requeues an interrupted execution
   (docs/OPERATOR_GUIDE.md). *)
ResumeAudited ==
    [][\A t \in TaskId :
          state[t] = "executing" /\ state'[t] = "pending" => trail'[t] # trail[t]]_vars

(* The attempts row of the attempt that settled a task tells its outcome. *)
HistoryAgrees ==
    \A t \in TaskId : state[t] = "executed" => <<t, attempt[t], "ok">> \in attempts

(* Once the daemon runs again and nobody is about to raise it, no alarm of
   an exhausted task is missing. *)
AlarmRaised ==
    \A t \in TaskId : Running /\ state[t] = "exhausted" =>
        t \in notified \/ \E a \in Actor : cur[a] = t /\ pc[a] = "notify"

(* Every child started on a half-open breaker is the one probe the breaker
   has let through and counts. *)
OneProbe ==
    [][\A a \in Actor :
          pc[a] = "spawn" /\ pc'[a] = "wait" /\ breakers[VerbOf(a)].state = "half_open"
              => breakers[VerbOf(a)].trial]_vars

(* An open breaker stays open until OpenFor has elapsed. *)
OpenStaysOpen ==
    [][\A v \in Verb :
          breakers[v].state = "open" /\ ~breakers[v].cooled /\ phase' = phase =>
              breakers'[v].state = "open"]_vars

(* A shutdown does not use up retries: a task is exhausted only after its
   command was tried as often as granted. *)
StopKeepsBudget ==
    \A t \in TaskId : state[t] = "exhausted" =>
        runs[t] > Budget(Worker, req[t].verb)

-----------------------------------------------------------------------------
(* The life of a task as spec section 9.1 draws it. *)
Lifecycle == INSTANCE TaskLifecycle
    WITH Task <- TaskId,
         Allowance <- [v \in Verb |-> Budget(Worker, v)],
         status <- state,
         verb <- [t \in TaskId |-> IF req[t] = NoRequest THEN "none" ELSE req[t].verb],
         tries <- attempt,
         won <- succeeded,
         withdrawn <- IF phase = "down" THEN Verb ELSE Verb \ catalog

ImplementsLifecycle == Lifecycle!Spec

(* Nor do store calls whose errors are discarded take a task off that path,
   but for two places: a race loser that goes on with the row it has canceled
   (server.go:311), and a handler that executes a row it could not mark
   executing (server.go:397).  The steps are those of the life cycle until one
   of the two may have happened. *)
LifecycleKept ==
    /\ Lifecycle!Init
    /\ [][revived' = {} /\ (SyncExec => faults' = 0) => [Lifecycle!Next]_(Lifecycle!vars)]_vars
=============================================================================
