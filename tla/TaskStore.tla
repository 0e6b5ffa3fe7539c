------------------------------ MODULE TaskStore ------------------------------
(***************************************************************************)
(* The durable tables of data/tasks.db (internal/queue/sqlite.go) and the  *)
(* Store operations on them (queue.Store, internal/queue/task.go).  Each   *)
(* operation is one SQL transaction on the single connection OpenSQLite    *)
(* allows, so it is atomic; what happens between two operations of one     *)
(* caller is up to the modules that compose this one.                      *)
(*                                                                         *)
(* A table is kept as one function per column.  The columns modelled are   *)
(* those some control decision or promise depends on.                      *)
(***************************************************************************)
EXTENDS Naturals, FiniteSets

CONSTANTS
    MaxTasks,       \* bound: rows the tasks table may ever hold
    Legacy,         \* rows left in pending_approval by a pre-autonomy build
    Verb,           \* verb names any catalog has ever held
    Key, NoKey,     \* client idempotency keys; "no key given"
    Body,           \* payloads (args and stdin) the hash tells apart
    NoRequest,      \* the content of a row that does not exist
    MaxQueueDepth,  \* daemon.max_queue_depth
    CreatedRank     \* CreatedRank[t]: where created_at, compared as text, puts row t

ASSUME StoreAssumption ==
    /\ MaxTasks \in Nat
    /\ Legacy \in 0 .. MaxTasks
    /\ MaxQueueDepth \in Nat
    /\ NoKey \notin Key

TaskId == 1 .. MaxTasks     \* in the order of insertion
NoTask == 0

Request == [verb : Verb, key : Key \cup {NoKey}, body : Body]

ASSUME NoRequestAssumption == NoRequest \notin Request

Active   == {"pending", "retry_scheduled", "pending_approval", "executing", "accepted"}
Terminal == {"executed", "exhausted", "canceled"}
TaskState == Active \cup Terminal \cup {"free"}

(* No decision of the code tells "timeout" from "failed". *)
Outcome == {"ok", "failed"}

AuditState == Active \cup Terminal \cup {"circuit_open", "will-retry", "none"}

VARIABLES
    state,      \* tasks.state ("free": no such row)
    req,        \* tasks.verb and the payload, with the key it was posted under
    attempt,    \* tasks.attempt
    waiting,    \* tasks.next_run_at lies in the future
    attempts,   \* attempts: rows <<task_id, n, outcome>>
    trail,      \* audit_outbox, per task: see Logged
    idem        \* idempotency_keys: the task a key is bound to

tables == <<state, req, attempt, waiting, attempts, trail, idem>>

TablesTypeOK ==
    /\ state \in [TaskId -> TaskState]
    /\ req \in [TaskId -> Request \cup {NoRequest}]
    /\ attempt \in [TaskId -> Nat]
    /\ waiting \in [TaskId -> BOOLEAN]
    /\ attempts \in SUBSET (TaskId \X Nat \X Outcome)
    /\ trail \in [TaskId -> [last : AuditState, execs : Nat, closed : Nat]]
    /\ idem \in [Key -> TaskId \cup {NoTask}]

TablesInit ==
    /\ state = [t \in TaskId |-> IF t <= Legacy THEN "pending_approval" ELSE "free"]
    /\ req \in [TaskId -> Request \cup {NoRequest}]
    /\ \A t \in TaskId : (req[t] # NoRequest) <=> (t <= Legacy)
    /\ attempt = [t \in TaskId |-> 0]
    /\ waiting = [t \in TaskId |-> FALSE]
    /\ attempts = {}
    /\ trail = [t \in TaskId |-> [last |-> "none", execs |-> 0, closed |-> 0]]
    /\ idem = [k \in Key |-> NoTask]

(***************************************************************************)
(* The outbox rows of a task, reduced to what an auditor asks of them: the *)
(* last state they record, how many announce an execution and how many     *)
(* close the task.                                                         *)
(***************************************************************************)
Logged(r, ev) ==
    [last   |-> ev,
     execs  |-> r.execs + (IF ev = "executing" THEN 1 ELSE 0),
     closed |-> r.closed + (IF ev \in Terminal THEN 1 ELSE 0)]

Depth == Cardinality({t \in TaskId : state[t] \in Active})

(* The id the next INSERT takes. *)
Fresh(t) == state[t] = "free" /\ \A u \in 1 .. (t - 1) : state[u] # "free"

(* Mutant: one row more than max_queue_depth. *)
CreateAndAuditLimited_OneOver(t, r) ==
    /\ Fresh(t)
    /\ Depth <= MaxQueueDepth
    /\ state' = [state EXCEPT ![t] = "accepted"]
    /\ req' = [req EXCEPT ![t] = r]
    /\ trail' = [trail EXCEPT ![t] = Logged(@, "accepted")]
    /\ UNCHANGED <<attempt, waiting, attempts, idem>>

(* Capacity check, task row and audit row in one transaction. *)
CreateAndAuditLimited(t, r) ==
    /\ Fresh(t)
    /\ Depth < MaxQueueDepth
    /\ state' = [state EXCEPT ![t] = "accepted"]
    /\ req' = [req EXCEPT ![t] = r]
    /\ trail' = [trail EXCEPT ![t] = Logged(@, "accepted")]
    /\ UNCHANGED <<attempt, waiting, attempts, idem>>

(* The row's state, attempt and next_run_at, and one audit row, atomically. *)
UpdateAndAudit(t, s, n, later, ev) ==
    /\ state' = [state EXCEPT ![t] = s]
    /\ attempt' = [attempt EXCEPT ![t] = n]
    /\ waiting' = [waiting EXCEPT ![t] = later]
    /\ trail' = [trail EXCEPT ![t] = Logged(@, ev)]
    /\ UNCHANGED <<req, attempts, idem>>

(* A state change that leaves no audit row: Resume is its only caller. *)
Update(t, s) ==
    /\ state' = [state EXCEPT ![t] = s]
    /\ UNCHANGED <<req, attempt, waiting, attempts, trail, idem>>

(* Mutant: the claim does not look at the state it claims from. *)
Due_AnyActive(t) == state[t] \in {"pending", "executing", "retry_scheduled"}

(* ready to be claimed *)
Due(t) == \/ state[t] = "pending"
          \/ state[t] = "retry_scheduled" /\ ~waiting[t]

(* The first due row by created_at becomes executing; no audit row is
   written and next_run_at stays. *)
ClaimDue(t) ==
    /\ Due(t)
    /\ \A u \in TaskId : Due(u) => CreatedRank[t] <= CreatedRank[u]
    /\ Update(t, "executing")

(* Plain INSERT under PRIMARY KEY(task_id, n): the first outcome stays. *)
RecordAttempt(t, n, o) ==
    /\ attempts' = IF \E p \in Outcome : <<t, n, p>> \in attempts
                   THEN attempts
                   ELSE attempts \cup {<<t, n, o>>}
    /\ UNCHANGED <<state, req, attempt, waiting, trail, idem>>

(* FindIdempotency: is the key bound? *)
Bound(k) == k \in Key /\ idem[k] # NoTask

(* Mutant: INSERT OR REPLACE. *)
SaveIdempotency_Replace(k, t) ==
    /\ k \in Key
    /\ idem' = [idem EXCEPT ![k] = t]
    /\ UNCHANGED <<state, req, attempt, waiting, attempts, trail>>

(* Plain INSERT: only the first binding of a key succeeds. *)
SaveIdempotency(k, t) ==
    /\ k \in Key /\ ~Bound(k)
    /\ idem' = [idem EXCEPT ![k] = t]
    /\ UNCHANGED <<state, req, attempt, waiting, attempts, trail>>

(* The clock passes next_run_at. *)
RunTimeReached(t) ==
    /\ waiting[t]
    /\ waiting' = [waiting EXCEPT ![t] = FALSE]
    /\ UNCHANGED <<state, req, attempt, attempts, trail, idem>>
=============================================================================
