------------------------------- MODULE Outbox -------------------------------
(***************************************************************************)
(* The audit outbox (ADR-0002): goroutines append lifecycle events to the  *)
(* table audit_outbox, and everybody who happens to drain it -- the worker *)
(* on every tick, a handler after its own work -- copies unwritten rows to *)
(* the NDJSON file logs/audit.log (internal/queue/sqlite.go DrainOutbox,   *)
(* internal/audit/log.go Log).  Selecting a batch, logging a line and      *)
(* marking its row are separate steps of a drainer: drainers interleave,   *)
(* the machine may stop between any two, and each step may fail.           *)
(*                                                                         *)
(* A row is numbered as it is inserted.  Its task has one goroutine at a   *)
(* time (Dispatcher, OneOwner), which is therefore named after the task.   *)
(***************************************************************************)
EXTENDS Naturals, FiniteSets, Sequences, TimeText

CONSTANTS
    Task,               \* tasks and streams: who the events are about
    Drainer,            \* the worker and the handlers
    Daily,              \* the drainer that comes round for ever: the worker
    Limit,              \* Limit[d]: rows drainer d takes at a time (50 or 20)
    MaxRows, MaxTime,   \* bounds: rows, instants
    MaxFaults, MaxCrashes

ASSUME OutboxAssumption ==
    /\ Daily \in Drainer /\ IsFiniteSet(Drainer)
    /\ Limit \in [Drainer -> Nat \ {0}]
    /\ {MaxRows, MaxTime, MaxFaults, MaxCrashes} \subseteq Nat

RowId == 1 .. MaxRows
NoTime == MaxTime + 1

VARIABLES
    clock,
    task, ts,       \* audit_outbox.payload_json (whose event) and .ts, by row
    written,        \* rows whose written_at is set
    corrupt,        \* rows whose payload no longer parses
    stamp,          \* per task: a time taken for a row not yet inserted
    file,           \* the lines of logs/audit.log, as row numbers
    stage, batch,   \* per drainer: its next step, the rows still to be done
    faults, crashes

rows    == <<task, ts, written, corrupt>>
drains  == <<stage, batch>>
vars    == <<clock, rows, stamp, file, drains, faults, crashes>>

Rows == 1 .. Len(task)

TypeOK ==
    /\ clock \in 0 .. NoTime
    /\ task \in Seq(Task) /\ Len(task) <= MaxRows
    /\ ts \in Seq(0 .. MaxTime) /\ Len(ts) = Len(task)
    /\ written \in SUBSET Rows
    /\ corrupt \in SUBSET Rows
    /\ stamp \in [Task -> 0 .. NoTime]
    /\ file \in Seq(Rows)
    /\ stage \in [Drainer -> {"select", "log", "mark"}]
    /\ batch \in [Drainer -> SUBSET Rows]
    /\ faults \in 0 .. MaxFaults
    /\ crashes \in 0 .. MaxCrashes

Init ==
    /\ clock = 0
    /\ task = <<>> /\ ts = <<>> /\ written = {} /\ corrupt = {}
    /\ stamp = [t \in Task |-> NoTime]
    /\ file = <<>>
    /\ stage = [d \in Drainer |-> "select"]
    /\ batch = [d \in Drainer |-> {}]
    /\ faults = 0 /\ crashes = 0

Fault ==
    /\ faults < MaxFaults
    /\ faults' = faults + 1

-----------------------------------------------------------------------------
(* Rows come in.                                                           *)

Tick ==
    /\ clock < MaxTime
    /\ clock' = clock + 1
    /\ UNCHANGED <<rows, stamp, file, drains, faults, crashes>>

(* One audit_outbox row: its task and its time. *)
Insert(t, at) ==
    /\ Len(task) < MaxRows
    /\ task' = Append(task, t)
    /\ ts' = Append(ts, at)
    /\ UNCHANGED <<written, corrupt>>

(* The event of a state change: auditRow takes the time inside the
   transaction, on the only connection. *)
Transition(t) ==
    /\ stamp[t] = NoTime /\ clock <= MaxTime
    /\ Insert(t, clock)
    /\ clock' = clock + 1
    /\ UNCHANGED <<stamp, file, drains, faults, crashes>>

(* AppendAudit takes the time first and inserts on its own. *)
TakeTime(t) ==
    /\ stamp[t] = NoTime /\ clock <= MaxTime
    /\ stamp' = [stamp EXCEPT ![t] = clock]
    /\ clock' = clock + 1
    /\ UNCHANGED <<rows, file, drains, faults, crashes>>

AppendAudit(t) ==
    /\ stamp[t] # NoTime
    /\ Insert(t, stamp[t])
    /\ stamp' = [stamp EXCEPT ![t] = NoTime]
    /\ UNCHANGED <<clock, file, drains, faults, crashes>>

-----------------------------------------------------------------------------
(* A drainer.                                                              *)

Pending == Rows \ written

(* Which of two instants sorts before the other, as a table. *)
Sorts == [i \in 0 .. MaxTime |-> [j \in 0 .. MaxTime |-> TextBefore(i, j)]]

Earlier(q, r) == Sorts[ts[q]][ts[r]]

(* WHERE written_at IS NULL ORDER BY ts LIMIT n, read in one go; often
   there is nothing to do. *)
Select(d) ==
    /\ stage[d] = "select"
    /\ batch' = [batch EXCEPT ![d] =
           {r \in Pending : Cardinality({q \in Pending : Earlier(q, r)}) < Limit[d]}]
    /\ stage' = [stage EXCEPT ![d] = IF Pending = {} THEN "select" ELSE "log"]
    /\ UNCHANGED <<clock, rows, stamp, file, faults, crashes>>

First(d) == CHOOSE r \in batch[d] : \A q \in batch[d] : ~Earlier(q, r)

(* The drainer has dealt with its first row, or gives the batch up. *)
Advance(d) ==
    /\ batch' = [batch EXCEPT ![d] = @ \ {First(d)}]
    /\ stage' = [stage EXCEPT ![d] = IF batch'[d] = {} THEN "select" ELSE "log"]

GiveUp(d) ==
    /\ batch' = [batch EXCEPT ![d] = {}]
    /\ stage' = [stage EXCEPT ![d] = "select"]

(* Write and fsync, under the logger's lock. *)
LogLine(d) ==
    /\ stage[d] = "log" /\ First(d) \notin corrupt
    /\ file' = Append(file, First(d))
    /\ stage' = [stage EXCEPT ![d] = "mark"]
    /\ UNCHANGED <<clock, rows, stamp, batch, faults, crashes>>

(* Mutant: the row is skipped, the drain goes on with the next one. *)
LogFails_Skips(d) ==
    /\ stage[d] = "log" /\ First(d) \notin corrupt
    /\ Fault
    /\ file' = file
    /\ Advance(d)
    /\ UNCHANGED <<clock, rows, stamp, crashes>>

(* Mutant: the error is ignored, the row counts as written. *)
LogFails_Ignored(d) ==
    /\ stage[d] = "log" /\ First(d) \notin corrupt
    /\ Fault
    /\ file' = file
    /\ stage' = [stage EXCEPT ![d] = "mark"]
    /\ UNCHANGED <<clock, rows, stamp, batch, crashes>>

(* Write fails, or fsync does after the line was written: the drain stops. *)
LogFails(d) ==
    /\ stage[d] = "log" /\ First(d) \notin corrupt
    /\ Fault
    /\ file' \in {file, Append(file, First(d))}
    /\ GiveUp(d)
    /\ UNCHANGED <<clock, rows, stamp, crashes>>

(* Mutant: a poison row ends the drain. *)
SkipPoison_Wedges(d) ==
    /\ stage[d] = "log" /\ First(d) \in corrupt
    /\ GiveUp(d)
    /\ UNCHANGED <<clock, rows, stamp, file, faults, crashes>>

(* A row that does not parse is marked without a line; an error of the
   UPDATE is dropped and the drain goes on. *)
SkipPoison(d) ==
    /\ stage[d] = "log" /\ First(d) \in corrupt
    /\ \/ written' = written \cup {First(d)} /\ UNCHANGED faults
       \/ Fault /\ UNCHANGED written
    /\ Advance(d)
    /\ UNCHANGED <<clock, task, ts, corrupt, stamp, file, crashes>>

(* Mutant: the UPDATE matches no row. *)
Mark_Nothing(d) ==
    /\ stage[d] = "mark"
    /\ written' = written
    /\ Advance(d)
    /\ UNCHANGED <<clock, task, ts, corrupt, stamp, file, faults, crashes>>

Mark(d) ==
    /\ stage[d] = "mark"
    /\ written' = written \cup {First(d)}
    /\ Advance(d)
    /\ UNCHANGED <<clock, task, ts, corrupt, stamp, file, faults, crashes>>

MarkFails(d) ==
    /\ stage[d] = "mark"
    /\ Fault
    /\ GiveUp(d)
    /\ UNCHANGED <<clock, rows, stamp, file, crashes>>

-----------------------------------------------------------------------------
(* The disk damages a payload before anyone reads it. *)
Damage(r) ==
    /\ r \in Pending \ corrupt
    /\ \A d \in Drainer : r \notin batch[d]
    /\ Fault
    /\ corrupt' = corrupt \cup {r}
    /\ UNCHANGED <<clock, task, ts, written, stamp, file, drains, crashes>>

(* The process dies and is started again; the tables and the file stay. *)
Crash ==
    /\ crashes < MaxCrashes
    /\ crashes' = crashes + 1
    /\ stamp' = [t \in Task |-> NoTime]
    /\ stage' = [d \in Drainer |-> "select"]
    /\ batch' = [d \in Drainer |-> {}]
    /\ UNCHANGED <<clock, rows, file, faults>>

Drain(d) == Select(d) \/ LogLine(d) \/ SkipPoison(d) \/ Mark(d)

Next ==
    \/ Tick
    \/ \E t \in Task : Transition(t) \/ TakeTime(t) \/ AppendAudit(t)
    \/ \E d \in Drainer : Drain(d) \/ LogFails(d) \/ MarkFails(d)
    \/ \E r \in RowId : Damage(r)
    \/ Crash

Spec == Init /\ [][Next]_vars

(* The worker ticks for ever; nobody else is obliged to drain. *)
FairSpec == Spec /\ WF_vars(Drain(Daily))

-----------------------------------------------------------------------------
(* Properties.                                                             *)

Lines == {file[i] : i \in 1 .. Len(file)}

(* written_at is only ever set for a row whose line is safely in the file,
   whoever drained it, whatever failed: no event is lost (ADR-0002). *)
MarkedIsLogged == written \ corrupt \subseteq Lines

(* A line never overtakes or replaces the earlier events of its task:
   wherever it stands in the file, all of them stand somewhere before it.
   Reading the file and dropping duplicates gives each task's history in
   order, with several drainers, failures and crashes (ADR-0002, "in order")
   -- as far as the texts of their instants sort like the instants. *)
HistoryInOrder ==
    \A i \in 1 .. Len(file) :
        \A q \in 1 .. (file[i] - 1) :
            task[q] = task[file[i]] /\ q \notin corrupt /\ ~Earlier(file[i], q) =>
                \E j \in 1 .. (i - 1) : file[j] = q

(* (Fails.)  "RFC3339Nano UTC ... deterministic ordering" (spec.md:195): the
   same of all events, two of one second included, whose texts may sort the
   other way for want of trailing zeros. *)
HistoryInTimeOrder ==
    \A i \in 1 .. Len(file) :
        \A q \in 1 .. (file[i] - 1) :
            task[q] = task[file[i]] /\ q \notin corrupt =>
                \E j \in 1 .. (i - 1) : file[j] = q

(* At least once, but not much more often: every drainer may have the row in
   hand when it is first marked, and once more after each failure or crash. *)
DuplicatesBounded ==
    \A r \in Rows :
        Cardinality({i \in 1 .. Len(file) : file[i] = r})
            <= Cardinality(Drainer) * (crashes + 1) + faults

(* Liveness: every event reaches the file, however the other drainers stall,
   unless its payload is damaged first; one damaged row holds up no other. *)
EveryEventLogged ==
    \A r \in RowId : r \in Rows ~> r \in Lines \cup corrupt
=============================================================================
