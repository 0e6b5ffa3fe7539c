# dispatcher-go in TLA+

Specifications of the dispatcher daemon: a loopback HTTP server that runs
`termux-*` commands for an agent, remembers every request in SQLite, retries
failures, trips a circuit breaker per verb, keeps an audit trail and follows
long-running "watch" commands. TLC checks the specifications on small
instances, TLAPS proves the theorems for every instance.

Paths below are relative to the repository (`internal/...`, `cmd/...`).

## The system

| Part | State | Operations | Talks to |
|---|---|---|---|
| Handlers of `POST /v1/verbs/{name}` (`internal/api/server.go`) | local variables of a request | look up the idempotency key, peek at the circuit, insert, bind the key, hand over or execute inline, answer | store, circuit registry, execx, notifier |
| Worker (`internal/worker/worker.go`) | the task in hand | claim, `execute`: allow, run, record, settle; drain the outbox every tick | store, circuit registry, execx, notifier, log |
| Store (`internal/queue/sqlite.go`, `task.go`) | tables tasks, attempts, audit_outbox, idempotency_keys | transactions on one connection | disk |
| Resume (`internal/queue/resume.go`) | - | three passes over the rows of an earlier process | store |
| Circuit breaker (`internal/circuit/breaker.go`) | state, failures, openedAt, probe | Snapshot, Allow, Success, Failure under a mutex | clock |
| Audit (`sqlite.go` DrainOutbox, `internal/audit/log.go`) | outbox rows, `logs/audit.log` | insert, select a batch, log a line, mark the row | disk |
| Stream registry (`internal/streams/registry.go`) | map of streams, child process groups | Start, Delete, Kill, CloseAll, `readLoop` | kernel, breaker |
| Ring (`internal/streams/ring.go`) | last lines of a stream | Push, Since, Len under a mutex | - |
| Command execution (`internal/execx`) | child process, watcher goroutine | Run with deadline and cancellation, killGroup | kernel |
| Retry policy (`internal/retry`) | - | ShouldExhaust, DelayAfterFailureCapped | - |
| Catalog (`internal/verbs`, `internal/termuxallow`, `internal/config`) | constant once loaded | Parse, Get | - |
| Expansion and redaction (`server.go` expandArgv, subst; `internal/approve`) | - | argv of a request, and its masked form | catalog |
| Token (`internal/auth/token.go`) | `.agent-token` | LoadOrCreate, Valid | disk |
| Start-up (`cmd/dispatcher/main.go`, `scripts/`) | processes, the port | pgrep, launch, token, Resume, worker, bind | disk, kernel |
| Notifier (`internal/notify`) | - | one `termux-notification` per exhausted task | execx |

Handlers, the worker, the watchers of `Run` and the stream readers are
goroutines of one process. They share the store (each method one transaction),
the circuit registry (each method one critical section) and the stream
registry; nothing spans two calls. That is where the difficulty lies:

* whatever a handler has read - a free key, a closed circuit, a free slot - may
  have changed by the time it writes;
* most write errors are discarded (`_ = w.Store.UpdateAndAudit(...)`), and
  execution goes on;
* the process is killed by Android at will, and comes back with the tables it
  left, an empty circuit registry and perhaps another catalog;
* scripts look for a daemon and start one in two steps, so there may be two;
* SIGTERM cancels the context of running commands and waits five seconds;
* two watchers race for a child whose context is done, the child forks
  meanwhile, and its descendants may leave the group or hold its output open;
* verdicts reach a breaker that has changed state since the caller was let in;
* everybody drains the same outbox.

What makes each part correct is stated as the properties below;
`PROJECT.json` lists the hazards at their lines, and for each the properties
that would catch it going wrong.

## The modules

```
TaskStore   Breaker        TaskLifecycle     TimeText     ProcessGroup  Ring   Catalog  Startup
     \      /  |  \             |            /      \           \       /       |       |
   Dispatcher  | Streams  (implemented   Outbox   Backoff        Child       Request    |
        |      |    |     by Dispatcher)    |        |             |            |       |
        |   Circuit |                       |        |             |            |       |
        |      |    |                       |        |             |            |       |
  Dispatcher- Circuit- Streams-          Outbox-  Backoff-       Child-     Request- Startup-
  Proofs      Proofs   Proofs            Proofs   Proofs         Proofs     Proofs   Proofs
```

| Module | Models | Correspondence |
|---|---|---|
| `TaskStore` | the tables and the store's write transactions | one function per column; one operator per method; the outbox rows of a task are reduced to the last state, the number of `executing` rows and the number of closing rows |
| `Breaker` | `circuit.Breaker` | a record, one operator per method; the clock is the two comparisons the code makes (`cooled`, `lapsed`) |
| `Dispatcher` | handlers, worker, resume, boot, shutdown over the two above | a program counter per goroutine; one action per store transaction, breaker call or event of a child process |
| `TaskLifecycle` | what the daemon promises about one task (spec section 9.1) | abstract: no goroutines, no crashes |
| `Circuit` | one breaker and its callers | guarded callers ask `Allow` as the worker does, peeking ones `Snapshot` as handlers do; verdicts arrive late or never |
| `Outbox` | the audit outbox, its drainers and the log file | a drainer's select, log and mark are separate actions, each of which can fail |
| `TimeText` | instants as RFC3339Nano text | trailing zeros of the fraction are dropped, texts are compared byte by byte |
| `Backoff` | `retry.DelayAfterFailureCapped`, `next_run_at`, ClaimDue's comparison | the doubling loop turn by turn on integers that wrap at `MaxInt`; time in ticks of a `Base ^ -Digits` second |
| `Streams` | `streams.Registry` with its handlers, the verb's breaker and shutdown | Start's two checks, Delete's two steps and CloseAll's goroutines are separate actions |
| `Ring` | `streams.Ring` and polling clients | a line is its sequence number; a poll is Since, then Len |
| `ProcessGroup` | a child with its own group, its descendants, signals and wait | descendants are kinds: in the group or not, holding the pipe or not |
| `Child` | `execx.Run` with its watcher and os/exec's, or a stream's `readLoop` with Kill and a poller, over a child | one action per system call or channel event; `Ring` is filled through a pipe of `PipeCap` lines |
| `Startup` | scripts, several daemons, `auth.LoadOrCreate`, Resume, the bind | one program counter per daemon; one task is enough to see who works on it |
| `Catalog` | `verbs.Parse` and all it calls, `Catalog.Get` | one operator per validation; texts are sequences of pieces, placeholders or literals; a placeholder is any argument's name, `Simple` (in `Request`) those that `solePlaceholder` takes |
| `Request` | load, lookup, `expandArgv`, `subst`, redaction, the retry budget | one action per turn of subst; an argv entry is kept with its redacted form |
| `MC*` | values for TLC | |
| `*Proofs` | theorems | |

### Dispatcher, step by step

A handler goes `peek` (server.go:265) → `create` → `bind` (if it has a key) →
`admit` → `handoff`, or inline execution → `reply`. A failed `bind` leads to
`supersede`: the row is canceled and the winner replayed (`refer`), or, when no
winner can be found or read, the handler carries on with its own row. The
worker goes `gate` (Allow) → `begin` (executing row) → `spawn` → `wait` →
`record` (attempts row), then for a success `settle` → `verdict`, for a failure
`verdict` → `settle` → `notify`; a handler executing inline gives its verdict
first in both cases, as the code does.

* **Discarded errors.** `Attempt(A)` is A or a fault that changes no table; the
  goroutine goes on in both cases. `Fault` is the only source of store errors
  and is bounded by `MaxFaults`. A failing call is taken to change nothing
  (each is one transaction).
* **Crash, Exit, ResumeFails** wipe everything but the tables. `Exit` may come
  at any moment of a shutdown: main does not wait for goroutines longer than
  five seconds, and for the worker not at all.
* **Boot** finds one of `Catalogs`; a task whose verb has gone is exhausted by
  `Unknown`.
* **ClaimDue** is one step although the code selects an id and then updates it:
  there is one worker, and of the other writers none touches a due row, so the
  update never loses.
* **CreatedRank** is the order in which `created_at` sorts as text. It need not
  be the order of insertion (see `TimeText`), and the runs use both.
* **Delays** are a flag (`waiting`); how long they last is `Backoff`'s.
* **Children** are an outcome; how `Run` comes by it is `Child`'s.
* **One daemon.** Dispatcher has one; what a second one does is `Startup`'s.
* **Probe leases** do not lapse in Dispatcher: only Allow looks at the lease,
  only the worker calls Allow, and `ProbeHasOwner` shows that the worker is
  busy with the probe for as long as there is one. In `Circuit` they do.
* **Ghosts** (`runs`, `succeeded`, `notified`, `acked`, `replayed`, `revived`)
  record history for the properties; no guard reads them.

### Child

`Run` is `check` (cmd.Start looks at the context) → `fork` → `wait` (the
process) → `copy` (its output, which ends with the last holder of the pipe) →
`inspect` → `stop` (close of stopWatch) → `cancel`. Its own watcher kills the
group, os/exec's (`CmdKill`) the direct child only; nothing orders the two, and
the own one does nothing when it fires before there is a process (`missed`).
`readLoop` is `scan` → `wait` → `done`, and leaves its scan early over a line
beyond 1 MB (`ScanFails`). Kill is two steps, the context and the group, between
which the child may end and be reaped. ChildEnds, Forks, KinEnds, WriteLine and
WriteLong are the child's and its descendants' doing, at any time.

### Startup

A script is `Pgrep`, then `Launch`. A daemon goes `read` → (`create` → `write`)
→ `resume` → `listen` → `serve`; its worker runs from before the bind, as in
main.go, so that a daemon that cannot bind the port has claimed tasks by then.
`WriteFails` and `Kill` may hit any of these steps.

### Request and Catalog

A file is a version, a daemon block and a list of verbs with every field
`Parse` looks at. A post names a verb or an alias and maps names to texts; a
text is a sequence of pieces, so that a value may itself contain a placeholder,
which is what `subst`, going over its result again, trips over. Every token of
the argv is expanded, dropped or masked as in the code. Names are told apart by
`Simple`: `Parse` accepts any name but the empty one and `subst` fills any
placeholder, while `solePlaceholder`, which decides what may be dropped, turns
away names with a dot, a slash, a brace or a blank. (A name with `}}` in it, or
a brace at its end, has no placeholder that `subst` would find.)

## What is checked

Eleven runs pass and one shows a disagreement. All finish within about two
minutes on two cores each. TLC looks for deadlock in the Dispatcher, Outbox,
Circuit and Streams runs: those systems never stop. `Child` (a child that has
ended, its followers through), `Startup` (all kills used up and everybody
serving, or no daemon that could start), `Backoff` (clock and attempts at their
bounds) and `Request` (one request) really end, and their runs say so.

| Run | Bounds | Shows |
|---|---|---|
| `Dispatcher_worker` | 2 tasks, 2 handlers, 1 key, trip 1, 1 retry, 1 kill, 1 store fault; 3.6 M states | the daemon without `-sync-exec`: no phantom success, the audit trail closes once, what ran is on record, at most one row of a key runs and it is the bound one, a 202 is never canceled, the retry budget is exact, alarms exact, no orphans; **the life cycle is kept** in spite of the fault |
| `Dispatcher_sync` | 3 tasks, one of them a legacy row, 2 handlers executing inline, clients hanging up, catalogs that lose the verb, 1 kill; 2.6 M states | no two goroutines on one row; a probe has an owner; **Dispatcher implements TaskLifecycle**, which includes that settled rows stay |
| `Dispatcher_queue` | 3 tasks for a queue of 2, claimed in reverse order, catalogs that lose verbs, 1 kill; 1.6 M states | the queue's bound |
| `Dispatcher_live` | 2 tasks, 1 handler, 1 kill, 1 SIGTERM; 0.9 M states | every row is eventually settled |
| `Outbox` | 3 rows of 2 tasks, 2 drainers with batches of 2 and 1, two instants to a second, 1 fault, 1 kill; 0.66 M states | no event lost, histories in order, duplicates bounded, everything logged in the end |
| `Circuit` | 3 guarded, 2 peeking callers, trip 3; 1008 states | one probe at a time, opened by streaks only, never wedged |
| `Streams` | 1 slot, 2 clients, 3 processes, 1 kill; 0.5 M states | registry bounded, no stray process, shutdowns end |
| `Child` | 1 child with any set of the four kinds of descendants, pipe of 2, ring of 3, 6 lines, 1 poller; 0.35 M states | nothing of the group outlives a reported timeout or a kill, no line is lost, the window, polls that tell what they missed, Run returns, the reader ends |
| `Startup` | 2 scripts, 2 daemons, 2 kills, 1 failing write; 1307 states | one token for everybody, a daemon serves again and again, tasks survive restarts |
| `Backoff` | signed durations of six bits, cap 25, jitter below 3, bases 1 to 30, 5 attempts; 1.5 M states | the doubling saturates where the product would wrap; no task is run before its delay is over |
| `Request` | catalogs right or wrong in every respect Parse looks at, three arguments, one of them with a dot in its name, posts with values missing, empty or naming placeholders; 0.28 M states | the program stays first in argv, flags go with their values, the file's budget reaches the worker |

Why the bounds suffice. The promises are about one task, one key, one slot or
one row; it takes two competitors to break one, and a third row to fill a queue
of two. One kill and one fault can fall between any two steps; a restart wipes
all that is in memory, so a second kill starts from tables the first has already
produced, save for longer histories. Trip 1 makes every failure open the
breaker, which brings requeueing, probing and retrying into short runs;
`Circuit` covers thresholds above it. One retry is the least that separates
"will retry" from "exhausted". Two instants to a second are the least whose
texts sort the wrong way round. Six lines wrap a ring of three, and a pipe of
two is less than the child wants to write. In six bits, with a cap of 25 and
five attempts, the doubling wraps from base 24 at once and from base 3 after
four turns; 13 passes the cap without a wrap, 30 starts above it and 1 never
gets there. A product can wrap below the cap only if the cap is more than half
of the largest integer, as 25 is of 31 and the daemon's five minutes never are:
the run is about the function, which takes any cap. Two daemons are what a race
of scripts makes, and the second kill may hit the successor of the first.
`IdsLeft` keeps handlers from posting when the rows TLC may create are spoken
for: without it a request would hang for lack of a row number, which the code
knows nothing of.

Properties with a hypothesis. `faults = 0 =>` marks what discarded errors cannot
promise. The second halves of `BudgetExact` and `AlarmExact` also exclude
SIGTERM, withdrawn verbs and inline execution, where the code behaves
differently (see the divergences). `LifecycleKept` speaks of the steps before a
row is revived or, inline, a write is lost. `HistoryInOrder` speaks of events
whose texts sort like their instants. `PairsWhole` says for arguments whose name
is not simple that both tokens stay. `NoLineLost` and `KillSilences` exclude
what follows a line beyond 1 MB, `RunReturns` and `ReaderEnds` descendants that
have left the group and hold the output for ever. `Serves` excludes token files
readable for others and a kill in the middle of their creation; `TaskSettles`
also two daemons at a time. `NoStray` excludes killed daemons and shutdowns that
overran their five seconds: children have process groups of their own and
nothing about them is stored. Rows in `revived` are excluded where named; they
come from a store fault at one point (server.go:311).

What is taken as one step, and what that hides. A failing store call changes
nothing: a commit that is reported as failed and took place is not modelled. A
line of the audit log is written whole or not at all, so that a line torn by a
kill is not. `Streams` takes a child for its whole process group; what becomes
of descendants is `Child`'s. None of the properties speaks of these cases.

### Fairness

`Dispatcher`: weak fairness for each handler, the worker, execution steps and
boot. Goroutines are scheduled; a child always ends because `execx.Run` kills
it at the deadline; the agent's watchdog (`scripts/`) restarts a daemon that is
down; `Exit` follows a SIGTERM within five seconds; the clock passes
`next_run_at` and `OpenFor`. Clients, kills, SIGTERM, health checks and faults
are under no obligation. `Outbox`: only the worker, which ticks for ever, is
fair; handlers may stop draining in the middle of a batch. `Circuit`: the clock
only. `Streams`: handlers and the goroutines of CloseAll; children need not end
by themselves. `Child`: deadlines pass, and Run, both watchers, the reader and a
Kill once begun are scheduled; processes need not end, write or fork, and nobody
need kill a stream. `Startup`: the scripts (the watchdog looks every minute),
main and the worker of every daemon.

Weak fairness of a goroutine's steps as a disjunction is enough: each of its
steps stays enabled until it is taken or the process ends.

## What is proved

Eight modules of theorems. None of them bounds anything: the proofs hold for any
numbers of goroutines, tasks, verbs, keys, kills, faults, lines and drainers.
They rest on the named assumptions of the modules, which are types and
inequalities of the parameters; TLC evaluates them in every run.

`DispatcherProofs`, from `StoreAssumption`, `NoRequestAssumption`,
`TripAssumption` and `DispatcherAssumption` (`NoKey` and `NoRequest` distinct
from keys and requests, the worker not a handler), inline execution or not:

* `TypeCorrect` (`TypeOK`). Not inductive alone: that `attempt[cur[a]] + 1` is a
  number needs the actor to have a task. `TypeInv` adds `InHand`: what an
  actor has in hand at each step.
* `ExecutedIsEarned` (`NoPhantomExecuted`). `EarnedInv` adds that a goroutine
  holding outcome "ok" has seen the child of its current task succeed.
* `RowsHaveOneOwner` (`OneOwner`). `OwnInv` says in which states an owned row
  can be: rows of handlers are accepted, canceled or executing, never due, so
  the worker cannot claim one; and a free id is owned by nobody, so an insert
  cannot collide. `OwnerMoves` is the shared argument: a goroutine that writes
  at most the row it owns disturbs no other owner.
* `SettledRowsStay` (`SettledForGood`; the runs check it as part of the life
  cycle, whose settled states have no successors): an action property, from the same
  invariant; whoever writes a row owns it, and the state of an owned row is
  active unless the row is revived.
* `TrailClosesOnce` (`AuditCloses`): an inductive step over `OwnInv`; a closing
  row is only ever appended to a row that was active, whose trail had none.
* `AcksAreKept` (`AckedNotCanceled`). `AckInv`: with a working store a row
  about to be answered is in one of the states that lead to executed or
  exhausted only, and a row before that belongs to its handler and is accepted.
* `NothingIsOrphaned` (`NoOrphans`). `OrphanInv` follows the three passes of
  Resume: what each has dealt with stays dealt with until the daemon runs.
* `QueueStaysBounded` (`DepthBounded`). The only step that makes a free row
  active is Create, which counts first (`FreeStep`); no other step makes an
  inactive row active (`SettledStep`), so the set of active rows grows by one at
  most, and then only below the limit.
* `ProbesAreOwned` (`ProbeHasOwner`). `ProbeInv` adds that a breaker with a
  probe is half open, that a worker which has reported a failure has left none,
  and that the row in its hands exists, so that its verb does not change
  (`RowsExist`), whatever handlers do to the same breaker in between.
* `KeysRunOnce` (`KeyRunsOnce`). `KeyInv`: only an actor past its bind
  launches a row, so a launched row is the one its key is bound to (`Launched`,
  `Its`); before that a handler remembers the key of its row, and supersedes
  itself only for a winner.
* `RunsAreOnRecord` (`RunsOnRecord`). `RecordInv` counts the announcement ahead
  of the child (`spawn` is entered with one execution more on record than
  started) and the attempts row ahead of the reschedule.
* `AlarmsAreExact` (`AlarmExact`). `AlarmInv`: an actor on its way to notify has
  exhausted its row for good; while nothing disturbs the daemon no context is
  canceled and every row names a verb of the catalog, so `Exhaust` alone
  exhausts a row, and its `Notify` is not skipped.
* `BudgetIsExact` (`BudgetExact`). `GrantInv`: no row's attempt is beyond its
  budget, and the handler that sets a row's attempt to 0 finds it 0. `SpendInv`
  counts children: one per attempt, one more per death of the daemon, and one
  less while the row's next child has not been started. `CalmInv` and `TriedInv`
  are for the second half: where nothing cuts attempts short, an attempt is
  used up by a child alone.
* `LifecycleKeptAnyway` (`LifecycleKept`): each step of the daemon is a step of
  `TaskLifecycle` or a stutter, whether the worker executes a row or the handler
  that posted it, and whatever store calls fail, with two exceptions. They are
  the two places where the daemon goes on with a row it has not brought into
  the state it believes it to be in: a race loser that cannot read the winner
  (`revived`), and a handler executing inline whose write fails. The worker
  is safe from the latter, for its claim has marked the row before.
  `LifeInv` supplies what the abstract guards ask for: who runs a row owns it
  and has it executing, what a handler has not launched is accepted, requests
  and deferred rows name verbs of the catalog. `LifecycleIdle` and
  `LifecycleMove` are the two shapes of a step: no task moves, or one does and
  nothing else. The abstract life cycle knows one budget per verb, so with
  inline execution the theorem asks for `OneBudget`: where some verb's
  `retries` is 0, the daemon's default is 0, too; otherwise a handler takes the
  stored 0 as it is and the worker for "not set" (worker.go:146-149), and the
  two grant different budgets.
* `LifecycleImplemented` (`ImplementsLifecycle`): with a working store neither
  exception occurs, and the daemon implements the life cycle outright.

`CircuitProofs` (`TripAssumption`):

* `OneProbe` (`OneProbeAtATime`): `ProbeInv` ties the ghost set of leases to the
  breaker's `trial`, `lapsed` and `state`.
* `CountAgrees` (`CountShown`): state and count, as `/v1/health` shows them, fit
  together. The count is at the threshold or past it exactly while the breaker
  is not closed; of a closed one it is the ghost streak. From there
  `OpensOnlyOnStreak` (`OpensOnStreak`).
* `CountStaysBounded`: `Failure` adds to the count of an open breaker, too
  (breaker.go:136). Nobody starts while it is open, so that `LateFailures`, the
  count together with the callers still running, does not grow, and a failure in
  the half-open state sets it back: for any finite set of callers the count
  stays below threshold plus callers. The bound is the least one: in the
  configuration of the run, threshold plus callers less 1 is reached.

`ChildProofs` (`ChildAssumption`, `RingAssumption`), first for `Ring` alone:

* `WindowAlways` (`Window`), by the two cases of Push - a slot is filled, or the
  oldest is evicted - and a lemma on indices modulo the capacity.
* `PollsAlwaysFaithful`: an answer is complete as of the moment Since looked,
  and the buffered count covers it. `SinceCounts` says what the loop of
  Ring.Since returns when the window holds; `PollInv` keeps that for as long as
  the answer is under way, for the ring never shrinks.

Then for the whole of `Child`:

* `TimeoutKillsGroup` (`TimedOutGroupDead`): a result "timeout" stands only
  after killGroup, and a group without members gets none, for only members fork
  members.
* `EveryLineArrives` (`NoLineLost`) and `KilledStreamIsSilent` (`KillSilences`)
  from `StreamInv`: lines pushed and lines in the pipe make up those written,
  and a reaped child implies that the reader has seen the end of the pipe, hence
  that nobody holds it.
* `StreamHasRing` (`ChildSpec => Spec`): a stream implements the specification
  of the ring, which makes `WindowInStream` (`Window`) and `PollsInStream`
  (`PollsFaithful`) corollaries.

`StreamsProofs` (`StreamsAssumption`): `RegistryStaysBounded`
(`RegistryBounded`), with the finiteness of the registry as strengthening;
`NothingStrays` (`NoStray`), where `StrayInv` accounts for every running child
and for what CloseAll has still to do, across shutdowns and restarts.

`OutboxProofs` (`OutboxAssumption`, which wants finitely many drainers, and
`TimeTextAssumption`):

* `NoEventLost` (`MarkedIsLogged`): a drainer about to mark its first row has
  logged it, and that row stays its first whatever rows others insert or mark.
* `LinesInOrder` (`HistoryInOrder`). `OrderInv`: of the rows due before a row in
  a batch, each is in the batch or in the file already - a batch is a prefix of
  the pending rows, and its rows leave it from the front. `ClockInv` says that
  no two rows have one instant, which makes the order of rows by texts a strict
  one (`TextOrder`).
* `CopiesAreBounded` (`DuplicatesBounded`). `CopyInv` counts: until a row is
  marked, each of its lines is accounted for by a drainer about to mark it, a
  fault or a drainer lost in a crash; afterwards by these and the drainers that
  still hold the row, and the two groups have no drainer in common.

`BackoffProofs` (`BackoffAssumption`, `TimeTextAssumption`): `DelayExact`
(`DelaySaturates`): in the loop the delay is the exact product, or it is the cap
and the product has passed it; a product that no longer fits comes out negative,
which the loop sees. `RetryWaits` (`WaitKept`), from a lemma on texts: one that
does not sort before another is not a whole second behind it.

`RequestProofs` (`CatalogAssumption`: names, flags and other pieces differ, and
programs are literal; `RequestAssumption`: the types of a file's fields, and
that `Simple` holds names only):

* `FileBudgetHonored` (`BudgetHonored`), from `VerbInv`: what is served is a verb
  of a file that Parse accepted, and the row's budget is its.
* `ProgramKept` (`BinaryKept`) and `FlagGoesWithValue` (`PairsWhole`), from
  `ArgvInv`: a token without placeholders is expanded to itself, and argv holds
  the tokens not dropped and no others. The loop that builds argv is a recursive
  function; `LoopLeaves` and `LoopExists` say what it leaves. That the first
  token is never dropped needs what Parse checks of a verb: the program is in
  the allowlist, so it is no flag and no placeholder (`ProgramStays`).

`StartupProofs` (`StartupAssumption`): `TokenIsInFile` (`TokenStable`): from the
exclusive create to the write the file belongs to one daemon, and no other gets
past its empty contents.

Induction over numbers (powers of `Base`, turns of a loop) rests on
`LeastNatural`: a set of numbers that is not empty has a least element, from the
library's theorem that `<` is well-founded on them.

Every invariant and action property of the runs is proved. Only model-checked
are the liveness properties (`RowsSettle`, `EveryEventLogged`, `NeverWedged`,
`StopEnds`, `RunReturns`, `ReaderEnds`, `Serves`, `TaskSettles`): fairness and
ENABLED are out of the prover's reach.

## Findings

The run stops at a counterexample to what a document says.

| Run | Said | Done |
|---|---|---|
| `Finding_replay` | ADR-0003: same key with a different hash is a 409 | the loser of a race replays the winner unseen (server.go:303-318) |

More divergences met while modelling. The properties named are in the module of
the configuration; putting the one named in place of the configuration's
properties, with the change noted, shows a counterexample.

| Property | Configuration | What happens |
|---|---|---|
| `RetriesHonored` | `Dispatcher_worker`, `Retries <- NoRetries` | an explicit 0 is replaced by the daemon's default in the worker (verbs.go:184-186 "honored"; worker.go:146-149) |
| `ResumeAudited` | `Dispatcher_worker` | `Resume` requeues by the unaudited `Update` (resume.go:29; OPERATOR_GUIDE.md:91-92) |
| `SettledStays` | `Dispatcher_worker`, no kills | a race loser that cannot read the winner runs its canceled row (server.go:311-323; spec.md:252 "never retries") |
| `HistoryAgrees` | `Dispatcher_worker` | the attempts row of a repeated attempt is not stored, or its write fails unseen (sqlite.go:437-448) |
| `AlarmRaised` | `Dispatcher_worker` | a kill between the exhausted row and the notification: no alarm, ever (worker.go:184-198; spec.md:209) |
| `StopKeepsBudget` | `Dispatcher_live` | SIGTERM fails the running command; a last attempt is exhausted by it (worker.go:116) |
| `OneProbe` | `Dispatcher_sync`, no kills | inline executions pass a half-open breaker by Snapshot, uncounted (server.go:265-273; spec.md:212 "single half-open probe") |
| `OpenStaysOpen` | `Dispatcher_sync`, no kills | a late success closes an open breaker (breaker.go:115-122) |
| `HistoryInTimeOrder` | `Outbox` | trailing zeros are dropped, `...05Z` sorts after `...05.1Z`: a drain logs two events of a task in the wrong order (sqlite.go:464; spec.md:195 "deterministic ordering", ADR-0002:15 "in order") |
| `OneRunner` | `Startup`, no kills, no faults | two scripts find no daemon; the loser of the bind has resumed and claimed tasks the winner claims again (scripts/01-start-agent:23 "avoid duplicate if already running") |
| `TaskSettlesAnyway` | `Startup` | the loser of the bind exits with a task executing, and the winner looks for such rows at its boot only |
| `ServesAfterKill` | `Startup` | a kill between create and write leaves an empty token file, which every later boot refuses (token.go:61) |
| `CanceledGroupDead` | `Child` | os/exec reaps the child first, Run returns, and its watcher may choose stopWatch over the context: grandchildren survive a cancellation (exec.go:55-57) |
| `RunAlwaysReturns` | `Child` | the context is done between the look at it and the fork: the group is never killed, and a grandchild keeps Run waiting (exec.go:61-70) |
| `DeletedGroupDead` | `Child` | Kill finds the child reaped and no group to signal; members that closed the pipe live on (registry.go:234, 254; SRS.md:132 NFR-2) |
| `BudgetAlwaysHonored` | `Request` | the explicit 0 once more, from the file to the worker (verbs.go:184-186) |
| `MissingOmitted` | `Request` | `Parse` accepts an argument name with a dot, slash, brace or blank (verbs.go:275-278), `solePlaceholder` does not (server.go:792): an optional one that is missing is passed as an empty string, with its flag if it has one (OPERATOR_GUIDE.md:41-42 "omitted flag-and-all, never passed as empty strings") |
| `ExpansionEnds` | `Request`, `FairSpec` | a value that names its own argument's placeholder is substituted for ever |
| `StdinUnseen` | `Request` | a secret given as stdin and again as another argument is masked in one place only (SRS.md, NFR-1 "redaction total") |
| `EveryVerbCallable` | `Request` | a required stdin argument is taken out before required arguments are looked for (server.go:225-227) |

Read off the models and the code next to them:

* concurrent drainers can log a task's event again after a later one
  (`DuplicatesBounded` and `HistoryInOrder` say how far this goes; ADR-0002
  speaks of one dedicated writer);
* a full stream registry counts as a failure of the verb and can open its
  circuit (`Streams`, `Refuse`), and so does every Start with
  `watch.buffer <= 0` or a `stream_buffer_default` beyond the maximum, which
  validation lets pass;
* streams whose child has ended keep their slot until they are deleted
  (`ChildEnds` leaves `registered` alone, registry.go:72); the streams table is
  never written, so a killed daemon's children are found by nobody;
* Run's deferred close of stopWatch and cancel of the context run back to back
  after a normal return: the watcher may choose either, and kill what is left
  of the group;
* a child that ended well while a grandchild holds its output open past the
  deadline is reported as a timeout;
* unknown arguments are accepted where SRS.md:167 asks for a 400; JSON numbers
  from 1e6 on are rendered in exponent form, a null as `<nil>`;
* the 24 h lifetime of keys in ADR-0003 is not implemented: keys stay bound;
* `pgrep -f` finds any process whose command line names dispatcher-go.

## Not modelled

* `queue.Memory`: a test double of the same interface; the daemon never uses it.
* Listing and searching the catalog and the other read-only endpoints but
  `/v1/health`: they change nothing.
* Pids that are used again by strangers, capture limits and ParseJSON of
  `execx`, `pgroup_other.go` (systems without process groups).
* A clock that is set back; `Backoff` and `Circuit` move forward only.
* YAML itself and the rendering of values that are not strings; the address to
  listen on; flag parsing; directory set-up.
* Rotation and format of the log, HTTP framing and time-outs of the server.
* Tunnels, set-up scripts and documents: no state of the program.

## Plan

Done, in this order: `TaskStore`, `Breaker`, `Dispatcher`, `TaskLifecycle` and
their runs; `Outbox` with `TimeText`; `Circuit`; `Streams`; `Ring`;
`ProcessGroup` and `Child`; `Backoff`; `Startup`; `Catalog` and `Request`; the
proofs above.

Left: abstract specifications of the outbox (an ordered log, at least once) and
of the registry (a bounded set of slots), to be implemented by `Outbox` and
`Streams` as `TaskLifecycle` is by `Dispatcher`; the type invariants of the
modules whose safety proofs do without one.
