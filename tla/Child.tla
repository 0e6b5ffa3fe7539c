-------------------------------- MODULE Child --------------------------------
(***************************************************************************)
(* One child process and the goroutines that follow it: execx.Run          *)
(* (internal/execx/exec.go, pgroup_unix.go) with the goroutine that        *)
(* watches its context, or a stream's reader (readLoop in                  *)
(* internal/streams/registry.go) that fills the ring, with Kill and        *)
(* polling clients.                                                        *)
(*                                                                         *)
(* exec.CommandContext has a watcher of its own (CmdKill below), which     *)
(* kills the direct child as soon as the context is done; nothing orders   *)
(* it with the code's.                                                     *)
(***************************************************************************)
EXTENDS Integers, Sequences, ProcessGroup, Ring

CONSTANTS
    PipeCap     \* bound: lines in the pipe

ASSUME ChildAssumption == PipeCap \in Nat \ {0}

VARIABLES
    follower,       \* "run" or "stream"
    ctx,            \* "live", "deadline", "canceled", or "closed" by Run itself
    \* execx.Run
    timed,          \* timeout > 0
    at,             \* its next step
    watcher,        \* its goroutine: "armed", "fired" or "stopped"
    result,         \* "none", "ok", "error" or "timeout"
    missed,         \* ghost: the watcher fired before there was a process
    \* a stream
    unread, long,   \* in the pipe: lines, and whether one beyond 1 MB follows
    reader,         \* readLoop: "scan", "wait" or "done"
    scanErr,        \* Stream.err is set
    killer,         \* Kill: "idle", "signal" or "gone"
    written         \* ghost: lines written

context == <<follower, timed>>
run     == <<at, watcher, result, missed>>
pipe    == <<unread, long, written>>
loop    == <<reader, scanErr>>
stream  == <<pipe, loop, killer, ring, readers>>
childVars == <<tree, context, ctx, run, stream>>

ChildTypeOK ==
    /\ TreeTypeOK /\ TypeOK
    /\ follower \in {"run", "stream"}
    /\ ctx \in {"live", "deadline", "canceled", "closed"}
    /\ timed \in BOOLEAN
    /\ at \in {"check", "fork", "wait", "copy", "inspect", "stop", "cancel", "returned"}
    /\ watcher \in {"armed", "fired", "stopped"}
    /\ result \in {"none", "ok", "error", "timeout"}
    /\ missed \in BOOLEAN
    /\ unread \in 0 .. PipeCap /\ long \in BOOLEAN
    /\ reader \in {"scan", "wait", "done"}
    /\ scanErr \in BOOLEAN
    /\ killer \in {"idle", "signal", "gone"}
    /\ written \in Nat

(* Run is called; a stream has just been started. *)
ChildInit ==
    /\ Init
    /\ follower \in {"run", "stream"}
    /\ timed \in (IF follower = "run" THEN BOOLEAN ELSE {FALSE})
    /\ child = IF follower = "run" THEN "none" ELSE "running"
    /\ exit = "none" /\ kin = {}
    /\ ctx = "live"
    /\ at = "check" /\ watcher = "armed" /\ result = "none" /\ missed = FALSE
    /\ unread = 0 /\ long = FALSE /\ written = 0
    /\ reader = "scan" /\ scanErr = FALSE /\ killer = "idle"

-----------------------------------------------------------------------------
(* The child's side.                                                       *)

Live ==
    /\ ChildEnds \/ \E k \in Kin : Forks(k) \/ KinEnds(k)
    /\ UNCHANGED <<context, ctx, run, stream>>

WriteLine ==
    /\ follower = "stream" /\ PipeHeld
    /\ reader # "done" /\ ~long /\ unread < PipeCap
    /\ written < MaxPush
    /\ unread' = unread + 1
    /\ written' = written + 1
    /\ UNCHANGED <<tree, context, ctx, run, long, loop, killer, ring, readers>>

WriteLong ==
    /\ follower = "stream" /\ PipeHeld
    /\ reader # "done" /\ ~long
    /\ long' = TRUE
    /\ UNCHANGED <<tree, context, ctx, run, unread, written, loop, killer, ring, readers>>

-----------------------------------------------------------------------------
(* The context.                                                            *)

Deadline ==
    /\ follower = "run" /\ timed
    /\ ctx = "live"
    /\ ctx' = "deadline"
    /\ UNCHANGED <<tree, context, run, stream>>

(* SIGTERM, or the client of an inline execution hangs up. *)
CallerCancels ==
    /\ follower = "run"
    /\ ctx = "live"
    /\ ctx' = "canceled"
    /\ UNCHANGED <<tree, context, run, stream>>

(* os/exec's watcher, from Start until Wait has the child. *)
CmdKill ==
    /\ ctx # "live" /\ child = "running"
    /\ KillChild
    /\ UNCHANGED <<context, ctx, run, stream>>

-----------------------------------------------------------------------------
(* execx.Run                                                               *)

RunStep(from, to) ==
    /\ follower = "run"
    /\ at = from
    /\ at' = to
    /\ UNCHANGED <<context, watcher, missed, stream>>

(* cmd.Start looks at the context first. *)
Check ==
    /\ RunStep("check", IF ctx = "live" THEN "fork" ELSE "inspect")
    /\ UNCHANGED <<tree, ctx, result>>

Fork ==
    /\ RunStep("fork", "wait")
    /\ child' = "running"
    /\ UNCHANGED <<exit, kin, ctx, result>>

(* No such program. *)
ForkFails ==
    /\ RunStep("fork", "inspect")
    /\ UNCHANGED <<tree, ctx, result>>

(* cmd.Wait: first the child... *)
Wait ==
    /\ RunStep("wait", "copy")
    /\ Reap
    /\ UNCHANGED <<ctx, result>>

(* ...then the goroutines that copy its output; there is no WaitDelay. *)
Copied ==
    /\ RunStep("copy", "inspect")
    /\ ~PipeHeld
    /\ UNCHANGED <<tree, ctx, result>>

(* killProcessGroup: by the group of the pid or, once the child is reaped, by
   the pid, which is that of the group. *)
killProcessGroup == IF child = "none" THEN UNCHANGED tree ELSE KillGroup

Outcome == IF exit = "ok" THEN "ok" ELSE "error"

(* Mutant: the belt is left off. *)
Inspect_NoBelt ==
    /\ RunStep("inspect", "stop")
    /\ result' = IF ctx = "deadline" THEN "timeout" ELSE Outcome
    /\ UNCHANGED <<tree, ctx>>

(* The result; after a timeout the group is killed once more. *)
Inspect ==
    /\ RunStep("inspect", "stop")
    /\ IF ctx = "deadline"
       THEN killProcessGroup /\ result' = "timeout"
       ELSE UNCHANGED tree /\ result' = Outcome
    /\ UNCHANGED ctx

(* The deferred calls: close(stopWatch), then cancel. *)
Stop ==
    /\ RunStep("stop", "cancel")
    /\ UNCHANGED <<tree, ctx, result>>

Cancel ==
    /\ RunStep("cancel", "returned")
    /\ ctx' = IF timed /\ ctx = "live" THEN "closed" ELSE ctx
    /\ UNCHANGED <<tree, result>>

(* Mutant: the child alone is killed. *)
WatcherKills_Child ==
    /\ follower = "run" /\ watcher = "armed"
    /\ ctx # "live"
    /\ watcher' = "fired"
    /\ missed' = (at \in {"check", "fork"})
    /\ KillChild
    /\ UNCHANGED <<context, ctx, at, result, stream>>

(* Where there is no process yet there is nothing to kill, and the watcher is
   gone all the same. *)
WatcherKills ==
    /\ follower = "run" /\ watcher = "armed"
    /\ ctx # "live"
    /\ watcher' = "fired"
    /\ missed' = (at \in {"check", "fork"})
    /\ killProcessGroup
    /\ UNCHANGED <<context, ctx, at, result, stream>>

(* Of two channels that are ready, select takes either. *)
WatcherStops ==
    /\ follower = "run" /\ watcher = "armed"
    /\ at \in {"cancel", "returned"}
    /\ watcher' = "stopped"
    /\ UNCHANGED <<tree, context, ctx, at, result, missed, stream>>

-----------------------------------------------------------------------------
(* A stream                                                                *)

(* One line from the pipe into the ring. *)
Scan ==
    /\ follower = "stream" /\ reader = "scan"
    /\ unread > 0
    /\ unread' = unread - 1
    /\ Push
    /\ UNCHANGED <<tree, context, ctx, run, long, written, loop, killer>>

(* The scanner gives up at a line it cannot hold. *)
ScanFails ==
    /\ follower = "stream" /\ reader = "scan"
    /\ unread = 0 /\ long
    /\ scanErr' = TRUE
    /\ reader' = "wait"
    /\ UNCHANGED <<tree, context, ctx, run, pipe, killer, ring, readers>>

(* Mutant: the reader stops with the child instead of the pipe. *)
ScanEnds_WithChild ==
    /\ follower = "stream" /\ reader = "scan"
    /\ child # "running"
    /\ reader' = "wait"
    /\ UNCHANGED <<tree, context, ctx, run, pipe, scanErr, killer, ring, readers>>

(* End of file. *)
ScanEnds ==
    /\ follower = "stream" /\ reader = "scan"
    /\ unread = 0 /\ ~long /\ ~PipeHeld
    /\ reader' = "wait"
    /\ UNCHANGED <<tree, context, ctx, run, pipe, scanErr, killer, ring, readers>>

(* cmd.Wait, then the pipe is closed and done with it. *)
ReaderDone ==
    /\ follower = "stream" /\ reader = "wait"
    /\ Reap
    /\ reader' = "done"
    /\ UNCHANGED <<context, ctx, run, pipe, scanErr, killer, ring, readers>>

(* Kill, by whoever deletes the stream: the context first... *)
KillCancels ==
    /\ follower = "stream" /\ killer = "idle"
    /\ killer' = "signal"
    /\ ctx' = "canceled"
    /\ UNCHANGED <<tree, context, run, pipe, loop, ring, readers>>

(* Mutant: only the direct child is killed. *)
KillSignals_Child ==
    /\ follower = "stream" /\ killer = "signal"
    /\ KillChild
    /\ killer' = "gone"
    /\ UNCHANGED <<context, ctx, run, pipe, loop, ring, readers>>

(* ...then the group, if the child still has one: Getpgid knows a zombie, not
   a reaped child, and os.Process.Kill does nothing to that either.  The wait
   of at most 2 s for the reader that follows has no effect. *)
KillSignals ==
    /\ follower = "stream" /\ killer = "signal"
    /\ IF child = "reaped" THEN UNCHANGED tree ELSE KillGroup
    /\ killer' = "gone"
    /\ UNCHANGED <<context, ctx, run, pipe, loop, ring, readers>>

ClientPolls ==
    /\ follower = "stream"
    /\ \E r \in Reader : Poll(r) \/ Answer(r) \/ Again(r)
    /\ UNCHANGED <<tree, context, ctx, run, pipe, loop, killer>>

-----------------------------------------------------------------------------
Run     == Check \/ Fork \/ ForkFails \/ Wait \/ Copied \/ Inspect \/ Stop \/ Cancel
Watcher == WatcherKills \/ WatcherStops
ReadLoop == Scan \/ ScanFails \/ ScanEnds \/ ReaderDone

ChildNext ==
    \/ Live \/ WriteLine \/ WriteLong
    \/ Deadline \/ CallerCancels \/ CmdKill
    \/ Run \/ Watcher
    \/ ReadLoop \/ KillCancels \/ KillSignals \/ ClientPolls

ChildSpec == ChildInit /\ [][ChildNext]_childVars

(* Goroutines are scheduled and deadlines pass.  Processes need not end,
   write, or leave anything; nobody need kill a stream. *)
FairSpec ==
    /\ ChildSpec
    /\ WF_childVars(Deadline) /\ WF_childVars(CmdKill)
    /\ WF_childVars(Run) /\ WF_childVars(Watcher)
    /\ WF_childVars(ReadLoop) /\ WF_childVars(KillSignals)

-----------------------------------------------------------------------------
(* Properties of Run.                                                      *)

(* Once Run reports a timeout nothing of the child's group is left, whatever
   it forked and whichever watcher came first. *)
TimedOutGroupDead == result = "timeout" => ~GroupLives

(* Liveness: a Run with a deadline returns, though the child ignores
   everything and its descendants hold its output open -- unless one of them
   has left the group and never ends, or the watcher came too early. *)
RunReturns == ([]<>~Escaped) /\ ([]~missed) => (timed ~> at = "returned")

(* (Fails.)  The same when the context is done between the look at it and the
   fork: only the direct child is killed then, and Run waits for whatever the
   child has forked meanwhile. *)
RunAlwaysReturns == ([]<>~Escaped) => (timed ~> at = "returned")

(* (Fails.)  "If the context expires (one-shot timeout or caller cancel) ...
   kill the whole process group promptly so orphaned grandchildren don't
   survive" (exec.go:55-57): a child killed for its caller's cancellation
   leaves nothing in its group once Run and watcher are through. *)
CanceledGroupDead ==
    at = "returned" /\ watcher # "armed" /\ ctx = "canceled" /\ exit = "killed" =>
        ~GroupLives

-----------------------------------------------------------------------------
(* Properties of a stream.                                                 *)

(* Whatever is written before the pipe closes reaches the ring, whoever wrote
   it and however the child ended, but for what follows an overlong line. *)
NoLineLost == reader # "scan" /\ ~scanErr => next = written

(* After Kill no member of the group is left that could write to the stream,
   also when the child had ended long before.  (After an overlong line the
   reader no longer waits for writers, and the promise is void.) *)
KillSilences ==
    killer = "gone" /\ ~scanErr =>
        child # "running" /\ ~ \E k \in kin : k.grouped /\ k.holds

(* Liveness: the reader of a killed stream ends and reaps the child -- after
   an overlong line, too -- unless the pipe is held beyond the group. *)
ReaderEnds == ([]<>~Escaped) => (killer = "gone" ~> reader = "done")

(* (Fails.)  "Delete kills the process group" (registry.go:234; SRS NFR-2):
   nothing of it is left after Kill. *)
DeletedGroupDead == killer = "gone" => ~GroupLives

(* What a client sees of the ring while the reader fills it: a poll misses
   nothing that is still buffered and never contradicts itself. *)
PollsFaithful == PollComplete /\ BufferedCovers
=============================================================================
