---------------------------- MODULE ProcessGroup ----------------------------
(***************************************************************************)
(* A child process started in a group of its own (Setpgid), and what it    *)
(* leaves behind.  This is the kernel's part and os/exec's, as             *)
(* internal/execx and internal/streams rely on it.                         *)
(*                                                                         *)
(* Descendants are told apart by what the daemon can do about them: a      *)
(* signal to the group reaches the grouped ones (setsid takes a process    *)
(* out for good), and a read of the child's output does not end before     *)
(* the last holder of the pipe has.                                        *)
(***************************************************************************)

VARIABLES
    child,      \* "none", "running", "zombie" (ended, not waited for), "reaped"
    exit,       \* how it ended: "none", "ok", "bad" or "killed"
    kin         \* kinds of descendants alive

tree == <<child, exit, kin>>

Kin == [grouped : BOOLEAN, holds : BOOLEAN]

TreeTypeOK ==
    /\ child \in {"none", "running", "zombie", "reaped"}
    /\ exit \in {"none", "ok", "bad", "killed"}
    /\ kin \in SUBSET Kin

PipeHeld   == child = "running" \/ \E k \in kin : k.holds
GroupLives == child = "running" \/ \E k \in kin : k.grouped

(* A process beyond the group that keeps the pipe open. *)
Escaped == \E k \in kin : k.holds /\ ~k.grouped

(* A descendant has no more than its parent had. *)
Forks(k) ==
    /\ \/ child = "running"
       \/ \E p \in kin : (k.grouped => p.grouped) /\ (k.holds => p.holds)
    /\ kin' = kin \cup {k}
    /\ UNCHANGED <<child, exit>>

KinEnds(k) ==
    /\ k \in kin
    /\ kin' = kin \ {k}
    /\ UNCHANGED <<child, exit>>

ChildEnds ==
    /\ child = "running"
    /\ child' = "zombie"
    /\ exit' \in {"ok", "bad"}
    /\ UNCHANGED kin

(* SIGKILL to the child alone: it leaves orphans. *)
ChildKilled ==
    /\ child' = IF child = "running" THEN "zombie" ELSE child
    /\ exit' = IF child = "running" THEN "killed" ELSE exit

KillChild == ChildKilled /\ UNCHANGED kin

(* SIGKILL to the group; without effect where there is no group any more. *)
KillGroup == ChildKilled /\ kin' = {k \in kin : ~k.grouped}

(* wait4: the child's pid and exit status are given back. *)
Reap ==
    /\ child = "zombie"
    /\ child' = "reaped"
    /\ UNCHANGED <<exit, kin>>
=============================================================================
