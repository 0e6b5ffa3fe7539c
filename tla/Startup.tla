------------------------------ MODULE Startup -------------------------------
(***************************************************************************)
(* From the start scripts to a serving daemon: scripts/01-start-agent,     *)
(* scripts/02-agent-watchdog, main.run, auth.LoadOrCreate and the bind in  *)
(* ListenAndServe.  Several scripts may start several daemons, which share *)
(* the token file, the port and the tables; of the latter one row is       *)
(* enough here.  Requests and the rest of the store are Dispatcher's.      *)
(***************************************************************************)
EXTENDS Naturals

CONSTANTS
    Script,         \* shells that may start a daemon
    Proc,           \* daemons
    NoProc,
    MaxKills,       \* bound: daemons killed from outside
    MaxFaults       \* bound: failing writes

ASSUME StartupAssumption ==
    /\ NoProc \notin Proc
    /\ MaxKills \in Nat /\ MaxFaults \in Nat

VARIABLES
    file,       \* .agent-token: "absent", "empty" or "secret"
    secret,     \* what it holds if it holds a secret
    owner600,   \* its mode shows it to nobody else
    script,     \* "idle", or "clear": pgrep has found no daemon
    at,         \* main.run's next step
    token,      \* the secret a daemon answers to
    port,       \* the daemon that has bound it
    row,        \* a task: "none", "pending", "executing"
    runner,     \* the daemons whose worker is executing it
    torn,       \* ghost: a daemon went away between creating the file and writing it
    minted, kills, faults       \* ghost, bounds

tokenFile == <<file, secret, owner600>>
task      == <<row, runner>>
bounds    == <<torn, minted, kills, faults>>
vars == <<tokenFile, script, at, token, port, task, bounds>>

Step == {"off", "read", "create", "write", "resume", "listen", "serve"}

StartupTypeOK ==
    /\ file \in {"absent", "empty", "secret"}
    /\ secret \in Nat /\ owner600 \in BOOLEAN
    /\ script \in [Script -> {"idle", "clear"}]
    /\ at \in [Proc -> Step]
    /\ token \in [Proc -> Nat]
    /\ port \in Proc \cup {NoProc}
    /\ row \in {"none", "pending", "executing"}
    /\ runner \subseteq Proc
    /\ torn \in BOOLEAN
    /\ minted \in Nat /\ kills \in Nat /\ faults \in Nat

(* A first boot, or one that finds a token, which somebody may have made
   readable for others (a restored backup, say). *)
Init ==
    /\ file \in {"absent", "secret"}
    /\ secret = 0
    /\ owner600 \in (IF file = "absent" THEN {TRUE} ELSE BOOLEAN)
    /\ script = [s \in Script |-> "idle"]
    /\ at = [p \in Proc |-> "off"]
    /\ token = [p \in Proc |-> 0]
    /\ port = NoProc
    /\ row = "none" /\ runner = {}
    /\ torn = FALSE /\ minted = 0 /\ kills = 0 /\ faults = 0

Go(p, from, to) == at[p] = from /\ at' = [at EXCEPT ![p] = to]

-----------------------------------------------------------------------------
(* The scripts: look for a process, then start one.                        *)

Pgrep(s) ==
    /\ script[s] = "idle"
    /\ \A p \in Proc : at[p] = "off"
    /\ script' = [script EXCEPT ![s] = "clear"]
    /\ UNCHANGED <<tokenFile, at, token, port, task, bounds>>

Launch(s) ==
    /\ script[s] = "clear"
    /\ script' = [script EXCEPT ![s] = "idle"]
    /\ \E p \in Proc : Go(p, "off", "read")
    /\ UNCHANGED <<tokenFile, token, port, task, bounds>>

-----------------------------------------------------------------------------
(* LoadOrCreate                                                            *)

(* An end of any kind: the kernel frees the port, the worker goes, its row
   stays as it is. *)
Gone(p) ==
    /\ at' = [at EXCEPT ![p] = "off"]
    /\ port' = IF port = p THEN NoProc ELSE port
    /\ runner' = runner \ {p}
    /\ UNCHANGED <<tokenFile, script, token, row, minted>>

ReadToken(p) ==
    /\ \/ file = "absent" /\ Go(p, "read", "create") /\ UNCHANGED token
       \/ /\ file = "secret" /\ owner600
          /\ Go(p, "read", "resume")
          /\ token' = [token EXCEPT ![p] = secret]
    /\ UNCHANGED <<tokenFile, script, port, task, bounds>>

(* Empty, or readable for others: main exits. *)
ReadRefused(p) ==
    /\ at[p] = "read"
    /\ file = "empty" \/ (file = "secret" /\ ~owner600)
    /\ Gone(p)
    /\ UNCHANGED <<torn, kills, faults>>

(* Mutant: whatever is there is truncated. *)
CreateToken_Truncates(p) ==
    /\ Go(p, "create", "write")
    /\ file' = "empty"
    /\ UNCHANGED <<secret, owner600, script, token, port, task, bounds>>

(* O_CREATE|O_EXCL, 0600. *)
CreateToken(p) ==
    /\ file = "absent"
    /\ Go(p, "create", "write")
    /\ file' = "empty"
    /\ UNCHANGED <<secret, owner600, script, token, port, task, bounds>>

CreateRefused(p) ==
    /\ at[p] = "create" /\ file # "absent"
    /\ Gone(p)
    /\ UNCHANGED <<torn, kills, faults>>

(* Mutant: the secret is kept in memory alone. *)
WriteToken_Forgets(p) ==
    /\ Go(p, "write", "resume")
    /\ minted' = minted + 1
    /\ token' = [token EXCEPT ![p] = minted']
    /\ UNCHANGED <<tokenFile, script, port, task, torn, kills, faults>>

WriteToken(p) ==
    /\ Go(p, "write", "resume")
    /\ minted' = minted + 1
    /\ file' = "secret" /\ secret' = minted'
    /\ token' = [token EXCEPT ![p] = minted']
    /\ UNCHANGED <<owner600, script, port, task, torn, kills, faults>>

(* The disk is full, say: main exits, the file stays behind. *)
WriteFails(p) ==
    /\ at[p] = "write"
    /\ faults < MaxFaults
    /\ faults' = faults + 1
    /\ torn' = TRUE
    /\ Gone(p)
    /\ UNCHANGED kills

-----------------------------------------------------------------------------
(* The rest of main                                                        *)

(* Mutant: rows of an earlier daemon are left as they are. *)
Resume_Skips(p) ==
    /\ Go(p, "resume", "listen")
    /\ UNCHANGED <<tokenFile, script, token, port, task, bounds>>

(* queue.Resume, then go w.Run. *)
Resume(p) ==
    /\ Go(p, "resume", "listen")
    /\ row' = IF row = "executing" THEN "pending" ELSE row
    /\ UNCHANGED <<tokenFile, script, token, port, runner, bounds>>

Listen(p) ==
    /\ port = NoProc
    /\ Go(p, "listen", "serve")
    /\ port' = p
    /\ UNCHANGED <<tokenFile, script, token, task, bounds>>

(* The address is in use: main exits. *)
ListenRefused(p) ==
    /\ at[p] = "listen" /\ port # NoProc
    /\ Gone(p)
    /\ UNCHANGED <<torn, kills, faults>>

(* A client of a daemon that serves. *)
Post ==
    /\ port # NoProc
    /\ row = "none"
    /\ row' = "pending"
    /\ UNCHANGED <<tokenFile, script, at, token, port, runner, bounds>>

(* The worker polls from before the bind. *)
Claim(p) ==
    /\ at[p] \in {"listen", "serve"}
    /\ p \notin runner
    /\ row = "pending"
    /\ row' = "executing"
    /\ runner' = runner \cup {p}
    /\ UNCHANGED <<tokenFile, script, at, token, port, bounds>>

(* Whatever state it finds, the worker writes its own. *)
Settle(p) ==
    /\ p \in runner
    /\ row' = "none"
    /\ runner' = runner \ {p}
    /\ UNCHANGED <<tokenFile, script, at, token, port, bounds>>

Kill(p) ==
    /\ at[p] # "off"
    /\ kills < MaxKills
    /\ kills' = kills + 1
    /\ torn' = (torn \/ at[p] = "write")
    /\ Gone(p)
    /\ UNCHANGED faults

-----------------------------------------------------------------------------
Main(p) ==
    \/ ReadToken(p) \/ ReadRefused(p)
    \/ CreateToken(p) \/ CreateRefused(p) \/ WriteToken(p)
    \/ Resume(p) \/ Listen(p) \/ ListenRefused(p)

Next ==
    \/ \E s \in Script : Pgrep(s) \/ Launch(s)
    \/ \E p \in Proc : Main(p) \/ WriteFails(p) \/ Claim(p) \/ Settle(p) \/ Kill(p)
    \/ Post

Spec == Init /\ [][Next]_vars

(* The watchdog looks every minute; what it starts runs, worker included. *)
FairSpec ==
    /\ Spec
    /\ \A s \in Script : WF_vars(Pgrep(s) \/ Launch(s))
    /\ \A p \in Proc : WF_vars(Main(p)) /\ WF_vars(Claim(p) \/ Settle(p))

-----------------------------------------------------------------------------
(* The token in the file, which clients read, is the one a daemon answers
   to, from the first boot on and whoever races for it. *)
TokenStable ==
    \A p \in Proc : at[p] \in {"resume", "listen", "serve"} =>
        file = "secret" /\ token[p] = secret

(* Liveness: a daemon that goes away is replaced by one that serves, unless
   the token file is readable for others or was left without its secret. *)
Serves == owner600 /\ ([]~torn) => []<>(port # NoProc)

(* (Fails.)  The same whenever a kill may fall: a file created and not yet
   written is refused by every later boot. *)
ServesAfterKill == owner600 => []<>(port # NoProc)

Rivals == \E p, q \in Proc : p # q /\ at[p] # "off" /\ at[q] # "off"

(* Liveness: a task survives any number of restarts, as long as no two daemons
   are up together. *)
TaskSettles ==
    owner600 /\ ([]~torn) /\ ([]~Rivals) => (row # "none" ~> row = "none")

(* (Fails.)  The same with rivals: the one that cannot bind the port leaves
   what it has claimed to nobody, and the one that serves never looks. *)
TaskSettlesAnyway == owner600 /\ ([]~torn) => (row # "none" ~> row = "none")

(* (Fails.)  "avoid duplicate if already running" (scripts/01-start-agent:23):
   no two daemons execute a task at the same time. *)
OneRunner == \A p, q \in runner : p = q
=============================================================================
