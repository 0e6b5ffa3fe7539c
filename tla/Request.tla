------------------------------- MODULE Request -------------------------------
(***************************************************************************)
(* From the catalog and a POST to what is stored in the task's row: load,  *)
(* lookup, expandArgv with subst (internal/api/server.go), redaction       *)
(* (internal/approve/redact.go), and the budget of retries on its way from *)
(* the file to the worker.  subst goes over a token again and again, so    *)
(* that its turns are steps here.                                          *)
(***************************************************************************)
EXTENDS Catalog

CONSTANTS
    File,       \* the catalogs that may be found
    Post,       \* the requests: [name, args, stdin], args mapping names to texts
    Simple,     \* the names without '.', '/', braces and blanks
    Marker      \* approve.RedactedMarker

ASSUME RequestAssumption ==
    /\ Simple \subseteq Name
    /\ \A f \in File : \A v \in Elements(f.verbs) :
          v.argv \in Seq(Text) /\ v.args \in Seq(ArgSpecs)

VARIABLES
    file,
    at,         \* "load", "serve", "subst", "assemble"; "exit", "unknown", "invalid", "accepted"
    verb, args, stdin,      \* the request
    done,       \* tokens expanded so far: [out, fields]
    out, fields,            \* the one in hand, and what was put into it
    argv,       \* the row's argv: [pos, out, red], red being argv_redacted's
    budget      \* the row's max_retries

request == <<verb, args, stdin>>
vars == <<file, at, request, done, out, fields, argv, budget>>

Init ==
    /\ file \in File
    /\ at = "load"
    /\ verb = Unset /\ args = <<>> /\ stdin = <<>>
    /\ done = <<>> /\ out = <<>> /\ fields = {}
    /\ argv = <<>> /\ budget = 0

-----------------------------------------------------------------------------
daemon == applyDaemonDefaults(file.daemon)

(* verbs.Load in main; an error ends the daemon. *)
Load ==
    /\ at = "load"
    /\ at' = IF Parse(file) THEN "serve" ELSE "exit"
    /\ UNCHANGED <<file, request, done, out, fields, argv, budget>>

Without(f, x) == [n \in DOMAIN f \ {x} |-> f[n]]

MaxRetries(v) == IF v.retries = Unset THEN daemon["max_retries"] ELSE v.retries

(* The stdin argument goes before anything is required. *)
Accept(v, r) ==
    LET given == Without(r.args, v.stdin_arg)
    IN  /\ verb' = v /\ args' = given /\ stdin' = r.stdin
        /\ at' = IF \E a \in Elements(v.args) : a.required /\ a.name \notin DOMAIN given
                 THEN "invalid" ELSE "subst"
        /\ out' = v.argv[1] /\ fields' = {}
        /\ budget' = MaxRetries(v)

handlePostVerb ==
    /\ at = "serve"
    /\ \E r \in Post :
          \/ \E v \in Get(file.verbs, r.name) : Accept(v, r)
          \/ /\ Get(file.verbs, r.name) = {}
             /\ at' = "unknown"
             /\ UNCHANGED <<request, out, fields, budget>>
    /\ UNCHANGED <<file, done, argv>>

-----------------------------------------------------------------------------
Places == {k \in DOMAIN out : out[k] \in Name}

(* subst: the first placeholder gives way to its value, which is scanned like
   the rest. *)
Replace ==
    /\ at = "subst"
    /\ \E k \in Places :
          /\ \A m \in Places : k <= m
          /\ out' = SubSeq(out, 1, k - 1)
                      \o (IF out[k] \in DOMAIN args THEN args[out[k]] ELSE <<>>)
                      \o SubSeq(out, k + 1, Len(out))
          /\ fields' = fields \cup {out[k]}
    /\ UNCHANGED <<file, at, request, done, argv, budget>>

NextToken ==
    /\ at = "subst" /\ Places = {}
    /\ done' = Append(done, [out |-> out, fields |-> fields])
    /\ fields' = {}
    /\ IF Len(done') < Len(verb.argv)
       THEN at' = at /\ out' = verb.argv[Len(done') + 1]
       ELSE at' = "assemble" /\ out' = <<>>
    /\ UNCHANGED <<file, request, argv, budget>>

(* The last entry of that name. *)
ArgSpec(n) ==
    LET K == {k \in DOMAIN verb.args : verb.args[k].name = n}
    IN  verb.args[CHOOSE k \in K : \A m \in K : m <= k]

Known(n) == \E a \in Elements(verb.args) : a.name = n

(* Of the names that subst fills in, not all are told to be one. *)
solePlaceholder(text) == Len(text) = 1 /\ text[1] \in Simple

(* A token that is one placeholder, optional, with nothing to show. *)
Empty(k) ==
    /\ solePlaceholder(verb.argv[k])
    /\ done[k].out = <<>>
    /\ Known(verb.argv[k][1]) /\ ~ArgSpec(verb.argv[k][1]).required

Drop_KeepsFlag(k) == Empty(k)       \* Mutant: the flag stays.

(* It goes, and so does its flag if that comes just before it, word for word. *)
Drop(k) ==
    \/ Empty(k)
    \/ /\ k < Len(verb.argv) /\ Empty(k + 1)
       /\ verb.argv[k] = ArgSpec(verb.argv[k + 1][1]).flag
       /\ verb.argv[k] # <<>> /\ done[k].fields = {}

Contains(text, part) ==
    \E k \in 1 .. (Len(text) - Len(part) + 1) : SubSeq(text, k, k + Len(part) - 1) = part

Secret == {verb.stdin_arg} \ {Unset}        \* approve.SecretFields

Redacted(k) ==
    IF done[k].fields \cap Secret # {} \/ (stdin # <<>> /\ Contains(done[k].out, stdin))
    THEN Marker ELSE done[k].out

Token(k) == [pos |-> k, out |-> done[k].out, red |-> Redacted(k)]

(* What is left of the first k tokens, for all of them. *)
Remaining ==
    LET left[k \in 0 .. Len(done)] ==
            IF k = 0 THEN <<>>
            ELSE IF Drop(k) THEN left[k - 1]
            ELSE Append(left[k - 1], Token(k))
    IN  left[Len(done)]

Assemble ==
    /\ at = "assemble"
    /\ argv' = Remaining
    /\ at' = "accepted"
    /\ UNCHANGED <<file, request, done, out, fields, budget>>

Next == Load \/ handlePostVerb \/ Replace \/ NextToken \/ Assemble

Spec == Init /\ [][Next]_vars

FairSpec == Spec /\ WF_vars(Next)

-----------------------------------------------------------------------------
Kept(k) == \E t \in Elements(argv) : t.pos = k

(* Whatever is left out for want of a value, the program itself stays, first
   in line: what the catalog is checked for is what expansion relies on. *)
BinaryKept ==
    at = "accepted" => argv # <<>> /\ argv[1].pos = 1 /\ argv[1].out = verb.argv[1]

(* A flag and its argument stay or go together: they go if the argument is
   optional and renders as nothing, however its value came about, and if its
   name is one that solePlaceholder takes; else both stay, be there a value or
   not.  (A flag that is itself a template always stays.) *)
PairsWhole ==
    at = "accepted" =>
        \A n \in Name, k \in 1 .. (Len(verb.argv) - 1) :
            LET a == ArgSpec(n)
            IN  /\ Known(n) /\ Dash(a.flag) /\ Elements(a.flag) \cap Name = {}
                /\ verb.argv[k] = a.flag /\ verb.argv[k + 1] = <<n>>
                =>
                    /\ Kept(k) <=> Kept(k + 1)
                    /\ Kept(k + 1) <=>
                           (a.required \/ n \notin Simple \/ done[k + 1].out # <<>>)

(* (Fails.)  "Missing optional args are omitted flag-and-all, never passed as
   empty strings" (OPERATOR_GUIDE.md:41-42): one whose name is not simple is
   passed with its flag, as an empty string. *)
MissingOmitted ==
    at = "accepted" =>
        \A k \in DOMAIN verb.argv, n \in Name :
            verb.argv[k] = <<n>> /\ Known(n) /\ ~ArgSpec(n).required /\ n \notin DOMAIN args
            => ~Kept(k)

(* What the worker takes for the budget (worker.go:146-149); inline execution
   takes the row's as it is. *)
Effective == IF budget = 0 THEN daemon["max_retries"] ELSE budget

(* What the file asks for. *)
Wanted ==
    IF verb.retries # Unset THEN verb.retries
    ELSE IF file.daemon["max_retries"] # Unset THEN file.daemon["max_retries"]
    ELSE Default["max_retries"]

(* The retries a file asks for are those the worker grants, an explicit 0 of
   the daemon's included. *)
BudgetHonored == at = "accepted" /\ verb.retries # 0 => Effective = Wanted

(* (Fails.)  Nor is an explicit 0 of a verb any different (verbs.go:184-186). *)
BudgetAlwaysHonored == at = "accepted" => Effective = Wanted

(* (Fails.)  Liveness: an expansion ends.  A value that names the placeholder
   of its own argument is put in its place for ever. *)
ExpansionEnds == at = "subst" ~> at = "accepted"

(* (Fails.)  What stdin carries is in neither of the two columns meant for
   other eyes ("redaction total", SRS NFR-1): the arguments are stored with
   their secret fields masked, but for another one with the same text. *)
StdinUnseen ==
    at = "accepted" /\ stdin # <<>> =>
        /\ \A t \in Elements(argv) : ~Contains(t.red, stdin)
        /\ \A n \in DOMAIN args : n \in Secret \/ ~Contains(args[n], stdin)

(* (Fails.)  A verb that can be loaded can be called: one that requires its
   stdin argument cannot. *)
EveryVerbCallable ==
    at = "invalid" => ~ \E a \in Elements(verb.args) : a.required /\ a.name = verb.stdin_arg
=============================================================================
