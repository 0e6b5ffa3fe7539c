------------------------------- MODULE Catalog -------------------------------
(***************************************************************************)
(* verbs.yaml: what Parse accepts (internal/verbs/verbs.go, with           *)
(* internal/config and internal/termuxallow), and Catalog.Get.             *)
(*                                                                         *)
(* A text (an argv token, a flag, the rendering of a value) is a sequence  *)
(* of pieces.  A piece is the placeholder of an argument, written as the   *)
(* argument's name, or literal: of the literals only those that start with *)
(* '-' or '=' are told apart, and none holds a brace.                      *)
(***************************************************************************)
EXTENDS Integers, Sequences

CONSTANTS
    Name,       \* arguments: any name but "", with a '.' or a blank in it, too
    Flag,       \* pieces that start with '-'
    Equals,     \* pieces that start with '='
    Literal,    \* other pieces
    VerbName,   \* non-empty names without blanks
    Alias,      \* Catalog.Aliases: [some names -> VerbName]
    Binaries,   \* [name -> [mutating : BOOLEAN, flags : SUBSET Flag, writes : SUBSET Flag]]
    Setting,    \* the numeric keys of daemon: but max_retries
    Default,    \* config.Default: [Setting \cup {"max_retries"} -> Nat]
    Unset       \* a key that is left out

ASSUME CatalogAssumption ==
    /\ Unset \notin Int
    /\ "max_retries" \notin Setting
    /\ Name \cap (Flag \cup Literal) = {} /\ Flag \cap Literal = {}
    /\ DOMAIN Binaries \subseteq Literal

Text == Seq(Name \cup Flag \cup Equals \cup Literal)
ArgSpecs == [name : Name \cup {""}, flag : Text, required : BOOLEAN]

Elements(s) == {s[k] : k \in DOMAIN s}

-----------------------------------------------------------------------------
(* The daemon block.  It is decoded over the defaults; of the keys that are
   set to 0 all but max_retries get theirs again. *)

Decoded(d, k) == IF d[k] = Unset THEN Default[k] ELSE d[k]

(* Mutant: 0 means unset for max_retries, too. *)
applyDaemonDefaults_Zero(d) ==
    [k \in Setting \cup {"max_retries"} |->
        IF Decoded(d, k) = 0 THEN Default[k] ELSE Decoded(d, k)]

applyDaemonDefaults(d) ==
    [k \in Setting \cup {"max_retries"} |->
        IF k \in Setting /\ Decoded(d, k) = 0 THEN Default[k] ELSE Decoded(d, k)]

Validate(d) ==
    /\ d["max_retries"] >= 0
    /\ \A k \in Setting : d[k] > 0

-----------------------------------------------------------------------------
(* A verb: [name, tier, argv, args, stdin_arg, timeout_s, retries, parser, *)
(* watch], args being a sequence of [name, flag, required].                *)

Dash(text) == text # <<>> /\ text[1] \in Flag

isTemplate(text) ==
    text # <<>> /\ text[1] \in Name /\ text[Len(text)] \in Name

(* '=' ends the flag. *)
IsFlag(text, flags) ==
    text[1] \in flags /\ (Len(text) = 1 \/ text[2] \in Equals)

ValidateArgv(argv) ==
    /\ argv # <<>>
    /\ \E b \in DOMAIN Binaries :
          /\ argv[1] = <<b>>
          /\ \A k \in 2 .. Len(argv) :
                Dash(argv[k]) /\ ~isTemplate(argv[k]) => IsFlag(argv[k], Binaries[b].flags)

(* Tier A neither names a mutating binary nor uses a flag that writes. *)
OnlyReads(argv) ==
    LET b == argv[1][1]
    IN  /\ ~Binaries[b].mutating
        /\ \A k \in 2 .. Len(argv) :
              ~(Dash(argv[k]) /\ IsFlag(argv[k], Binaries[b].writes))

StreamBinary == [n \in {"location.stream", "sensor.stream"} |->
    IF n = "location.stream" THEN "termux-location" ELSE "termux-sensor"]

(* watch: [kind, keys, mode], kind "nil", "bool", "map" or anything else, which
   does not decode; a bool must be false. *)
validateWatch(v) ==
    \/ v.watch.kind = "nil"
    \/ v.watch.kind = "bool" /\ v.watch.mode = "false"
    \/ /\ v.watch.kind = "map" /\ v.watch.keys \subseteq {"mode", "buffer"}
       /\ v.watch.mode = "stream"
       /\ v.name \in DOMAIN StreamBinary
       /\ v.argv[1] = <<StreamBinary[v.name]>>

validateArgs_AnyFlag(v) ==      \* Mutant: flags are taken as they are.
    /\ \A a \in Elements(v.args) : a.name # ""
    /\ v.stdin_arg # ""

validateArgs(v) ==
    /\ \A a \in Elements(v.args) : a.name # "" /\ (a.flag # <<>> => Dash(a.flag))
    /\ v.stdin_arg # ""

validateVerb(v) ==
    /\ v.name \in VerbName
    /\ v.tier \in {"A", "B"}
    /\ ValidateArgv(v.argv)
    /\ v.tier = "A" => OnlyReads(v.argv)
    /\ v.timeout_s >= 0
    /\ v.retries = Unset \/ v.retries >= 0
    /\ v.parser \in {"json", "text", "exit", ""}
    /\ validateWatch(v)
    /\ validateArgs(v)

(* A file: [version, daemon, verbs]. *)
Parse(f) ==
    /\ f.version = 1
    /\ Validate(applyDaemonDefaults(f.daemon))
    /\ f.verbs # <<>>
    /\ \A k \in DOMAIN f.verbs : validateVerb(f.verbs[k])
    /\ \A k, m \in DOMAIN f.verbs : f.verbs[k].name = f.verbs[m].name => k = m

-----------------------------------------------------------------------------
Named(verbs, name) == {v \in Elements(verbs) : v.name = name}

(* Catalog.Get: the verb of that name, or the one the name is an alias of. *)
Get(verbs, name) ==
    IF Named(verbs, name) # {} THEN Named(verbs, name)
    ELSE IF name \in DOMAIN Alias THEN Named(verbs, Alias[name])
    ELSE {}
=============================================================================
