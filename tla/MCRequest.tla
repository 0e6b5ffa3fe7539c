----------------------------- MODULE MCRequest ------------------------------
(* Request with values for TLC. *)
EXTENDS Request

SimpleNames == {"text", "number"}

Names == SimpleNames \cup {"a.b"}

Literals == {"termux-toast", "termux-nfc", "termux-location", "termux-su", "hi"}

Allowlist == [b \in {"termux-toast", "termux-nfc", "termux-location"} |->
    [mutating |-> b = "termux-toast",
     flags    |-> IF b = "termux-location" THEN {"-p"} ELSE {"-p", "-w"},
     writes   |-> IF b = "termux-nfc" THEN {"-w"} ELSE {}]]

Aliases == [n \in {"wifi.connection-info"} |-> "wifi.info"]

Defaults == [k \in {"max_retries", "task_timeout_s"} |-> IF k = "max_retries" THEN 5 ELSE 30]

Toast == <<"termux-toast">>
Nfc   == <<"termux-nfc">>

Plain == [name |-> "wifi.info", tier |-> "B", argv |-> <<Toast>>, args |-> <<>>,
    stdin_arg |-> Unset, timeout_s |-> 0, retries |-> Unset, parser |-> "json",
    watch |-> [kind |-> "nil", keys |-> {}, mode |-> ""]]

Tokens == {<<"-p">>, <<"-w", "=x">>, <<"text">>, <<"number">>, <<"number", "-p", "text">>,
    <<"hi", "text">>, <<"a.b">>}

Specs == {<<>>} \cup
    {<<[name |-> n, flag |-> f, required |-> q]>> :
        n \in {"text", "number"}, f \in {<<>>, <<"-p">>, Toast}, q \in BOOLEAN} \cup
    {<<[name |-> "text", flag |-> <<"-p">>, required |-> FALSE],
       [name |-> "number", flag |-> <<"-p">>, required |-> q]>> : q \in BOOLEAN} \cup
    {<<[name |-> "a.b", flag |-> f, required |-> q]>> : f \in {<<>>, <<"-p">>}, q \in BOOLEAN} \cup
    {<<[name |-> "text", flag |-> <<"-p">>, required |-> FALSE],
       [name |-> "a.b", flag |-> <<"-p">>, required |-> q]>> : q \in BOOLEAN}

(* Shapes of argv and args; what else may be in an entry, right or wrong; *)
(* budgets; catalogs of two.                                              *)
Shaped ==
    {[Plain EXCEPT !.argv = <<Toast>> \o a, !.args = s, !.stdin_arg = i] :
        a \in {<<x>> : x \in Tokens} \cup {<<x, y>> : x, y \in Tokens}
              \cup {<<<<"-p">>, <<"text">>, x>> : x \in Tokens},
        s \in Specs, i \in {Unset, "text"}}

Odd ==
    {[Plain EXCEPT !.name = n] : n \in {"", "no name"}} \cup
    {[Plain EXCEPT !.tier = t, !.argv = a] :
        t \in {"A", "C"}, a \in {<<>>, <<Toast>>, <<Nfc>>, <<Nfc, <<"-w">>>>,
                                 <<Nfc, <<"-w", "=x">>>>, <<<<"termux-su">>>>, <<<<"text">>>>,
                                 <<<<"termux-location">>, <<"-w">>>>}} \cup
    {[Plain EXCEPT !.timeout_s = -1], [Plain EXCEPT !.parser = "xml"],
     [Plain EXCEPT !.stdin_arg = ""],
     [Plain EXCEPT !.args = <<[name |-> "", flag |-> <<>>, required |-> FALSE]>>]} \cup
    {[Plain EXCEPT !.name = n, !.argv = <<b>>, !.watch = w] :
        n \in {"wifi.info", "location.stream"}, b \in {Toast, <<"termux-location">>},
        w \in {[kind |-> "bool", keys |-> {}, mode |-> m] : m \in {"true", "false"}} \cup
              {[kind |-> "map", keys |-> k, mode |-> m] :
                  k \in {{"mode"}, {"mode", "buffer"}, {"mode", "bufer"}},
                  m \in {"stream", "poll"}}}

Budgets ==
    {[version |-> 1, verbs |-> <<[Plain EXCEPT !.retries = r]>>,
      daemon |-> [k \in {"max_retries", "task_timeout_s"} |->
                    IF k = "max_retries" THEN m ELSE t]] :
        r \in {Unset, -1, 0, 1, 3}, m \in {Unset, -1, 0, 2}, t \in {Unset, -1, 0, 9}}

Silent == [k \in {"max_retries", "task_timeout_s"} |-> Unset]

Files ==
    {[version |-> 1, daemon |-> Silent, verbs |-> <<v>>] : v \in Shaped \cup Odd} \cup
    Budgets \cup
    {[version |-> 1, daemon |-> Silent, verbs |-> <<Plain, [Plain EXCEPT !.name = n]>>] :
        n \in {"wifi.info", "wifi.connection-info"}} \cup
    {[version |-> 0, daemon |-> Silent, verbs |-> <<Plain>>],
     [version |-> 1, daemon |-> Silent, verbs |-> <<>>]}

Values == {<<>>, <<"hi">>, <<"text">>}

Posts ==
    {[name |-> "wifi.info", args |-> a, stdin |-> i] :
        a \in UNION {[N -> Values] : N \in SUBSET SimpleNames \cup {{"a.b"}}}, i \in {<<>>, <<"hi">>}} \cup
    {[name |-> n, args |-> <<>>, stdin |-> <<>>] : n \in {"wifi.connection-info", "nobody"}}
=============================================================================
