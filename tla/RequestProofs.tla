---------------------------- MODULE RequestProofs ----------------------------
(***************************************************************************)
(* Request: what becomes of a verb's argv, and of its budget, on the way   *)
(* into the task's row, for every catalog and every request.               *)
(***************************************************************************)
EXTENDS Request, WellFoundedInduction, TLAPS

(* A set of numbers that is not empty has a least one. *)
LEMMA LeastNatural ==
    ASSUME NEW S \in SUBSET Nat, S # {}
    PROVE  \E n \in S : \A m \in S : n <= m
  <1> DEFINE R == {p \in Nat \X Nat : p[1] < p[2]}
  <1>1. IsWellFoundedOn(R, Nat)
    BY NatLessThanWellFounded DEF OpToRel
  <1>2. PICK n \in S : \A m \in S : <<m, n>> \notin R
    <2> HIDE DEF R
    <2> QED BY <1>1, WFMin
  <1>3. ASSUME NEW m \in S, m < n PROVE FALSE
    BY <1>2, <1>3
  <1> QED BY <1>3

-----------------------------------------------------------------------------
(* The budget. *)

(***************************************************************************)
(* A row's budget is what the verb of a parsed file says, or the daemon.   *)
(***************************************************************************)
Serving == at \notin {"load", "exit"}
Posted  == at \in {"subst", "assemble", "accepted"}

VerbInv ==
    /\ file \in File
    /\ Serving => Parse(file)
    /\ Posted => /\ verb \in Elements(file.verbs)
                 /\ budget = MaxRetries(verb)

LEMMA VerbInit == Init => VerbInv
  BY DEF Init, VerbInv, Serving, Posted

LEMMA GetIsOfFile ==
    ASSUME NEW verbs, NEW name, NEW v \in Get(verbs, name)
    PROVE  v \in Elements(verbs)
  BY DEF Get, Named

LEMMA VerbStep == VerbInv /\ [Next]_vars => VerbInv'
  <1> SUFFICES ASSUME VerbInv, [Next]_vars PROVE VerbInv'
    OBVIOUS
  <1> USE DEF VerbInv, Serving, Posted
  <1>1. CASE Load
    BY <1>1 DEF Load, request
  <1>2. CASE handlePostVerb
    <2>1. at = "serve" /\ file' = file
      BY <1>2 DEF handlePostVerb
    <2>2. ASSUME NEW r \in Post, NEW v \in Get(file.verbs, r.name), Accept(v, r) PROVE VerbInv'
      <3>1. verb' = v /\ budget' = MaxRetries(v) /\ v \in Elements(file.verbs)
        BY <2>2, GetIsOfFile DEF Accept
      <3>2. MaxRetries(v) = MaxRetries(verb)'
        BY <2>1, <3>1 DEF MaxRetries, daemon
      <3> QED BY <2>1, <2>2, <3>1, <3>2 DEF Accept
    <2>3. CASE at' = "unknown"
      BY <2>1, <2>3
    <2> QED BY <1>2, <2>2, <2>3 DEF handlePostVerb
  <1>3. CASE Replace \/ NextToken \/ Assemble \/ UNCHANGED vars
    <2>1. UNCHANGED <<file, verb, budget>> /\ (Posted' => Posted) /\ (Serving' => Serving)
      BY <1>3 DEF Replace, NextToken, Assemble, vars, request
    <2> QED BY <2>1 DEF MaxRetries, daemon
  <1> QED BY <1>1, <1>2, <1>3 DEF Next

(* verbs.go:184-186, worker.go:146-149: what the worker takes for a task's
   budget is what the file asks for, but for a verb's explicit 0. *)
THEOREM FileBudgetHonored == Spec => []BudgetHonored
  <1>1. VerbInv => BudgetHonored
    BY CatalogAssumption DEF VerbInv, Posted, BudgetHonored, Effective, Wanted, MaxRetries,
       daemon, applyDaemonDefaults, Decoded
  <1> QED BY <1>1, VerbInit, VerbStep, PTL DEF Spec

-----------------------------------------------------------------------------
(* The loop over the tokens. *)

Step(f, k) ==
    IF k = 0 THEN <<>> ELSE IF Drop(k) THEN f[k - 1] ELSE Append(f[k - 1], Token(k))

(* The loop is well defined for any number of tokens. *)
LEMMA LoopExists ==
    ASSUME NEW n \in Nat
    PROVE  \E f : f = [k \in 0 .. n |-> Step(f, k)]
  <1> DEFINE Runs(m) == \E f : f = [k \in 0 .. m |-> Step(f, k)]
             S == {m \in Nat : ~Runs(m)}
  <1>1. ASSUME S # {} PROVE FALSE
    <2>1. PICK m \in S : \A i \in S : m <= i
      <3> HIDE DEF S
      <3>1. S \in SUBSET Nat
        BY DEF S
      <3> QED BY <1>1, <3>1, LeastNatural
    <2>2. m \in Nat /\ ~Runs(m)
      OBVIOUS
    <2>3. CASE m = 0
      <3> DEFINE g == [k \in 0 .. 0 |-> <<>>]
      <3>1. g = [k \in 0 .. 0 |-> Step(g, k)]
        BY DEF Step
      <3> HIDE DEF g
      <3> QED BY <2>2, <2>3, <3>1
    <2>4. CASE m # 0
      <3>1. m - 1 \in Nat /\ ~(m <= m - 1)
        BY <2>2, <2>4
      <3>2. Runs(m - 1)
        <4> HIDE DEF Runs
        <4> QED BY <2>1, <3>1
      <3>3. PICK f : f = [k \in 0 .. (m - 1) |-> Step(f, k)]
        BY <3>2
      <3> DEFINE g == [k \in 0 .. m |-> IF k = m THEN Step(f, m) ELSE f[k]]
      <3>4. ASSUME NEW k \in 0 .. m PROVE g[k] = Step(g, k)
        <4>1. k # 0 => k - 1 \in 0 .. m /\ k - 1 # m
          BY <2>2
        <4>2. k # 0 => g[k - 1] = f[k - 1]
          BY <4>1
        <4>3. Step(g, k) = Step(f, k)
          <5> HIDE DEF g
          <5> QED BY <4>2 DEF Step
        <4>4. k # m => f[k] = Step(f, k)
          <5>1. k # m => k \in 0 .. (m - 1)
            BY <2>2
          <5> QED BY <3>3, <5>1
        <4> QED BY <4>3, <4>4
      <3>5. g = [k \in 0 .. m |-> Step(g, k)]
        BY <3>4
      <3> HIDE DEF g
      <3> QED BY <2>2, <3>5
    <2> QED BY <2>3, <2>4
  <1> QED BY <1>1

LEMMA LargerSet ==
    ASSUME NEW A, NEW B, A \subseteq B, NEW s \in Seq(A)
    PROVE  s \in Seq(B)
  OBVIOUS

LEMMA FirstStays ==
    ASSUME NEW S, NEW s \in Seq(S), s # <<>>, NEW x
    PROVE  Append(s, x)[1] = s[1]
  <1>1. Len(s) \in Nat /\ Len(s) # 0
    OBVIOUS
  <1> QED BY <1>1

(* What the loop leaves: the tokens that are not dropped, each once, the
   first one first. *)
LEMMA LoopLeaves ==
    ASSUME NEW n \in Nat, NEW f, f = [k \in 0 .. n |-> Step(f, k)],
           NEW i \in 0 .. n
    PROVE  /\ f[i] \in Seq({Token(k) : k \in 1 .. i})
           /\ \A k \in 1 .. i : (\E t \in Elements(f[i]) : t.pos = k) <=> ~Drop(k)
           /\ i > 0 /\ ~Drop(1) => f[i] # <<>> /\ f[i][1] = Token(1)
  <1> DEFINE Good(m) ==
        /\ f[m] \in Seq({Token(k) : k \in 1 .. m})
        /\ \A k \in 1 .. m : (\E t \in Elements(f[m]) : t.pos = k) <=> ~Drop(k)
        /\ m > 0 /\ ~Drop(1) => f[m] # <<>> /\ f[m][1] = Token(1)
      S == {m \in 0 .. n : ~Good(m)}
  <1>1. \A m \in 0 .. n : f[m] = Step(f, m)
    OBVIOUS
  <1>2. ASSUME S # {} PROVE FALSE
    <2>1. PICK m \in S : \A j \in S : m <= j
      <3> HIDE DEF S
      <3>1. S \in SUBSET Nat
        BY DEF S
      <3> QED BY <1>2, <3>1, LeastNatural
    <2>2. m \in 0 .. n /\ ~Good(m)
      OBVIOUS
    <2>3. CASE m = 0
      <3>1. f[0] = <<>>
        BY <1>1, <2>2, <2>3 DEF Step
      <3>2. Good(0)
        BY <3>1
      <3> QED BY <2>2, <2>3, <3>2
    <2>4. CASE m # 0
      <3> DEFINE p == m - 1
                 s == f[p]
      <3>1. p \in 0 .. n /\ p \in Nat /\ m = p + 1 /\ ~(m <= p)
        BY <2>2, <2>4
      <3>2. Good(p)
        <4> HIDE DEF Good
        <4> QED BY <2>1, <3>1
      <3>3. /\ s \in Seq({Token(k) : k \in 1 .. p})
            /\ \A k \in 1 .. p : (\E t \in Elements(s) : t.pos = k) <=> ~Drop(k)
            /\ p > 0 /\ ~Drop(1) => s # <<>> /\ s[1] = Token(1)
        BY <3>2
      <3>4. f[m] = IF Drop(m) THEN s ELSE Append(s, Token(m))
        BY <1>1, <2>2, <2>4 DEF Step
      <3> HIDE DEF p, s
      <3>5. s \in Seq({Token(k) : k \in 1 .. m}) /\ Token(m) \in {Token(k) : k \in 1 .. m}
        <4>1. {Token(k) : k \in 1 .. p} \subseteq {Token(k) : k \in 1 .. m} /\ m \in 1 .. m
          BY <3>1
        <4> QED BY <3>3, <4>1, LargerSet
      <3>6. \A t \in Elements(s) : t.pos \in 1 .. p
        <4>1. \A j \in DOMAIN s : s[j] \in {Token(k) : k \in 1 .. p}
          BY <3>3
        <4> QED BY <4>1 DEF Elements, Token
      <3>7. CASE Drop(m)
        <4>1. f[m] = s
          BY <3>4, <3>7
        <4>2. \A k \in 1 .. m : (\E t \in Elements(s) : t.pos = k) <=> ~Drop(k)
          BY <3>1, <3>3, <3>6, <3>7
        <4>3. ~Drop(1) => p > 0
          BY <3>1, <3>7
        <4> QED BY <2>2, <3>3, <3>5, <4>1, <4>2, <4>3
      <3>8. CASE ~Drop(m)
        <4>1. f[m] = Append(s, Token(m))
          BY <3>4, <3>8
        <4>2. Elements(f[m]) = Elements(s) \cup {Token(m)} /\ Token(m).pos = m
          <5>1. /\ DOMAIN f[m] = 1 .. (Len(s) + 1) /\ DOMAIN s = 1 .. Len(s) /\ Len(s) \in Nat
                /\ f[m][Len(s) + 1] = Token(m) /\ \A j \in 1 .. Len(s) : f[m][j] = s[j]
            BY <3>5, <4>1
          <5> QED BY <5>1 DEF Elements, Token
        <4>3. \A k \in 1 .. m : (\E t \in Elements(f[m]) : t.pos = k) <=> ~Drop(k)
          BY <3>1, <3>3, <3>6, <3>8, <4>2
        <4>4. f[m] \in Seq({Token(k) : k \in 1 .. m}) /\ f[m] # <<>>
          BY <3>5, <4>1
        <4>5. ~Drop(1) => f[m][1] = Token(1)
          <5>1. CASE p = 0
            <6>1. s = <<>> /\ m = 1
              BY <3>1, <3>3, <5>1
            <6> QED BY <4>1, <6>1
          <5>2. CASE p > 0
            BY <3>3, <4>1, <5>2, FirstStays
          <5> QED BY <3>1, <5>1, <5>2
        <4> QED BY <2>2, <4>3, <4>4, <4>5
      <3> QED BY <3>7, <3>8
    <2> QED BY <2>3, <2>4
  <1> QED BY <1>2

-----------------------------------------------------------------------------
(* The arguments. *)

(* Which texts a loaded verb is made of. *)
LoadedVerb(v) ==
    /\ v.argv \in Seq(Text) /\ v.args \in Seq(ArgSpecs)
    /\ v.argv # <<>>
    /\ \E b \in Literal : v.argv[1] = <<b>>
    /\ \A a \in Elements(v.args) : a.flag # <<>> => Dash(a.flag)

LEMMA VerbsAreLoaded ==
    ASSUME NEW f \in File, Parse(f), NEW v \in Elements(f.verbs)
    PROVE  LoadedVerb(v)
  <1>1. validateVerb(v)
    BY DEF Parse, Elements
  <1>2. ValidateArgv(v.argv) /\ validateArgs(v)
    BY <1>1, Zenon DEF validateVerb
  <1>3. v.argv # <<>> /\ \E b \in Literal : v.argv[1] = <<b>>
    BY <1>2, CatalogAssumption DEF ValidateArgv
  <1>4. v.argv \in Seq(Text) /\ v.args \in Seq(ArgSpecs)
    BY RequestAssumption
  <1> QED BY <1>2, <1>3, <1>4, Zenon DEF LoadedVerb, validateArgs

LEMMA VerbIsLoaded ==
    ASSUME VerbInv, Posted PROVE LoadedVerb(verb)
  BY VerbsAreLoaded DEF VerbInv, Posted, Serving

(* A name that is known has a last entry. *)
LEMMA LastEntry ==
    ASSUME LoadedVerb(verb), NEW n, Known(n)
    PROVE  ArgSpec(n) \in Elements(verb.args)
  <1> DEFINE N == Len(verb.args)
             K == {k \in DOMAIN verb.args : verb.args[k].name = n}
             S == {N - k : k \in K}
  <1>1. N \in Nat /\ DOMAIN verb.args = 1 .. N
    BY DEF LoadedVerb
  <1>2. K # {} /\ K \subseteq 1 .. N
    BY <1>1 DEF Known, Elements
  <1>3. S \in SUBSET Nat /\ S # {}
    <2>1. \A k \in K : N - k \in Nat
      BY <1>1, <1>2
    <2> HIDE DEF K, N
    <2> QED BY <1>2, <2>1
  <1>4. PICK x \in S : \A y \in S : x <= y
    <2> HIDE DEF S
    <2> QED BY <1>3, LeastNatural
  <1>5. PICK k \in K : x = N - k
    BY <1>4
  <1>6. \A m \in K : m <= k
    <2> SUFFICES ASSUME NEW m \in K PROVE m <= k
      OBVIOUS
    <2>1. N - k <= N - m
      BY <1>4, <1>5
    <2> QED BY <1>1, <1>2, <2>1
  <1>7. (CHOOSE j \in K : \A m \in K : m <= j) \in K
    BY <1>6
  <1> QED BY <1>7 DEF ArgSpec, Elements

(***************************************************************************)
(* A token without placeholders is expanded to itself, out of nothing.     *)
(***************************************************************************)
Literally(t) == Elements(t) \cap Name = {}

ArgvInv ==
    /\ done \in Seq(Elements(done))
    /\ at \in {"load", "serve", "exit", "unknown", "invalid"} => done = <<>>
    /\ at = "subst" =>
          /\ Len(done) < Len(verb.argv)
          /\ Literally(verb.argv[Len(done) + 1]) =>
                out = verb.argv[Len(done) + 1] /\ fields = {}
    /\ at \in {"assemble", "accepted"} => Len(done) = Len(verb.argv)
    /\ Posted => \A k \in 1 .. Len(done) :
          Literally(verb.argv[k]) => done[k].out = verb.argv[k] /\ done[k].fields = {}
    /\ at = "accepted" =>
          /\ argv \in Seq({Token(k) : k \in 1 .. Len(done)})
          /\ \A k \in 1 .. Len(done) : Kept(k) <=> ~Drop(k)
          /\ ~Drop(1) => argv # <<>> /\ argv[1] = Token(1)

LEMMA ArgvInit == Init => ArgvInv
  BY DEF Init, ArgvInv, Posted, Elements

LEMMA OneMoreElement ==
    ASSUME NEW s, s \in Seq(Elements(s)), NEW x
    PROVE  /\ Append(s, x) \in Seq(Elements(Append(s, x)))
           /\ Len(s) \in Nat /\ Len(Append(s, x)) = Len(s) + 1
           /\ Append(s, x)[Len(s) + 1] = x
           /\ \A k \in 1 .. Len(s) : Append(s, x)[k] = s[k]
  <1> DEFINE t == Append(s, x)
  <1>1. /\ Len(s) \in Nat /\ DOMAIN s = 1 .. Len(s)
        /\ Len(t) = Len(s) + 1 /\ DOMAIN t = 1 .. (Len(s) + 1)
        /\ t[Len(s) + 1] = x /\ \A k \in 1 .. Len(s) : t[k] = s[k]
    OBVIOUS
  <1>2. Elements(s) \subseteq Elements(t) /\ x \in Elements(t)
    <2> HIDE DEF t
    <2> QED BY <1>1 DEF Elements
  <1>3. s \in Seq(Elements(t))
    <2> HIDE DEF t
    <2> QED BY <1>2, LargerSet
  <1>4. t \in Seq(Elements(t))
    <2> DEFINE E == Elements(t)
    <2>1. s \in Seq(E) /\ x \in E
      BY <1>2, <1>3
    <2> HIDE DEF E
    <2>2. Append(s, x) \in Seq(E)
      BY <2>1
    <2> QED BY <2>2 DEF E
  <1> QED BY <1>1, <1>4

(* A token in hand that has no place to fill is done as it is. *)
LEMMA TokenDone ==
    ASSUME VerbInv, ArgvInv, NextToken PROVE ArgvInv'
  <1> DEFINE x == [out |-> out, fields |-> fields]
             n == Len(done)
  <1>1. /\ at = "subst" /\ Posted /\ Places = {}
        /\ done' = Append(done, x) /\ fields' = {} /\ verb' = verb
        /\ IF Len(done') < Len(verb.argv)
           THEN at' = at /\ out' = verb.argv[Len(done') + 1]
           ELSE at' = "assemble"
    BY DEF NextToken, request, Posted
  <1>2. /\ done' \in Seq(Elements(done'))
        /\ n \in Nat /\ Len(done') = n + 1
        /\ done'[n + 1] = x
        /\ \A k \in 1 .. n : done'[k] = done[k]
    BY <1>1, OneMoreElement DEF ArgvInv
  <1>3. n < Len(verb.argv) /\ Len(verb.argv) \in Nat
    BY <1>1, VerbIsLoaded DEF ArgvInv, LoadedVerb
  <1>4. at' \in {"subst", "assemble"}
    BY <1>1
  <1>5. at' = "subst" =>
          /\ Len(done') < Len(verb.argv)
          /\ Literally(verb.argv[Len(done') + 1]) =>
                out' = verb.argv[Len(done') + 1] /\ fields' = {}
    BY <1>1
  <1>6. at' = "assemble" => Len(done') = Len(verb.argv)
    BY <1>1, <1>2, <1>3
  <1>7. ASSUME NEW k \in 1 .. Len(done'), Literally(verb.argv[k])
        PROVE  done'[k].out = verb.argv[k] /\ done'[k].fields = {}
    <2>1. CASE k = n + 1
      <3>1. out = verb.argv[k] /\ fields = {}
        BY <1>1, <1>7, <2>1 DEF ArgvInv
      <3> QED BY <1>2, <2>1, <3>1
    <2>2. CASE k \in 1 .. n
      BY <1>1, <1>2, <1>7, <2>2 DEF ArgvInv
    <2> QED BY <1>2, <2>1, <2>2
  <1> HIDE DEF x, n
  <1> QED BY <1>1, <1>2, <1>4, <1>5, <1>6, <1>7 DEF ArgvInv, Literally

(* The row is what the loop leaves. *)
LEMMA ArgvAssembled ==
    ASSUME VerbInv, ArgvInv, Assemble PROVE ArgvInv'
  <1> DEFINE n == Len(done)
  <1>1. /\ at = "assemble" /\ at' = "accepted" /\ argv' = Remaining
        /\ UNCHANGED <<done, verb, stdin>>
    BY DEF Assemble, request
  <1>2. n \in Nat /\ n = Len(verb.argv)
    BY <1>1 DEF ArgvInv
  <1>3. PICK f : f = [k \in 0 .. n |-> Step(f, k)] /\ Remaining = f[n]
    <2> DEFINE g == CHOOSE f : f = [k \in 0 .. n |-> Step(f, k)]
    <2>1. g = [k \in 0 .. n |-> Step(g, k)]
      BY <1>2, LoopExists
    <2>2. Remaining = g[n]
      BY DEF Remaining, Step
    <2> HIDE DEF g
    <2> QED BY <2>1, <2>2
  <1>4. /\ argv' \in Seq({Token(k) : k \in 1 .. n})
        /\ \A k \in 1 .. n : (\E t \in Elements(argv') : t.pos = k) <=> ~Drop(k)
        /\ n > 0 /\ ~Drop(1) => argv' # <<>> /\ argv'[1] = Token(1)
    <2>1. n \in 0 .. n
      BY <1>2
    <2>2. /\ f[n] \in Seq({Token(k) : k \in 1 .. n})
          /\ \A k \in 1 .. n : (\E t \in Elements(f[n]) : t.pos = k) <=> ~Drop(k)
          /\ n > 0 /\ ~Drop(1) => f[n] # <<>> /\ f[n][1] = Token(1)
      <3>1. n \in Nat
        BY <1>2
      <3>2. f = [k \in 0 .. n |-> Step(f, k)]
        BY <1>3
      <3> HIDE DEF n
      <3> QED BY <2>1, <3>1, <3>2, LoopLeaves
    <2>3. argv' = f[n]
      BY <1>1, <1>3
    <2> HIDE DEF n
    <2> QED BY <2>2, <2>3
  <1>5. \A k : Token(k)' = Token(k) /\ (Drop(k)' <=> Drop(k))
    BY <1>1 DEF Token, Redacted, Secret, Drop, Empty, solePlaceholder, Known, ArgSpec
  <1>6. \A k \in 1 .. n : Kept(k)' <=> ~Drop(k)'
    BY <1>4, <1>5 DEF Kept
  <1>7. \A k \in 1 .. n :
          Literally(verb.argv[k]) => done[k].out = verb.argv[k] /\ done[k].fields = {}
    BY <1>1 DEF ArgvInv, Posted
  <1>8. argv' \in Seq({Token(k)' : k \in 1 .. n})
    BY <1>4, <1>5
  <1>9. ~Drop(1)' => argv' # <<>> /\ argv'[1] = Token(1)'
    <2>1. verb.argv \in Seq(Text) /\ verb.argv # <<>>
      BY <1>1, VerbIsLoaded DEF LoadedVerb, Posted
    <2>2. n > 0
      BY <1>2, <2>1
    <2> HIDE DEF n
    <2> QED BY <1>4, <1>5, <2>2
  <1>10. done \in Seq(Elements(done))
    BY DEF ArgvInv
  <1> QED BY <1>1, <1>2, <1>6, <1>7, <1>8, <1>9, <1>10 DEF ArgvInv, Literally

LEMMA ArgvStep == VerbInv /\ VerbInv' /\ ArgvInv /\ [Next]_vars => ArgvInv'
  <1> SUFFICES ASSUME VerbInv, VerbInv', ArgvInv, [Next]_vars PROVE ArgvInv'
    OBVIOUS
  <1>1. CASE Load
    BY <1>1 DEF Load, ArgvInv, Posted
  <1>2. CASE handlePostVerb
    <2>1. done' = done /\ done = <<>>
      BY <1>2 DEF handlePostVerb, ArgvInv
    <2>2. ASSUME NEW r \in Post, NEW v \in Get(file.verbs, r.name), Accept(v, r) PROVE ArgvInv'
      <3>1. /\ at' \in {"invalid", "subst"} /\ verb' = v
            /\ out' = v.argv[1] /\ fields' = {}
        BY <2>2 DEF Accept
      <3>2. Len(v.argv) \in Nat /\ Len(v.argv) # 0
        <4>1. file \in File /\ Parse(file) /\ v \in Elements(file.verbs)
          BY <1>2, GetIsOfFile DEF handlePostVerb, VerbInv, Serving
        <4>2. LoadedVerb(v)
          BY <4>1, VerbsAreLoaded
        <4> QED BY <4>2 DEF LoadedVerb
      <3> QED BY <2>1, <3>1, <3>2 DEF ArgvInv, Posted, Elements, Literally
    <2>3. CASE at' = "unknown"
      BY <2>1, <2>3 DEF ArgvInv, Posted
    <2> QED BY <1>2, <2>2, <2>3 DEF handlePostVerb
  <1>3. CASE Replace
    <2>1. at = "subst" /\ UNCHANGED <<at, done, verb>> /\ Places # {}
      BY <1>3 DEF Replace, request
    <2>2. ~Literally(verb.argv[Len(done) + 1])
      BY <2>1 DEF ArgvInv, Literally, Elements, Places
    <2> QED BY <2>1, <2>2 DEF ArgvInv, Posted, Literally
  <1>4. CASE NextToken
    BY <1>4, TokenDone
  <1>5. CASE Assemble
    BY <1>5, ArgvAssembled
  <1>6. CASE UNCHANGED vars
    <2>1. UNCHANGED <<at, verb, stdin, done, out, fields, argv>>
      BY <1>6 DEF vars, request
    <2>2. \A k : Token(k)' = Token(k) /\ (Drop(k)' <=> Drop(k)) /\ (Kept(k)' <=> Kept(k))
      BY <2>1 DEF Token, Redacted, Secret, Drop, Empty, solePlaceholder, Known, ArgSpec, Kept
    <2> QED BY <2>1, <2>2 DEF ArgvInv, Posted, Literally
  <1> QED BY <1>1, <1>2, <1>3, <1>4, <1>5, <1>6 DEF Next

(* The program is nobody's argument and nobody's flag. *)
LEMMA ProgramStays ==
    ASSUME VerbInv, ArgvInv, Posted PROVE ~Drop(1) /\ Literally(verb.argv[1])
  <1>1. LoadedVerb(verb)
    BY VerbIsLoaded
  <1>2. PICK b \in Literal : verb.argv[1] = <<b>>
    BY <1>1 DEF LoadedVerb
  <1>3. b \notin Name /\ b \notin Flag
    BY <1>2, CatalogAssumption
  <1>4. ~Empty(1)
    BY <1>2, <1>3, RequestAssumption DEF Empty, solePlaceholder
  <1>5. ASSUME Empty(2), verb.argv[1] = ArgSpec(verb.argv[2][1]).flag PROVE FALSE
    <2>1. ArgSpec(verb.argv[2][1]) \in Elements(verb.args)
      BY <1>1, <1>5, LastEntry DEF Empty
    <2>2. verb.argv[1] # <<>> => Dash(verb.argv[1])
      BY <1>1, <1>5, <2>1 DEF LoadedVerb
    <2> QED BY <1>2, <1>3, <2>2 DEF Dash
  <1> QED BY <1>2, <1>3, <1>4, <1>5 DEF Drop, Literally, Elements

(* server.go:798-861: the program is never dropped with an argument, for what
   Parse accepts; a task runs the binary of its verb. *)
THEOREM ProgramKept == Spec => []BinaryKept
  <1>1. VerbInv /\ ArgvInv => BinaryKept
    <2> SUFFICES ASSUME VerbInv, ArgvInv, at = "accepted"
                 PROVE  argv # <<>> /\ argv[1].pos = 1 /\ argv[1].out = verb.argv[1]
      BY DEF BinaryKept
    <2>1. Posted /\ Len(done) = Len(verb.argv) /\ LoadedVerb(verb)
      BY VerbIsLoaded DEF Posted, ArgvInv
    <2>2. 1 \in 1 .. Len(done)
      BY <2>1 DEF LoadedVerb
    <2>3. done[1].out = verb.argv[1]
      BY <2>1, <2>2, ProgramStays DEF ArgvInv
    <2> QED BY <2>1, <2>3, ProgramStays DEF ArgvInv, Token
  <1> QED BY <1>1, VerbInit, VerbStep, ArgvInit, ArgvStep, PTL DEF Spec

(* server.go:787-836: a flag goes with its value, and only with it, wherever
   the pair stands and whatever stands around it; and the pair goes exactly if
   the argument is optional, has no value, and has a name that counts as a
   placeholder by itself. *)
THEOREM FlagGoesWithValue == Spec => []PairsWhole
  <1>1. VerbInv /\ ArgvInv => PairsWhole
    <2> SUFFICES ASSUME VerbInv, ArgvInv, at = "accepted",
                        NEW n \in Name, NEW k \in 1 .. (Len(verb.argv) - 1),
                        Known(n), Dash(ArgSpec(n).flag), Literally(ArgSpec(n).flag),
                        verb.argv[k] = ArgSpec(n).flag, verb.argv[k + 1] = <<n>>
                 PROVE  /\ Kept(k) <=> Kept(k + 1)
                        /\ Kept(k + 1) <=>
                               (ArgSpec(n).required \/ n \notin Simple \/ done[k + 1].out # <<>>)
      BY DEF PairsWhole, Literally
    <2>1. Posted /\ Len(done) = Len(verb.argv) /\ LoadedVerb(verb) /\ Len(verb.argv) \in Nat
      BY VerbIsLoaded DEF Posted, ArgvInv, LoadedVerb
    <2>2. k \in 1 .. Len(done) /\ k + 1 \in 1 .. Len(done) /\ k < Len(verb.argv)
      BY <2>1
    <2>3. ArgSpec(n).required \in BOOLEAN
      <3>1. ArgSpec(n) \in Elements(verb.args)
        BY <2>1, LastEntry
      <3>2. ArgSpec(n) \in ArgSpecs
        BY <2>1, <3>1 DEF LoadedVerb, Elements
      <3>3. \A A : ArgSpec(n) \in [name : A, flag : Text, required : BOOLEAN] =>
              ArgSpec(n).required \in BOOLEAN
        OBVIOUS
      <3> QED BY <3>2, <3>3, Zenon DEF ArgSpecs
    <2>4. Empty(k + 1) <=> n \in Simple /\ done[k + 1].out = <<>> /\ ~ArgSpec(n).required
      <3>1. Len(verb.argv[k + 1]) = 1 /\ verb.argv[k + 1][1] = n
        OBVIOUS
      <3> QED BY <3>1 DEF Empty, solePlaceholder
    <2>5. ~Empty(k)
      <3>1. verb.argv[k] \in Text
        BY <2>1, <2>2 DEF LoadedVerb
      <3>2. Len(verb.argv[k]) = 1 => verb.argv[k][1] \in Elements(verb.argv[k])
        BY <3>1 DEF Elements, Text
      <3> QED BY <3>2, RequestAssumption DEF Empty, solePlaceholder, Literally
    <2>6. Drop(k) <=> Empty(k + 1)
      <3>1. done[k].fields = {}
        BY <2>1, <2>2 DEF ArgvInv
      <3>2. verb.argv[k + 1][1] = n /\ verb.argv[k] # <<>>
        BY DEF Dash
      <3> QED BY <2>2, <2>5, <3>1, <3>2 DEF Drop
    <2>7. Drop(k + 1) <=> Empty(k + 1)
      <3>1. ASSUME Empty(k + 1 + 1), verb.argv[k + 1] = ArgSpec(verb.argv[k + 1 + 1][1]).flag
            PROVE  FALSE
        <4>1. ArgSpec(verb.argv[k + 1 + 1][1]) \in Elements(verb.args)
          BY <2>1, <3>1, LastEntry DEF Empty
        <4>2. verb.argv[k + 1] # <<>> => Dash(verb.argv[k + 1])
          BY <2>1, <3>1, <4>1 DEF LoadedVerb
        <4>3. n \notin Flag
          BY CatalogAssumption
        <4> QED BY <4>2, <4>3 DEF Dash
      <3> QED BY <3>1 DEF Drop
    <2>8. (Kept(k) <=> ~Drop(k)) /\ (Kept(k + 1) <=> ~Drop(k + 1))
      BY <2>2 DEF ArgvInv
    <2> QED BY <2>3, <2>4, <2>6, <2>7, <2>8
  <1> QED BY <1>1, VerbInit, VerbStep, ArgvInit, ArgvStep, PTL DEF Spec
=============================================================================
