---------------------------- MODULE OutboxProofs ----------------------------
(***************************************************************************)
(* Outbox: no event is marked before its line is in the file, the lines of *)
(* a task come in order, and a row has few of them, for any numbers of     *)
(* tasks, drainers, rows, failures and restarts, whatever size the batches *)
(* have and however the texts of instants sort.                            *)
(***************************************************************************)
EXTENDS Outbox, FiniteSetTheorems, WellFoundedInduction, TLAPS

-----------------------------------------------------------------------------
(* Texts of instants.                                                      *)

(* A set of numbers that is not empty has a least one: the induction that the
   proofs below rest on. *)
LEMMA LeastNatural ==
    ASSUME NEW S \in SUBSET Nat, S # {}
    PROVE  \E n \in S : \A m \in S : n <= m
  <1> DEFINE R == {p \in Nat \X Nat : p[1] < p[2]}
  <1>1. IsWellFoundedOn(R, Nat)
    BY NatLessThanWellFounded DEF OpToRel
  <1>2. PICK n \in S : \A m \in S : <<m, n>> \notin R
    <2> HIDE DEF R
    <2> QED BY <1>1, WFMin
  <1>3. ASSUME NEW m \in S, m < n PROVE FALSE
    BY <1>2, <1>3
  <1> QED BY <1>3

(* A power of the base is a positive number. *)
LEMMA Powers ==
    ASSUME NEW k \in 0 .. Digits PROVE Base ^ k \in Nat \ {0}
  <1> DEFINE S == {m \in 0 .. Digits : Base ^ m \notin Nat \ {0}}
  <1>1. ASSUME S # {} PROVE FALSE
    <2>1. PICK m \in S : \A i \in S : m <= i
      <3>1. S \in SUBSET Nat
        BY TimeTextAssumption
      <3> HIDE DEF S
      <3> QED BY <1>1, <3>1, LeastNatural
    <2>2. m \in 1 .. Digits
      BY TimeTextAssumption
    <2>3. Base ^ (m - 1) \in Nat \ {0}
      <3>1. m - 1 \in 0 .. Digits /\ ~(m <= m - 1)
        BY <2>2, TimeTextAssumption
      <3>2. m - 1 \notin S
        <4> HIDE DEF S
        <4> QED BY <2>1, <3>1
      <3> QED BY <3>1, <3>2
    <2>4. Base ^ m = Base * Base ^ (m - 1) /\ Base \in Nat \ {0}
      BY <2>2, TimeTextAssumption
    <2>5. \A a, b \in Nat \ {0} : a * b \in Nat \ {0}
      OBVIOUS
    <2> DEFINE p == Base ^ (m - 1)
               q == Base ^ m
    <2>6. q = Base * p /\ p \in Nat \ {0}
      BY <2>3, <2>4
    <2>7. q \notin Nat \ {0}
      OBVIOUS
    <2> HIDE DEF p, q
    <2> QED BY <2>4, <2>5, <2>6, <2>7
  <1> QED BY <1>1

(* The digits: in a place each, numbers below Base. *)
LEMMA DigitType ==
    ASSUME NEW i \in Nat, NEW k \in 1 .. Digits
    PROVE  Digit(i, k) \in 0 .. (Base - 1)
  <1>1. Base ^ (Digits - k) \in Nat \ {0} /\ Base \in Nat \ {0, 1}
    BY TimeTextAssumption, Powers
  <1> DEFINE p == Base ^ (Digits - k)
  <1>2. i \div p \in Int
    <2> HIDE DEF p
    <2> QED BY <1>1 DEF p
  <1> HIDE DEF p
  <1>3. (i \div p) % Base \in 0 .. (Base - 1)
    BY <1>1, <1>2
  <1> QED BY <1>3 DEF Digit, p

LEMMA ShownType ==
    ASSUME NEW i \in Nat
    PROVE  /\ Shown(i) \in 0 .. Digits
           /\ \A k \in (Shown(i) + 1) .. Digits : Digit(i, k) = 0
           /\ Shown(i) = 0 \/ Digit(i, Shown(i)) # 0
  <1> DEFINE Blank(n) == \A k \in (n + 1) .. Digits : Digit(i, k) = 0
             S == {n \in 0 .. Digits : Blank(n)}
  <1>1. Digits \in Nat
    BY TimeTextAssumption
  <1>2. Digits \in S /\ S \in SUBSET Nat
    BY <1>1
  <1>3. PICK n \in S : \A m \in S : n <= m
    <2> HIDE DEF S
    <2> QED BY <1>2, LeastNatural
  <1>4. n = 0 \/ Digit(i, n) # 0
    <2> SUFFICES ASSUME n # 0, Digit(i, n) = 0 PROVE FALSE
      OBVIOUS
    <2>1. n - 1 \in 0 .. Digits /\ n - 1 < n
      BY <1>1
    <2>2. Blank(n - 1)
      <3> SUFFICES ASSUME NEW k \in n .. Digits PROVE Digit(i, k) = 0
        BY <1>1
      <3>1. k = n \/ k \in (n + 1) .. Digits
        BY <1>1
      <3> QED BY <3>1
    <2> QED BY <1>3, <2>1, <2>2
  <1>5. \E m \in 0 .. Digits :
            /\ \A k \in (m + 1) .. Digits : Digit(i, k) = 0
            /\ m = 0 \/ Digit(i, m) # 0
    BY <1>4
  <1> QED BY <1>5 DEF Shown

LEMMA CharacterType ==
    ASSUME NEW i \in Nat, NEW k \in 0 .. Digits
    PROVE  Character(i, k) \in Int
  <1>1. Base \in Nat /\ Digits \in Nat
    BY TimeTextAssumption
  <1>2. k # 0 => Digit(i, k) \in Int
    BY <1>1, DigitType
  <1> QED BY <1>1, <1>2 DEF Character, Zulu, Point

(* Dividing twice is dividing once. *)
LEMMA DivideTwice ==
    ASSUME NEW i \in Nat, NEW a \in Nat \ {0}, NEW b \in Nat \ {0}
    PROVE  /\ a * b \in Nat \ {0}
           /\ i \div (a * b) = (i \div a) \div b
  <1> DEFINE q == i \div a
             r == i % a
             s == q \div b
             t == q % b
  <1>1. q \in Nat /\ r \in 0 .. (a - 1) /\ i = a * q + r
    OBVIOUS
  <1> HIDE DEF q, r
  <1>2. s \in Nat /\ t \in 0 .. (b - 1) /\ q = b * s + t
    BY <1>1
  <1> HIDE DEF s, t
  <1>3. a * b \in Nat \ {0}
    OBVIOUS
  <1> DEFINE p == a * b
  <1>4. i = p * s + (a * t + r)
    BY <1>1, <1>2
  <1>5. a * t + r \in 0 .. (p - 1)
    <2>1. a * t <= a * (b - 1)
      BY <1>2
    <2>2. a * (b - 1) = p - a /\ a * t \in Nat /\ p \in Nat
      BY <1>2, <1>3
    <2> HIDE DEF p
    <2> DEFINE u == a * t
    <2> HIDE DEF u
    <2>3. u <= p - a /\ u \in Nat
      BY <2>1, <2>2 DEF u
    <2>4. u + r \in 0 .. (p - 1)
      BY <1>1, <2>2, <2>3
    <2> QED BY <2>4 DEF u
  <1>6. \A u \in 0 .. (p - 1) : i = p * s + u => i \div p = s
    <2> HIDE DEF p
    <2> QED BY <1>2, <1>3 DEF p
  <1> QED BY <1>3, <1>4, <1>5, <1>6 DEF s, q

(* The seconds and the digits make up the instant. *)
LEMMA DigitsDetermine ==
    ASSUME NEW i \in Nat, NEW j \in Nat, Second(i) = Second(j),
           \A k \in 1 .. Digits : Digit(i, k) = Digit(j, k)
    PROVE  i = j
  <1> DEFINE Upto(x, k) == x \div (Base ^ (Digits - k))
             S == {k \in 0 .. Digits : Upto(i, k) # Upto(j, k)}
  <1>1. Digits \in Nat /\ Base \in Nat \ {0, 1} /\ Base ^ 0 = 1
    BY TimeTextAssumption
  <1>2. ASSUME NEW x \in Nat, NEW k \in 1 .. Digits
        PROVE  Upto(x, k) = Base * Upto(x, k - 1) + Digit(x, k)
    <2> DEFINE a == Base ^ (Digits - k)
               y == x \div a
    <2>1. a \in Nat \ {0} /\ Base ^ (Digits - (k - 1)) = Base * a
      <3> DEFINE n == Digits - (k - 1)
      <3>1. n \in 1 .. Digits /\ n - 1 = Digits - k /\ n - 1 \in 0 .. Digits
        BY <1>1
      <3>2. Base ^ n = Base * Base ^ (n - 1) /\ Base ^ (n - 1) \in Nat \ {0}
        <4> HIDE DEF n
        <4> QED BY <3>1, Powers, TimeTextAssumption
      <3> QED BY <3>1, <3>2
    <2>2. Upto(x, k - 1) = y \div Base /\ y \in Nat
      <3>1. a * Base = Base * a /\ Base \in Nat \ {0}
        <4> HIDE DEF a
        <4> QED BY <1>1, <2>1
      <3>2. x \div (a * Base) = y \div Base
        <4>1. a \in Nat \ {0}
          BY <2>1
        <4> HIDE DEF a
        <4>2. Base \in Nat \ {0} /\ x \div (a * Base) = (x \div a) \div Base
          BY <3>1, <4>1, DivideTwice
        <4> QED BY <4>2
      <3>3. y \in Nat
        <4> HIDE DEF a
        <4> QED BY <2>1
      <3> QED BY <2>1, <3>1, <3>2, <3>3
    <2>3. Digit(x, k) = y % Base
      BY DEF Digit
    <2> HIDE DEF y
    <2>4. y = Base * (y \div Base) + (y % Base)
      BY <1>1, <2>2
    <2> QED BY <2>2, <2>3, <2>4 DEF y
  <1>3. S = {}
    <2> SUFFICES ASSUME S # {} PROVE FALSE
      OBVIOUS
    <2>1. S \in SUBSET Nat
      BY <1>1
    <2>2. PICK k \in S : \A m \in S : k <= m
      <3> HIDE DEF S
      <3> QED BY <2>1, LeastNatural
    <2>3. Upto(i, k) # Upto(j, k) /\ k \in 0 .. Digits
      OBVIOUS
    <2>4. k # 0
      <3>1. Digits - 0 = Digits
        BY <1>1
      <3> QED BY <2>3, <3>1 DEF Second
    <2>5. k \in 1 .. Digits /\ k - 1 \in 0 .. Digits /\ ~(k <= k - 1)
      BY <1>1, <2>3, <2>4
    <2>6. Upto(i, k - 1) = Upto(j, k - 1)
      BY <2>2, <2>5
    <2>7. Digit(i, k) = Digit(j, k)
      BY <2>5
    <2> HIDE DEF Upto
    <2> QED BY <1>2, <2>3, <2>5, <2>6, <2>7
  <1>4. Upto(i, Digits) = Upto(j, Digits)
    BY <1>1, <1>3
  <1>5. Digits - Digits = 0
    BY <1>1
  <1>6. \A x \in Nat : x \div 1 = x
    OBVIOUS
  <1> QED BY <1>1, <1>4, <1>5, <1>6

(* Two instants written the same are the same. *)
LEMMA TextsDiffer ==
    ASSUME NEW i \in Nat, NEW j \in Nat, Second(i) = Second(j),
           \A k \in 0 .. Digits : Character(i, k) = Character(j, k)
    PROVE  i = j
  <1>1. Digits \in Nat /\ Base \in Nat \ {0, 1}
    BY TimeTextAssumption
  <1>2. ASSUME NEW x \in Nat, NEW k \in 1 .. Digits
        PROVE  IF k <= Shown(x) THEN Character(x, k) = Digit(x, k) /\ Digit(x, k) # Zulu
               ELSE Character(x, k) = Zulu /\ Digit(x, k) = 0
    <2>1. Digit(x, k) \in 0 .. (Base - 1)
      BY DigitType
    <2>2. Shown(x) \in Nat /\ (k > Shown(x) => Digit(x, k) = 0)
      BY <1>1, ShownType
    <2> QED BY <1>1, <2>1, <2>2 DEF Character, Zulu
  <1>3. ASSUME NEW k \in 1 .. Digits PROVE Digit(i, k) = Digit(j, k)
    <2>1. Character(i, k) = Character(j, k)
      BY <1>1
    <2> QED BY <1>2, <2>1
  <1> QED BY <1>3, DigitsDetermine

(* SQL's comparison of the texts of instants is a strict order of all of them,
   if not that of time. *)
LEMMA TextOrder ==
    ASSUME NEW i \in Nat, NEW j \in Nat
    PROVE  /\ ~TextBefore(i, i)
           /\ i # j => TextBefore(i, j) \/ TextBefore(j, i)
           /\ \A k \in Nat : TextBefore(i, j) /\ TextBefore(j, k) => TextBefore(i, k)
  <1>1. \A x \in Nat : Second(x) \in Int
    <2> SUFFICES ASSUME NEW x \in Nat PROVE Second(x) \in Int
      OBVIOUS
    <2>1. Digits \in 0 .. Digits
      BY TimeTextAssumption
    <2> DEFINE p == Base ^ Digits
    <2>2. p \in Nat \ {0}
      BY <2>1, Powers, TimeTextAssumption
    <2> HIDE DEF p
    <2>3. x \div p \in Int
      BY <2>2
    <2> QED BY <2>3 DEF Second, p
  <1>2. \A x \in Nat : \A m \in 0 .. Digits : Character(x, m) \in Int
    BY CharacterType
  <1>3. Digits \in Nat
    BY TimeTextAssumption
  <1>4. ~TextBefore(i, i)
    BY <1>1, <1>2 DEF TextBefore
  <1>5. ASSUME i # j PROVE TextBefore(i, j) \/ TextBefore(j, i)
    <2>1. CASE Second(i) # Second(j)
      BY <1>1, <2>1 DEF TextBefore
    <2>2. CASE Second(i) = Second(j)
      <3> DEFINE S == {m \in 0 .. Digits : Character(i, m) # Character(j, m)}
      <3>1. S # {} /\ S \in SUBSET Nat
        BY <1>3, <1>5, <2>2, TextsDiffer
      <3>2. PICK m \in S : \A n \in S : m <= n
        <4> HIDE DEF S
        <4> QED BY <3>1, LeastNatural
      <3>3. \A n \in 0 .. (m - 1) : Character(i, n) = Character(j, n)
        BY <1>3, <3>2
      <3>4. \/ Character(i, m) < Character(j, m)
            \/ Character(j, m) < Character(i, m)
        BY <1>2
      <3> QED BY <2>2, <3>3, <3>4 DEF TextBefore
    <2> QED BY <2>1, <2>2
  <1>6. ASSUME NEW k \in Nat, TextBefore(i, j), TextBefore(j, k) PROVE TextBefore(i, k)
    <2>1. CASE Second(i) = Second(j) /\ Second(j) = Second(k)
      <3>1. PICK m \in 0 .. Digits :
                /\ Character(i, m) < Character(j, m)
                /\ \A l \in 0 .. (m - 1) : Character(i, l) = Character(j, l)
        BY <1>1, <1>6, <2>1 DEF TextBefore
      <3>2. PICK n \in 0 .. Digits :
                /\ Character(j, n) < Character(k, n)
                /\ \A l \in 0 .. (n - 1) : Character(j, l) = Character(k, l)
        BY <1>1, <1>6, <2>1 DEF TextBefore
      <3>3. PICK l \in 0 .. Digits : l = IF m <= n THEN m ELSE n
        OBVIOUS
      <3>4. Character(i, l) < Character(k, l)
        <4>1. CASE m < n
          BY <1>2, <3>1, <3>2, <3>3, <4>1
        <4>2. CASE n < m
          BY <1>2, <3>1, <3>2, <3>3, <4>2
        <4>3. CASE m = n
          BY <1>2, <3>1, <3>2, <3>3, <4>3
        <4> QED BY <4>1, <4>2, <4>3
      <3>5. \A o \in 0 .. (l - 1) : Character(i, o) = Character(k, o)
        BY <3>1, <3>2, <3>3
      <3> QED BY <2>1, <3>4, <3>5 DEF TextBefore
    <2>2. CASE ~(Second(i) = Second(j) /\ Second(j) = Second(k))
      <3>1. Second(i) <= Second(j) /\ Second(j) <= Second(k)
        BY <1>1, <1>6 DEF TextBefore
      <3>2. Second(i) < Second(k)
        BY <1>1, <2>2, <3>1
      <3> QED BY <3>2 DEF TextBefore
    <2> QED BY <2>1, <2>2
  <1> QED BY <1>4, <1>5, <1>6

-----------------------------------------------------------------------------
(* Marks.                                                                  *)

(* A drainer that is about to mark a row has logged it, or somebody has. *)
MarkInv ==
    /\ task \in Seq(Task)
    /\ ts \in Seq(Nat) /\ Len(ts) = Len(task)
    /\ clock \in Nat /\ stamp \in [Task -> Nat]
    /\ file \in Seq(Lines)
    /\ stage \in [Drainer -> {"select", "log", "mark"}]
    /\ batch \in [Drainer -> SUBSET Rows]
    /\ written \subseteq Lines \cup corrupt
    /\ \A d \in Drainer : stage[d] = "mark" => First(d) \in Lines \cup corrupt

LEMMA MarkInit == Init => MarkInv
  BY OutboxAssumption DEF Init, MarkInv, NoTime, Lines

(* The first row of a batch depends on the times of its rows alone, and rows
   are only ever appended. *)
LEMMA FirstStands ==
    ASSUME NEW d \in Drainer, batch'[d] = batch[d],
           \A r \in batch[d] : ts'[r] = ts[r]
    PROVE  First(d)' = First(d)
  <1>1. \A q, r \in batch[d] : Earlier(q, r)' <=> Earlier(q, r)
    BY DEF Earlier
  <1> QED BY <1>1 DEF First

LEMMA OneMoreLine ==
    ASSUME NEW r, file \in Seq(Lines), file' = Append(file, r)
    PROVE  Lines' = Lines \cup {r} /\ file' \in Seq(Lines')
  <1>1. /\ Len(file') = Len(file) + 1 /\ Len(file) \in Nat
        /\ file'[Len(file) + 1] = r
        /\ \A i \in 1 .. Len(file) : file'[i] = file[i]
    OBVIOUS
  <1>2. Lines' = Lines \cup {r}
    BY <1>1 DEF Lines
  <1>3. file \in Seq(Lines \cup {r})
    OBVIOUS
  <1> QED BY <1>2, <1>3

(* A step that adds no row, and changes at most drainer d's batch and stage,
   to one in which it marks nothing or what is logged. *)
LEMMA DrainerMoves ==
    ASSUME NEW d \in Drainer, MarkInv,
           UNCHANGED <<task, ts, clock, stamp>>,
           Lines \cup corrupt \subseteq Lines' \cup corrupt',
           file' \in Seq(Lines'),
           stage' \in [Drainer -> {"select", "log", "mark"}],
           batch' \in [Drainer -> SUBSET Rows],
           written' \subseteq Lines' \cup corrupt',
           stage'[d] = "mark" => First(d)' \in Lines' \cup corrupt',
           \A e \in Drainer : e # d => stage'[e] = stage[e] /\ batch'[e] = batch[e]
    PROVE  MarkInv'
  <1>1. ASSUME NEW e \in Drainer, stage'[e] = "mark"
        PROVE  First(e)' \in Lines' \cup corrupt'
    <2>1. CASE e # d
      <3>1. First(e)' = First(e)
        BY <2>1, FirstStands
      <3>2. First(e) \in Lines \cup corrupt
        BY <1>1, <2>1 DEF MarkInv
      <3> QED BY <3>1, <3>2
    <2> QED BY <1>1, <2>1
  <1> QED BY <1>1 DEF MarkInv, Rows

(* Rows come in behind those that are there. *)
LEMMA RowsComeIn ==
    ASSUME NEW t \in Task, MarkInv, Transition(t) \/ AppendAudit(t)
    PROVE  MarkInv'
  <1>1. /\ UNCHANGED <<written, corrupt, file, stage, batch>>
        /\ clock' \in Nat /\ stamp' \in [Task -> Nat]
    BY OutboxAssumption DEF Transition, AppendAudit, Insert, MarkInv, drains, NoTime
  <1>2. PICK at \in Nat : task' = Append(task, t) /\ ts' = Append(ts, at)
    BY DEF Transition, AppendAudit, Insert, MarkInv
  <1>3. /\ task' \in Seq(Task) /\ ts' \in Seq(Nat)
        /\ Len(ts') = Len(task') /\ Len(task') = Len(task) + 1 /\ Len(task) \in Nat
        /\ \A r \in Rows : ts'[r] = ts[r]
    BY <1>2 DEF MarkInv, Rows
  <1>4. batch' \in [Drainer -> SUBSET Rows']
    BY <1>1, <1>3 DEF MarkInv, Rows
  <1>5. Lines' = Lines
    BY <1>1 DEF Lines
  <1>6. \A d \in Drainer : First(d)' = First(d)
    BY <1>1, <1>3, FirstStands DEF MarkInv
  <1> QED BY <1>1, <1>3, <1>4, <1>5, <1>6 DEF MarkInv

(* Every step of a drainer. *)
LEMMA DrainSteps ==
    ASSUME NEW d \in Drainer, MarkInv, Drain(d) \/ LogFails(d) \/ MarkFails(d)
    PROVE  MarkInv'
  <1>1. UNCHANGED <<task, ts, clock, stamp>>
    BY DEF Drain, Select, LogLine, SkipPoison, Mark, LogFails, MarkFails, rows
  <1>2. /\ stage' \in [Drainer -> {"select", "log", "mark"}]
        /\ \A e \in Drainer : e # d => stage'[e] = stage[e] /\ batch'[e] = batch[e]
    BY DEF MarkInv, Drain, Select, LogLine, SkipPoison, Mark, LogFails, MarkFails,
           Advance, GiveUp
  <1>3. batch' \in [Drainer -> SUBSET Rows]
    BY DEF MarkInv, Drain, Select, LogLine, SkipPoison, Mark, LogFails, MarkFails,
           Advance, GiveUp, Pending
  <1>4. CASE file' = file /\ corrupt' = corrupt /\ stage'[d] # "mark"
             /\ written' \subseteq written \cup {First(d)}
             /\ (written' = written \/ First(d) \in Lines \cup corrupt)
    <2>1. Lines' = Lines
      BY <1>4 DEF Lines
    <2>2. file' \in Seq(Lines') /\ written' \subseteq Lines' \cup corrupt'
      BY <1>4, <2>1 DEF MarkInv
    <2> QED BY <1>1, <1>2, <1>3, <1>4, <2>1, <2>2, DrainerMoves
  <1>5. CASE Select(d) \/ MarkFails(d)
    BY <1>4, <1>5 DEF Select, MarkFails, GiveUp, rows, MarkInv
  <1>6. CASE SkipPoison(d)
    BY <1>4, <1>6 DEF SkipPoison, Advance, MarkInv
  <1>7. CASE Mark(d)
    BY <1>4, <1>7 DEF Mark, Advance, MarkInv
  <1>8. CASE LogLine(d)
    <2>1. Lines' = Lines \cup {First(d)} /\ file' \in Seq(Lines')
      BY <1>8, OneMoreLine DEF LogLine, MarkInv
    <2>2. First(d)' = First(d) /\ UNCHANGED <<written, corrupt>>
      BY <1>1, <1>8, FirstStands DEF LogLine, rows
    <2>3. written' \subseteq Lines' \cup corrupt'
      BY <2>1, <2>2 DEF MarkInv
    <2> QED BY <1>1, <1>2, <1>3, <2>1, <2>2, <2>3, DrainerMoves
  <1>9. CASE LogFails(d)
    <2>1. UNCHANGED <<written, corrupt>> /\ stage'[d] # "mark"
      BY <1>9 DEF LogFails, GiveUp, rows, MarkInv
    <2>2. Lines \subseteq Lines' /\ file' \in Seq(Lines')
      <3>1. CASE file' = file
        BY <3>1 DEF Lines, MarkInv
      <3>2. CASE file' = Append(file, First(d))
        BY <3>2, OneMoreLine DEF MarkInv
      <3> QED BY <1>9, <3>1, <3>2 DEF LogFails
    <2>3. written' \subseteq Lines' \cup corrupt'
      BY <2>1, <2>2 DEF MarkInv
    <2> QED BY <1>1, <1>2, <1>3, <2>1, <2>2, <2>3, DrainerMoves
  <1> QED BY <1>5, <1>6, <1>7, <1>8, <1>9 DEF Drain

LEMMA MarkStep == MarkInv /\ [Next]_vars => MarkInv'
  <1> SUFFICES ASSUME MarkInv, [Next]_vars PROVE MarkInv'
    OBVIOUS
  <1>1. ASSUME UNCHANGED <<rows, file, drains>>,
               clock' \in Nat, stamp' \in [Task -> Nat]
        PROVE  MarkInv'
    <2>1. UNCHANGED <<task, ts, written, corrupt, file, stage, batch>>
      BY <1>1 DEF rows, drains
    <2>2. \A d \in Drainer : First(d)' = First(d)
      BY <2>1, FirstStands
    <2> QED BY <1>1, <2>1, <2>2 DEF MarkInv, Rows, Lines
  <1>2. CASE Tick
    BY <1>1, <1>2 DEF Tick, MarkInv
  <1>3. ASSUME NEW t \in Task, Transition(t) \/ TakeTime(t) \/ AppendAudit(t)
        PROVE  MarkInv'
    <2>1. CASE TakeTime(t)
      BY <1>1, <2>1 DEF TakeTime, MarkInv
    <2> QED BY <1>3, <2>1, RowsComeIn
  <1>4. ASSUME NEW d \in Drainer, Drain(d) \/ LogFails(d) \/ MarkFails(d)
        PROVE  MarkInv'
    BY <1>4, DrainSteps
  <1>5. ASSUME NEW r \in RowId, Damage(r) PROVE MarkInv'
    <2>1. /\ UNCHANGED <<task, ts, clock, stamp, written, file, stage, batch>>
          /\ corrupt \subseteq corrupt'
      BY <1>5 DEF Damage, drains
    <2>2. \A d \in Drainer : First(d)' = First(d)
      BY <2>1, FirstStands
    <2> QED BY <2>1, <2>2 DEF MarkInv, Rows, Lines
  <1>6. CASE Crash
    <2>1. UNCHANGED <<task, ts, clock, written, corrupt, file>>
      BY <1>6 DEF Crash, rows
    <2>2. /\ stamp' \in [Task -> Nat]
          /\ stage' \in [Drainer -> {"select", "log", "mark"}]
          /\ batch' \in [Drainer -> SUBSET Rows]
          /\ \A d \in Drainer : stage'[d] # "mark"
      BY <1>6, OutboxAssumption DEF Crash, NoTime
    <2> QED BY <2>1, <2>2 DEF MarkInv, Rows, Lines
  <1>7. CASE UNCHANGED vars
    BY <1>1, <1>7 DEF vars, MarkInv
  <1> QED BY <1>2, <1>3, <1>4, <1>5, <1>6, <1>7 DEF Next

(* sqlite.go DrainOutbox, log.go Log: a row's written_at is set only when its
   line is in the file, or its payload could not be read. *)
THEOREM NoEventLost == Spec => []MarkedIsLogged
  <1>1. MarkInv => MarkedIsLogged
    BY DEF MarkInv, MarkedIsLogged
  <1> QED BY <1>1, MarkInit, MarkStep, PTL DEF Spec

-----------------------------------------------------------------------------
(* The order of the lines.                                                 *)

(***************************************************************************)
(* No two events have one instant: the clock moves on whenever it is read, *)
(* and a time once taken is inserted once.                                 *)
(***************************************************************************)
ClockInv ==
    /\ clock \in 0 .. NoTime
    /\ task \in Seq(Task) /\ ts \in Seq(0 .. MaxTime) /\ Len(ts) = Len(task)
    /\ stamp \in [Task -> 0 .. NoTime]
    /\ \A r \in Rows : ts[r] < clock
    /\ \A q, r \in Rows : ts[q] = ts[r] => q = r
    /\ \A t \in Task : stamp[t] # NoTime =>
          /\ stamp[t] < clock
          /\ \A r \in Rows : ts[r] # stamp[t]
          /\ \A u \in Task : stamp[u] = stamp[t] => u = t

LEMMA ClockInit == Init => ClockInv
  BY OutboxAssumption DEF Init, ClockInv, NoTime, Rows

(* What a sequence is made of. *)
LEMMA Elements ==
    ASSUME NEW S, NEW s \in Seq(S)
    PROVE  \A i \in 1 .. Len(s) : s[i] \in S
  OBVIOUS

LEMMA RowTimes ==
    ASSUME ClockInv
    PROVE  /\ Len(task) \in Nat
           /\ \A r \in Rows : ts[r] \in 0 .. MaxTime /\ ts[r] \in Nat
  <1>1. ts \in Seq(0 .. MaxTime) /\ Len(ts) = Len(task) /\ Len(task) \in Nat
    BY DEF ClockInv
  <1>2. \A r \in 1 .. Len(ts) : ts[r] \in 0 .. MaxTime
    BY <1>1, Elements, Zenon
  <1> QED BY <1>1, <1>2 DEF Rows

(* A row comes in with a time nobody has. *)
LEMMA ClockRow ==
    ASSUME ClockInv, NEW t \in Task, NEW at \in 0 .. MaxTime,
           task' = Append(task, t), ts' = Append(ts, at),
           clock' \in 0 .. NoTime, clock' >= clock, at < clock',
           \A r \in Rows : ts[r] # at,
           stamp' \in [Task -> 0 .. NoTime],
           \A u \in Task : stamp'[u] # NoTime => stamp'[u] = stamp[u] /\ stamp[u] # at
    PROVE  ClockInv'
  <1>1. /\ Len(task) \in Nat /\ Rows = 1 .. Len(task) /\ Rows' = 1 .. (Len(task) + 1)
        /\ task' \in Seq(Task) /\ ts' \in Seq(0 .. MaxTime) /\ Len(ts') = Len(task')
        /\ ts'[Len(task) + 1] = at
        /\ \A r \in Rows : ts'[r] = ts[r] /\ ts[r] \in 0 .. MaxTime
    <2>1. /\ Len(task) \in Nat /\ Len(ts) = Len(task)
          /\ task \in Seq(Task) /\ ts \in Seq(0 .. MaxTime)
      BY DEF ClockInv
    <2>2. /\ task' \in Seq(Task) /\ ts' \in Seq(0 .. MaxTime)
          /\ Len(ts') = Len(task') /\ Len(task') = Len(task) + 1
      BY <2>1
    <2>3. ts'[Len(task) + 1] = at /\ \A r \in 1 .. Len(task) : ts'[r] = ts[r]
      BY <2>1
    <2> QED BY <2>1, <2>2, <2>3, RowTimes DEF Rows
  <1>2. \A r \in Rows' : r \in Rows \/ r = Len(task) + 1
    BY <1>1
  <1>3. MaxTime \in Nat /\ clock \in Int
    BY OutboxAssumption DEF ClockInv, NoTime
  <1>4. \A r \in Rows' : ts'[r] < clock'
    <2>1. clock' \in Int
      BY <1>3 DEF NoTime
    <2>2. ASSUME NEW r \in Rows PROVE ts'[r] < clock'
      <3>1. ts'[r] = ts[r] /\ ts[r] \in Int
        BY <1>1
      <3>2. ts[r] < clock
        BY <2>2 DEF ClockInv
      <3> QED BY <1>3, <2>1, <3>1, <3>2
    <2> QED BY <1>1, <1>2, <2>2
  <1>5. \A q, r \in Rows' : ts'[q] = ts'[r] => q = r
    BY <1>1, <1>2 DEF ClockInv
  <1>6. ASSUME NEW u \in Task, stamp'[u] # NoTime
        PROVE  /\ stamp'[u] < clock'
               /\ \A r \in Rows' : ts'[r] # stamp'[u]
               /\ \A v \in Task : stamp'[v] = stamp'[u] => v = u
    <2>1. stamp'[u] = stamp[u] /\ stamp[u] # at /\ stamp[u] # NoTime
      BY <1>6
    <2>2. stamp[u] \in Int /\ stamp[u] < clock /\ clock' \in Int
      BY <1>3, <2>1 DEF ClockInv, NoTime
    <2>3. \A r \in Rows' : ts'[r] # stamp'[u]
      BY <1>1, <1>2, <2>1 DEF ClockInv
    <2>4. \A v \in Task : stamp'[v] = stamp'[u] => v = u
      BY <1>6, <2>1 DEF ClockInv
    <2>5. stamp'[u] < clock'
      BY <1>3, <2>1, <2>2
    <2> QED BY <2>3, <2>4, <2>5
  <1> QED BY <1>1, <1>4, <1>5, <1>6 DEF ClockInv

LEMMA ClockStep == ClockInv /\ [Next]_vars => ClockInv'
  <1> SUFFICES ASSUME ClockInv, [Next]_vars PROVE ClockInv'
    OBVIOUS
  <1>0. MaxTime \in Nat /\ NoTime = MaxTime + 1 /\ clock \in 0 .. NoTime
    BY OutboxAssumption DEF ClockInv, NoTime
  <1>1. ASSUME UNCHANGED <<task, ts>>, clock' \in 0 .. NoTime, clock' >= clock,
               stamp' \in [Task -> 0 .. NoTime],
               \A t \in Task : stamp'[t] # NoTime => stamp'[t] = stamp[t]
        PROVE  ClockInv'
    <2>1. Rows' = Rows /\ (\A r \in Rows : ts[r] \in Int /\ ts'[r] = ts[r])
      BY <1>1, RowTimes DEF Rows
    <2>2. \A r \in Rows' : ts'[r] < clock'
      BY <1>0, <1>1, <2>1 DEF ClockInv
    <2>3. \A t \in Task : stamp'[t] # NoTime => stamp'[t] < clock'
      BY <1>0, <1>1 DEF ClockInv
    <2> QED BY <1>1, <2>1, <2>2, <2>3 DEF ClockInv
  <1>2. CASE Tick
    BY <1>0, <1>1, <1>2 DEF Tick, rows, ClockInv
  <1>3. ASSUME NEW t \in Task, Transition(t) PROVE ClockInv'
    <2>1. /\ task' = Append(task, t) /\ ts' = Append(ts, clock)
          /\ clock \in 0 .. MaxTime /\ clock' = clock + 1 /\ stamp' = stamp
      BY <1>0, <1>3 DEF Transition, Insert
    <2>2. \A r \in Rows : ts[r] # clock
      BY DEF ClockInv
    <2>3. \A u \in Task : stamp[u] # NoTime => stamp[u] # clock
      BY DEF ClockInv
    <2>4. clock' \in 0 .. NoTime /\ clock' >= clock /\ clock < clock'
      BY <1>0, <2>1
    <2>5. stamp' \in [Task -> 0 .. NoTime]
      BY <2>1 DEF ClockInv
    <2> QED BY <2>1, <2>2, <2>3, <2>4, <2>5, ClockRow
  <1>4. ASSUME NEW t \in Task, AppendAudit(t) PROVE ClockInv'
    <2>1. /\ task' = Append(task, t) /\ ts' = Append(ts, stamp[t])
          /\ stamp[t] # NoTime /\ clock' = clock /\ stamp' = [stamp EXCEPT ![t] = NoTime]
      BY <1>4 DEF AppendAudit, Insert
    <2>2. stamp[t] \in 0 .. MaxTime /\ stamp[t] < clock' /\ clock' \in 0 .. NoTime /\ clock' >= clock
      BY <1>0, <2>1 DEF ClockInv
    <2>3. /\ stamp' \in [Task -> 0 .. NoTime]
          /\ \A u \in Task : stamp'[u] # NoTime => stamp'[u] = stamp[u] /\ stamp[u] # stamp[t]
      BY <1>0, <2>1 DEF ClockInv
    <2>4. \A r \in Rows : ts[r] # stamp[t]
      BY <2>1 DEF ClockInv
    <2> QED BY <2>1, <2>2, <2>3, <2>4, ClockRow
  <1>5. ASSUME NEW t \in Task, TakeTime(t) PROVE ClockInv'
    <2>1. /\ UNCHANGED <<task, ts>> /\ clock \in 0 .. MaxTime /\ clock' = clock + 1
          /\ stamp' = [stamp EXCEPT ![t] = clock]
      BY <1>0, <1>5 DEF TakeTime, rows
    <2>2. Rows' = Rows /\ (\A r \in Rows : ts[r] \in Int /\ ts'[r] = ts[r])
      BY <2>1, RowTimes DEF Rows
    <2>3. \A r \in Rows' : ts'[r] < clock'
      BY <1>0, <2>1, <2>2 DEF ClockInv
    <2>4. clock' \in 0 .. NoTime /\ stamp' \in [Task -> 0 .. NoTime]
      BY <1>0, <2>1 DEF ClockInv
    <2>5. ASSUME NEW u \in Task, stamp'[u] # NoTime
          PROVE  /\ stamp'[u] < clock'
                 /\ \A r \in Rows' : ts'[r] # stamp'[u]
                 /\ \A v \in Task : stamp'[v] = stamp'[u] => v = u
      <3>1. CASE u = t
        BY <1>0, <2>1, <2>2, <3>1 DEF ClockInv
      <3>2. CASE u # t
        BY <1>0, <2>1, <2>2, <2>5, <3>2 DEF ClockInv
      <3> QED BY <3>1, <3>2
    <2> QED BY <2>1, <2>2, <2>3, <2>4, <2>5 DEF ClockInv
  <1>6. ASSUME NEW d \in Drainer, Drain(d) \/ LogFails(d) \/ MarkFails(d) PROVE ClockInv'
    <2>1. UNCHANGED <<task, ts, clock, stamp>>
      BY <1>6 DEF Drain, Select, LogLine, SkipPoison, Mark, LogFails, MarkFails, rows
    <2> QED BY <1>0, <1>1, <2>1 DEF ClockInv
  <1>7. ASSUME NEW r \in RowId, Damage(r) PROVE ClockInv'
    BY <1>0, <1>1, <1>7 DEF Damage, ClockInv
  <1>8. CASE Crash
    BY <1>0, <1>1, <1>8 DEF Crash, rows, ClockInv
  <1>9. CASE UNCHANGED vars
    BY <1>0, <1>1, <1>9 DEF vars, rows, ClockInv
  <1> QED BY <1>2, <1>3, <1>4, <1>5, <1>6, <1>7, <1>8, <1>9 DEF Next

(* Of two rows one sorts before the other. *)
LEMMA RowsOrder ==
    ASSUME ClockInv, NEW q \in Rows, NEW r \in Rows
    PROVE  /\ ~Earlier(r, r)
           /\ q # r => Earlier(q, r) \/ Earlier(r, q)
           /\ \A p \in Rows : Earlier(p, q) /\ Earlier(q, r) => Earlier(p, r)
  <1>1. \A p \in Rows : ts[p] \in 0 .. MaxTime
    BY RowTimes
  <1>2. \A p \in Rows : ts[p] \in Nat
    BY RowTimes
  <1>3. \A o, p \in Rows : Earlier(o, p) <=> TextBefore(ts[o], ts[p])
    <2>1. \A x, y \in 0 .. MaxTime : Sorts[x][y] <=> TextBefore(x, y)
      BY Zenon DEF Sorts
    <2> QED BY <1>1, <2>1 DEF Earlier
  <1>4. q # r => ts[q] # ts[r]
    BY DEF ClockInv
  <1>5. ~TextBefore(ts[r], ts[r])
    BY <1>2, TextOrder
  <1>6. q # r => TextBefore(ts[q], ts[r]) \/ TextBefore(ts[r], ts[q])
    BY <1>2, <1>4, TextOrder
  <1>7. ASSUME NEW p \in Rows, TextBefore(ts[p], ts[q]), TextBefore(ts[q], ts[r])
        PROVE  TextBefore(ts[p], ts[r])
    BY <1>2, <1>7, TextOrder
  <1> QED BY <1>3, <1>5, <1>6, <1>7

(* Those before a row are before every later one, and not as many. *)
LEMMA FewerBefore ==
    ASSUME ClockInv, NEW B \in SUBSET Rows, NEW q \in Rows, NEW r \in Rows, Earlier(q, r)
    PROVE  LET before(x) == {p \in B : Earlier(p, x)}
           IN  /\ Cardinality(before(q)) \in Nat /\ Cardinality(before(r)) \in Nat
               /\ Cardinality(before(q)) <= Cardinality(before(r))
               /\ q \in B => Cardinality(before(q)) < Cardinality(before(r))
  <1> DEFINE before(x) == {p \in B : Earlier(p, x)}
  <1>1. IsFiniteSet(before(r))
    <2>1. IsFiniteSet(Rows)
      <3>1. 1 \in Int /\ Len(task) \in Int
        BY DEF ClockInv
      <3> QED BY <3>1, FS_Interval DEF Rows
    <2> QED BY <2>1, FS_Subset
  <1>2. before(q) \in SUBSET before(r)
    BY RowsOrder
  <1>3. q \in B => q \in before(r) /\ q \notin before(q)
    BY RowsOrder
  <1> HIDE DEF before
  <1>4. /\ IsFiniteSet(before(q)) /\ Cardinality(before(q)) <= Cardinality(before(r))
        /\ Cardinality(before(r)) = Cardinality(before(q)) => before(r) = before(q)
    BY <1>1, <1>2, FS_Subset
  <1>5. Cardinality(before(q)) \in Nat /\ Cardinality(before(r)) \in Nat
    BY <1>1, <1>4, FS_CardinalityType
  <1>6. q \in B => Cardinality(before(q)) < Cardinality(before(r))
    BY <1>3, <1>4, <1>5
  <1> QED BY <1>4, <1>5, <1>6 DEF before

(* The first row of a batch: ORDER BY ts does have a least one. *)
LEMMA FirstExists ==
    ASSUME ClockInv, NEW d \in Drainer, batch[d] \in SUBSET Rows, batch[d] # {}
    PROVE  First(d) \in batch[d] /\ \A q \in batch[d] : ~Earlier(q, First(d))
  <1> DEFINE B == batch[d]
             before(x) == {p \in B : Earlier(p, x)}
             S == {Cardinality(before(r)) : r \in B}
  <1>1. \A r \in B : Cardinality(before(r)) \in Nat
    <2> SUFFICES ASSUME NEW r \in B PROVE Cardinality(before(r)) \in Nat
      OBVIOUS
    <2>1. IsFiniteSet(before(r))
      <3>1. 1 \in Int /\ Len(task) \in Int
        BY DEF ClockInv
      <3>2. IsFiniteSet(Rows)
        BY <3>1, FS_Interval DEF Rows
      <3> QED BY <3>2, FS_Subset
    <2> QED BY <2>1, FS_CardinalityType
  <1>2. PICK n \in S : \A m \in S : n <= m
    <2>1. S \in SUBSET Nat /\ S # {}
      BY <1>1
    <2> HIDE DEF S
    <2> QED BY <2>1, LeastNatural
  <1>3. PICK r \in B : n = Cardinality(before(r))
    BY <1>2
  <1>4. ASSUME NEW q \in B, Earlier(q, r) PROVE FALSE
    <2>1. Cardinality(before(q)) < Cardinality(before(r))
      BY <1>4, FewerBefore
    <2>2. Cardinality(before(r)) <= Cardinality(before(q))
      BY <1>2, <1>3
    <2> QED BY <1>1, <2>1, <2>2
  <1>5. \E x \in batch[d] : \A q \in batch[d] : ~Earlier(q, x)
    BY <1>4
  <1> QED BY <1>5 DEF First

(***************************************************************************)
(* What belongs before a row: the earlier ones that can be read.  A        *)
(* drainer's batch lacks none of it that is not in the file, because the   *)
(* rows are taken and dealt with in the order of their texts; so the line  *)
(* it writes next comes after all of it.                                   *)
(***************************************************************************)
Due(r) == {q \in 1 .. (r - 1) : q \notin corrupt /\ ~Earlier(r, q)}

OrderInv ==
    /\ Lines \subseteq Rows
    /\ \A d \in Drainer : stage[d] # "select" => batch[d] # {}
    /\ \A d \in Drainer : \A r \in batch[d] : Due(r) \subseteq batch[d] \cup Lines
    /\ \A i \in 1 .. Len(file) : \A r \in Rows :
          file[i] = r => Due(r) \subseteq {file[j] : j \in 1 .. (i - 1)}

LEMMA OrderInit == Init => OrderInv
  BY DEF Init, OrderInv, Lines, Rows

(* Nothing more becomes due before a row that is there. *)
LEMMA DueShrinks ==
    ASSUME Rows \subseteq Rows', corrupt \subseteq corrupt',
           \A r \in Rows : ts'[r] = ts[r],
           Len(task) \in Nat, NEW r \in Rows
    PROVE  Due(r)' \subseteq Due(r)
  <1>1. r \in Int /\ \A q \in 1 .. (r - 1) : q \in Rows
    BY DEF Rows
  <1>2. \A q \in 1 .. (r - 1) : Earlier(r, q)' <=> Earlier(r, q)
    BY <1>1 DEF Earlier
  <1> QED BY <1>2 DEF Due

(* Steps that write no line and drop no row but with its whole batch. *)
LEMMA OrderIdle ==
    ASSUME MarkInv, OrderInv, file' = file, Rows \subseteq Rows',
           \A r \in Rows : Due(r)' \subseteq Due(r),
           \A d \in Drainer : \/ batch'[d] = batch[d] /\ stage'[d] = stage[d]
                              \/ batch'[d] = {} /\ stage'[d] = "select"
    PROVE  OrderInv'
  <1>1. Lines' = Lines
    BY DEF Lines
  <1>2. ASSUME NEW d \in Drainer, NEW r \in batch'[d] PROVE Due(r)' \subseteq batch'[d] \cup Lines'
    <2>1. batch'[d] = batch[d] /\ r \in Rows
      BY <1>2 DEF MarkInv
    <2> QED BY <1>1, <1>2, <2>1 DEF OrderInv
  <1>3. ASSUME NEW i \in 1 .. Len(file'), NEW r \in Rows', file'[i] = r
        PROVE  Due(r)' \subseteq {file'[j] : j \in 1 .. (i - 1)}
    <2>1. file[i] = r /\ r \in Rows /\ i \in 1 .. Len(file)
      BY <1>3 DEF OrderInv, Lines
    <2> QED BY <2>1 DEF OrderInv
  <1>4. \A d \in Drainer : stage'[d] # "select" => batch'[d] # {}
    BY DEF OrderInv
  <1> QED BY <1>1, <1>2, <1>3, <1>4 DEF OrderInv

(* The first row of a batch is done with: it is in the file, or unreadable. *)
LEMMA OrderDrops ==
    ASSUME MarkInv, ClockInv, OrderInv, NEW d \in Drainer,
           UNCHANGED <<task, ts, corrupt, file>>,
           stage[d] # "select", First(d) \in Lines \cup corrupt, Advance(d)
    PROVE  OrderInv'
  <1>1. Lines' = Lines /\ Rows' = Rows /\ (\A r : Due(r)' = Due(r))
    BY DEF Lines, Rows, Due, Earlier
  <1>2. /\ batch'[d] = batch[d] \ {First(d)}
        /\ \A e \in Drainer : e # d => batch'[e] = batch[e] /\ stage'[e] = stage[e]
        /\ stage'[d] # "select" => batch'[d] # {}
    BY DEF Advance, MarkInv
  <1>3. ASSUME NEW r \in batch'[d] PROVE Due(r)' \subseteq batch'[d] \cup Lines'
    <2>1. Due(r) \subseteq batch[d] \cup Lines
      BY <1>2, <1>3 DEF OrderInv
    <2>2. \A q \in Due(r) : q \notin corrupt
      BY DEF Due
    <2> QED BY <1>1, <1>2, <2>1, <2>2
  <1>4. ASSUME NEW e \in Drainer, NEW r \in batch'[e] PROVE Due(r)' \subseteq batch'[e] \cup Lines'
    <2>1. CASE e # d
      BY <1>1, <1>2, <1>4, <2>1 DEF OrderInv
    <2> QED BY <1>3, <1>4, <2>1
  <1>5. \A e \in Drainer : stage'[e] # "select" => batch'[e] # {}
    BY <1>2 DEF OrderInv
  <1>6. \A i \in 1 .. Len(file') : \A r \in Rows' :
          file'[i] = r => Due(r)' \subseteq {file'[j] : j \in 1 .. (i - 1)}
    BY <1>1 DEF OrderInv
  <1> QED BY <1>1, <1>4, <1>5, <1>6 DEF OrderInv

(* The line of a batch's first row: what is due before it is in the file. *)
LEMMA OrderLine ==
    ASSUME MarkInv, ClockInv, OrderInv, NEW d \in Drainer,
           UNCHANGED <<task, ts, corrupt>>,
           stage[d] # "select", file' = Append(file, First(d)),
           \A e \in Drainer : \/ batch'[e] = batch[e] /\ (stage[e] = "select" => stage'[e] = "select")
                              \/ batch'[e] = {} /\ stage'[e] = "select"
    PROVE  OrderInv'
  <1> DEFINE x == First(d)
             n == Len(file)
  <1>1. Rows' = Rows /\ (\A r : Due(r)' = Due(r))
    BY DEF Rows, Due, Earlier
  <1>2. /\ batch[d] \in SUBSET Rows /\ batch[d] # {} /\ file \in Seq(Lines)
        /\ Len(task) \in Nat
    BY DEF MarkInv, OrderInv
  <1>3. x \in batch[d] /\ x \in Rows /\ \A q \in batch[d] : ~Earlier(q, x)
    BY <1>2, FirstExists
  <1> HIDE DEF x
  <1>4. Lines' = Lines \cup {x}
    BY <1>2, OneMoreLine DEF x
  <1>5. n \in Nat /\ Len(file') = n + 1 /\ file'[n + 1] = x /\ \A i \in 1 .. n : file'[i] = file[i]
    BY <1>2 DEF x
  <1>6. ASSUME NEW q \in Due(x) PROVE q \in Lines
    <2>1. q \in 1 .. (x - 1) /\ q \in Rows /\ q # x /\ ~Earlier(x, q)
      BY <1>2, <1>3 DEF Due, Rows
    <2>2. Earlier(q, x)
      BY <1>3, <2>1, RowsOrder
    <2> QED BY <1>3, <2>2 DEF OrderInv
  <1>7. ASSUME NEW i \in 1 .. (n + 1), NEW r \in Rows, file'[i] = r
        PROVE  Due(r) \subseteq {file'[j] : j \in 1 .. (i - 1)}
    <2>1. CASE i = n + 1
      <3>1. Lines \subseteq {file'[j] : j \in 1 .. n}
        BY <1>5 DEF Lines
      <3> QED BY <1>5, <1>6, <1>7, <2>1, <3>1
    <2>2. CASE i \in 1 .. n
      <3>1. Due(r) \subseteq {file[j] : j \in 1 .. (i - 1)}
        BY <1>5, <1>7, <2>2 DEF OrderInv
      <3>2. file'[i] = file[i] /\ \A j \in 1 .. (i - 1) : file'[j] = file[j]
        BY <1>5, <2>2
      <3> QED BY <3>1, <3>2
    <2> QED BY <1>5, <2>1, <2>2
  <1>8. ASSUME NEW e \in Drainer, NEW r \in batch'[e] PROVE Due(r)' \subseteq batch'[e] \cup Lines'
    BY <1>1, <1>4, <1>8 DEF OrderInv
  <1>9. \A e \in Drainer : stage'[e] # "select" => batch'[e] # {}
    BY DEF OrderInv
  <1>10. \A i \in 1 .. Len(file') : \A r \in Rows' :
          file'[i] = r => Due(r)' \subseteq {file'[j] : j \in 1 .. (i - 1)}
    BY <1>1, <1>5, <1>7
  <1> QED BY <1>1, <1>3, <1>4, <1>8, <1>9, <1>10 DEF OrderInv

(* A batch is taken: whatever is due before one of its rows, and not marked,
   comes in with it. *)
LEMMA OrderSelect ==
    ASSUME MarkInv, ClockInv, OrderInv, NEW d \in Drainer, Select(d)
    PROVE  OrderInv'
  <1>1. /\ UNCHANGED <<task, ts, written, corrupt, file>>
        /\ Rows' = Rows /\ Lines' = Lines /\ (\A r : Due(r)' = Due(r))
    BY DEF Select, rows, Rows, Lines, Due, Earlier
  <1> DEFINE before(x) == {p \in Pending : Earlier(p, x)}
  <1>2. /\ batch'[d] = {r \in Pending : Cardinality(before(r)) < Limit[d]}
        /\ \A e \in Drainer : e # d => batch'[e] = batch[e] /\ stage'[e] = stage[e]
        /\ stage'[d] = IF Pending = {} THEN "select" ELSE "log"
    BY DEF Select, MarkInv
  <1>3. Pending \in SUBSET Rows /\ Len(task) \in Nat /\ Limit[d] \in Nat /\ Limit[d] > 0
    BY OutboxAssumption DEF Pending, MarkInv
  <1>4. ASSUME NEW r \in batch'[d], NEW q \in Due(r) PROVE q \in batch'[d] \cup Lines
    <2>1. /\ r \in Rows /\ r \in Pending /\ Cardinality(before(r)) < Limit[d]
          /\ q \in 1 .. (r - 1) /\ q \notin corrupt /\ ~Earlier(r, q)
      BY <1>2, <1>3 DEF Due
    <2>2. q \in Rows /\ q # r
      BY <1>3, <2>1 DEF Rows
    <2>3. CASE q \in written
      BY <2>1, <2>3 DEF MarkInv
    <2>4. CASE q \notin written
      <3>1. q \in Pending /\ Earlier(q, r)
        BY <2>1, <2>2, <2>4, RowsOrder DEF Pending
      <3>2. /\ Cardinality(before(q)) \in Nat /\ Cardinality(before(r)) \in Nat
            /\ Cardinality(before(q)) <= Cardinality(before(r))
        BY <1>3, <2>1, <2>2, <3>1, FewerBefore
      <3>3. Cardinality(before(q)) < Limit[d]
        <4> HIDE DEF before
        <4> QED BY <1>3, <2>1, <3>2
      <3> QED BY <1>2, <3>1, <3>3
    <2> QED BY <2>3, <2>4
  <1>5. Pending # {} => batch'[d] # {}
    <2> SUFFICES ASSUME Pending # {} PROVE batch'[d] # {}
      OBVIOUS
    <2> DEFINE S == {Cardinality(before(r)) : r \in Pending}
    <2>1. IsFiniteSet(Rows)
      <3>1. 1 \in Int /\ Len(task) \in Int
        BY <1>3
      <3> QED BY <3>1, FS_Interval DEF Rows
    <2>2. ASSUME NEW r \in Pending PROVE IsFiniteSet(before(r)) /\ Cardinality(before(r)) \in Nat
      <3>1. IsFiniteSet(before(r))
        BY <1>3, <2>1, FS_Subset
      <3> QED BY <3>1, FS_CardinalityType
    <2>3. PICK n \in S : \A m \in S : n <= m
      <3>1. S \in SUBSET Nat /\ S # {}
        BY <2>2
      <3> HIDE DEF S
      <3> QED BY <3>1, LeastNatural
    <2>4. PICK r \in Pending : n = Cardinality(before(r))
      BY <2>3
    <2>5. ASSUME NEW q \in Pending, Earlier(q, r) PROVE FALSE
      <3>1. Cardinality(before(q)) < Cardinality(before(r))
        BY <1>3, <2>5, FewerBefore
      <3>2. Cardinality(before(r)) <= Cardinality(before(q))
        BY <2>3, <2>4
      <3> QED BY <2>2, <3>1, <3>2
    <2>6. before(r) = {}
      BY <2>5
    <2>7. Cardinality(before(r)) = 0
      <3> HIDE DEF before
      <3> QED BY <2>6, FS_EmptySet
    <2> QED BY <1>2, <1>3, <2>7
  <1>6. ASSUME NEW e \in Drainer, NEW r \in batch'[e] PROVE Due(r)' \subseteq batch'[e] \cup Lines'
    <2>1. CASE e # d
      BY <1>1, <1>2, <1>6, <2>1 DEF OrderInv
    <2> QED BY <1>1, <1>4, <1>6, <2>1
  <1>7. \A e \in Drainer : stage'[e] # "select" => batch'[e] # {}
    BY <1>2, <1>5 DEF OrderInv
  <1>8. \A i \in 1 .. Len(file') : \A r \in Rows' :
          file'[i] = r => Due(r)' \subseteq {file'[j] : j \in 1 .. (i - 1)}
    BY <1>1 DEF OrderInv
  <1> QED BY <1>1, <1>6, <1>7, <1>8 DEF OrderInv

LEMMA OrderStep == MarkInv /\ ClockInv /\ OrderInv /\ [Next]_vars => OrderInv'
  <1> SUFFICES ASSUME MarkInv, ClockInv, OrderInv, [Next]_vars PROVE OrderInv'
    OBVIOUS
  <1>1. Len(task) \in Nat /\ Len(ts) = Len(task) /\ task \in Seq(Task) /\ ts \in Seq(Nat)
    BY DEF MarkInv
  <1>2. ASSUME UNCHANGED <<task, ts, file>>, corrupt \subseteq corrupt',
               \A d \in Drainer : \/ batch'[d] = batch[d] /\ stage'[d] = stage[d]
                                  \/ batch'[d] = {} /\ stage'[d] = "select"
        PROVE  OrderInv'
    <2>1. Rows' = Rows
      BY <1>2 DEF Rows
    <2>2. \A r \in Rows : Due(r)' \subseteq Due(r)
      BY <1>1, <1>2, <2>1, DueShrinks
    <2> QED BY <1>2, <2>1, <2>2, OrderIdle
  <1>3. ASSUME NEW t \in Task, Transition(t) \/ AppendAudit(t) PROVE OrderInv'
    <2>1. /\ UNCHANGED <<file, stage, batch, corrupt>>
          /\ \E at : task' = Append(task, t) /\ ts' = Append(ts, at)
      BY <1>3 DEF Transition, AppendAudit, Insert, drains
    <2>2. Rows \subseteq Rows' /\ \A r \in Rows : ts'[r] = ts[r]
      BY <1>1, <2>1 DEF Rows
    <2>3. \A r \in Rows : Due(r)' \subseteq Due(r)
      BY <1>1, <2>1, <2>2, DueShrinks
    <2> QED BY <2>1, <2>2, <2>3, OrderIdle
  <1>4. CASE Tick \/ (\E t \in Task : TakeTime(t)) \/ UNCHANGED vars
    BY <1>2, <1>4 DEF Tick, TakeTime, vars, rows, drains
  <1>5. CASE Crash
    BY <1>2, <1>5 DEF Crash, rows
  <1>6. ASSUME NEW r \in RowId, Damage(r) PROVE OrderInv'
    BY <1>2, <1>6 DEF Damage, drains
  <1>7. ASSUME NEW d \in Drainer, MarkFails(d) PROVE OrderInv'
    BY <1>2, <1>7 DEF MarkFails, GiveUp, rows, MarkInv
  <1>8. ASSUME NEW d \in Drainer, SkipPoison(d) PROVE OrderInv'
    BY <1>8, OrderDrops DEF SkipPoison
  <1>9. ASSUME NEW d \in Drainer, Mark(d) PROVE OrderInv'
    <2>1. First(d) \in Lines \cup corrupt
      BY <1>9 DEF Mark, MarkInv
    <2> QED BY <1>9, <2>1, OrderDrops DEF Mark
  <1>10. ASSUME NEW d \in Drainer, LogLine(d) PROVE OrderInv'
    <2>1. \A e \in Drainer : batch'[e] = batch[e] /\ (stage[e] = "select" => stage'[e] = "select")
      BY <1>10 DEF LogLine, MarkInv
    <2> QED BY <1>10, <2>1, OrderLine DEF LogLine, rows
  <1>11. ASSUME NEW d \in Drainer, LogFails(d) PROVE OrderInv'
    <2>1. /\ UNCHANGED <<task, ts, corrupt>> /\ stage[d] # "select"
          /\ \A e \in Drainer : \/ batch'[e] = batch[e] /\ stage'[e] = stage[e]
                                \/ batch'[e] = {} /\ stage'[e] = "select"
      BY <1>11 DEF LogFails, GiveUp, rows, MarkInv
    <2>2. CASE file' = file
      BY <1>2, <2>1, <2>2
    <2>3. CASE file' = Append(file, First(d))
      BY <2>1, <2>3, OrderLine
    <2> QED BY <1>11, <2>2, <2>3 DEF LogFails
  <1>12. ASSUME NEW d \in Drainer, Select(d) PROVE OrderInv'
    BY <1>12, OrderSelect
  <1> QED BY <1>3, <1>4, <1>5, <1>6, <1>7, <1>8, <1>9, <1>10, <1>11, <1>12 DEF Next, Drain

(* sqlite.go DrainOutbox: each line of the file comes after the lines of the
   earlier events of its task, whoever drains, whatever fails, and however
   small the batches are. *)
THEOREM LinesInOrder == Spec => []HistoryInOrder
  <1>1. OrderInv => HistoryInOrder
    <2> SUFFICES ASSUME OrderInv, NEW i \in 1 .. Len(file), NEW q \in 1 .. (file[i] - 1),
                        q \notin corrupt, ~Earlier(file[i], q)
                 PROVE  \E j \in 1 .. (i - 1) : file[j] = q
      BY DEF HistoryInOrder
    <2>1. q \in Due(file[i]) /\ file[i] \in Rows
      BY DEF Due, OrderInv, Lines
    <2> QED BY <2>1 DEF OrderInv
  <1> QED BY <1>1, MarkInit, MarkStep, ClockInit, ClockStep, OrderInit, OrderStep, PTL DEF Spec

-----------------------------------------------------------------------------
(* How often a line is repeated.                                           *)

(***************************************************************************)
(* A row that is not marked has a line more than the failures and restarts *)
(* explain only for each drainer about to mark it; a marked one may yet    *)
(* get a line from each drainer that has it in hand.                       *)
(***************************************************************************)
Marks(d, r) == stage[d] = "mark" /\ First(d) = r
Holds(d, r) == stage[d] # "select" /\ r \in batch[d] /\ ~Marks(d, r)
Marking(r)  == {d \in Drainer : Marks(d, r)}
Holding(r)  == {d \in Drainer : Holds(d, r)}
Copies(r)   == {i \in 1 .. Len(file) : file[i] = r}
Drainers    == Cardinality(Drainer)

CopiesBounded(r) ==
    /\ r \notin written =>
          Cardinality(Copies(r)) <= Cardinality(Marking(r)) + faults + Drainers * crashes
    /\ r \in written =>
          Cardinality(Copies(r)) + Cardinality(Holding(r)) <= Drainers * (crashes + 1) + faults

CopyInv ==
    /\ faults \in Nat /\ crashes \in Nat
    /\ \A r \in Rows : CopiesBounded(r)

(* Two groups with nobody in common count no more than everybody. *)
LEMMA TwoGroups ==
    ASSUME NEW S, IsFiniteSet(S), NEW A \in SUBSET S, NEW B \in SUBSET S, A \cap B = {}
    PROVE  /\ IsFiniteSet(A) /\ IsFiniteSet(B)
           /\ Cardinality(A) \in Nat /\ Cardinality(B) \in Nat /\ Cardinality(S) \in Nat
           /\ Cardinality(A) + Cardinality(B) <= Cardinality(S)
  <1>1. IsFiniteSet(A) /\ IsFiniteSet(B)
    BY FS_Subset
  <1>2. Cardinality(A) \in Nat /\ Cardinality(B) \in Nat /\ Cardinality(S) \in Nat
    BY <1>1, FS_CardinalityType
  <1>3. Cardinality(A \cup B) = Cardinality(A) + Cardinality(B) - Cardinality(A \cap B)
    BY <1>1, FS_Union
  <1>4. Cardinality(A \cap B) = 0
    BY FS_EmptySet
  <1>5. Cardinality(A \cup B) <= Cardinality(S)
    <2>1. A \cup B \in SUBSET S
      OBVIOUS
    <2> QED BY <2>1, FS_Subset
  <1>6. Cardinality(A) + Cardinality(B) <= Cardinality(S)
    BY <1>2, <1>3, <1>4, <1>5
  <1> QED BY <1>1, <1>2, <1>6

(* A group without one of its members. *)
LEMMA AllButOne ==
    ASSUME NEW A, NEW B, NEW x, IsFiniteSet(A), IsFiniteSet(B)
    PROVE  /\ Cardinality(A) \in Nat /\ Cardinality(B) \in Nat
           /\ A \subseteq B => Cardinality(A) <= Cardinality(B)
           /\ A \subseteq B \cup {x} => Cardinality(A) <= Cardinality(B) + 1
           /\ A \subseteq B /\ x \in B /\ x \notin A => Cardinality(A) + 1 <= Cardinality(B)
  <1>1. Cardinality(A) \in Nat /\ Cardinality(B) \in Nat
    BY FS_CardinalityType
  <1>2. ASSUME A \subseteq B PROVE Cardinality(A) <= Cardinality(B)
    BY <1>2, FS_Subset
  <1>3. ASSUME A \subseteq B \cup {x} PROVE Cardinality(A) <= Cardinality(B) + 1
    <2>1. /\ IsFiniteSet(B \cup {x})
          /\ Cardinality(B \cup {x}) = IF x \in B THEN Cardinality(B) ELSE Cardinality(B) + 1
      BY FS_AddElement
    <2>2. Cardinality(A) <= Cardinality(B \cup {x})
      BY <1>3, <2>1, FS_Subset
    <2> QED BY <1>1, <2>1, <2>2
  <1>4. ASSUME A \subseteq B, x \in B, x \notin A PROVE Cardinality(A) + 1 <= Cardinality(B)
    <2>1. IsFiniteSet(B \ {x}) /\ Cardinality(B \ {x}) = Cardinality(B) - 1
      BY <1>4, FS_RemoveElement
    <2>2. A \in SUBSET (B \ {x})
      BY <1>4
    <2>3. Cardinality(A) <= Cardinality(B \ {x})
      BY <2>1, <2>2, FS_Subset
    <2> QED BY <1>1, <2>1, <2>3
  <1> QED BY <1>1, <1>2, <1>3, <1>4

(* The numbers of one row, before and after a step. *)
LEMMA RowNumbers ==
    ASSUME MarkInv, MarkInv', NEW r
    PROVE  /\ Drainers \in Nat
           /\ IsFiniteSet(Copies(r)) /\ IsFiniteSet(Copies(r)')
           /\ IsFiniteSet(Marking(r)) /\ IsFiniteSet(Marking(r)')
           /\ IsFiniteSet(Holding(r)) /\ IsFiniteSet(Holding(r)')
           /\ Cardinality(Marking(r)) <= Drainers
           /\ Cardinality(Holding(r)') <= Drainers
           /\ Marking(r) \cap Holding(r)' = {} =>
                 Cardinality(Marking(r)) + Cardinality(Holding(r)') <= Drainers
  <1>1. IsFiniteSet(Drainer)
    BY OutboxAssumption
  <1>2. /\ Marking(r) \in SUBSET Drainer /\ Marking(r)' \in SUBSET Drainer
        /\ Holding(r) \in SUBSET Drainer /\ Holding(r)' \in SUBSET Drainer
    BY DEF Marking, Holding
  <1>3. IsFiniteSet(Copies(r)) /\ IsFiniteSet(Copies(r)')
    <2>1. 1 \in Int /\ Len(file) \in Int /\ Len(file') \in Int
      BY DEF MarkInv
    <2>2. IsFiniteSet(1 .. Len(file)) /\ IsFiniteSet(1 .. Len(file'))
      BY <2>1, FS_Interval
    <2>3. Copies(r) \in SUBSET (1 .. Len(file)) /\ Copies(r)' \in SUBSET (1 .. Len(file'))
      BY DEF Copies
    <2> QED BY <2>2, <2>3, FS_Subset
  <1>4. /\ IsFiniteSet(Marking(r)) /\ IsFiniteSet(Marking(r)')
        /\ IsFiniteSet(Holding(r)) /\ IsFiniteSet(Holding(r)')
        /\ Cardinality(Marking(r)) <= Drainers
        /\ Cardinality(Holding(r)') <= Drainers
    BY <1>1, <1>2, FS_Subset DEF Drainers
  <1>5. Drainers \in Nat
    BY <1>1, FS_CardinalityType DEF Drainers
  <1>6. Marking(r) \cap Holding(r)' = {} =>
            Cardinality(Marking(r)) + Cardinality(Holding(r)') <= Drainers
    BY <1>1, <1>2, TwoGroups DEF Drainers
  <1> QED BY <1>3, <1>4, <1>5, <1>6

LEMMA OnceMore == \A n, c \in Nat : n * c \in Nat /\ n * (c + 1) = n * c + n
  OBVIOUS

(* A row nobody has written yet. *)
LEMMA NewRow ==
    ASSUME MarkInv, MarkInv', NEW r, Copies(r)' = {}, faults' \in Nat, crashes' \in Nat
    PROVE  CopiesBounded(r)'
  <1>1. Cardinality(Copies(r)') = 0
    BY FS_EmptySet
  <1>2. /\ Drainers \in Nat /\ Cardinality(Holding(r)') <= Drainers
        /\ Cardinality(Holding(r)') \in Nat /\ Cardinality(Marking(r)') \in Nat
    BY RowNumbers, AllButOne
  <1>3. Drainers * crashes' \in Nat /\ Drainers * (crashes' + 1) = Drainers * crashes' + Drainers
    BY <1>2, OnceMore
  <1>4. Cardinality(Copies(r)') <= Cardinality(Marking(r)') + faults' + Drainers * crashes'
    BY <1>1, <1>2, <1>3
  <1>5. Cardinality(Copies(r)') + Cardinality(Holding(r)') <= Drainers * (crashes' + 1) + faults'
    BY <1>1, <1>2, <1>3
  <1> QED BY <1>4, <1>5 DEF CopiesBounded, Drainers

(* No line of the row is written; a drainer leaves off marking it for a
   failure at most, and it comes into a drainer's hand only unmarked. *)
LEMMA RowKept ==
    ASSUME MarkInv, MarkInv', CopyInv, NEW r \in Rows, NEW d,
           Copies(r)' = Copies(r), crashes' = crashes, faults' \in Nat,
           r \in written' <=> r \in written,
           r \in written => Holding(r)' \subseteq Holding(r),
           \/ faults' >= faults /\ Marking(r) \subseteq Marking(r)'
           \/ faults' >= faults + 1 /\ Marking(r) \subseteq Marking(r)' \cup {d}
    PROVE  CopiesBounded(r)'
  <1>1. /\ IsFiniteSet(Copies(r)) /\ Drainers \in Nat
        /\ IsFiniteSet(Marking(r)) /\ IsFiniteSet(Marking(r)')
        /\ IsFiniteSet(Holding(r)) /\ IsFiniteSet(Holding(r)')
    BY RowNumbers
  <1> DEFINE c == Cardinality(Copies(r))
             m == Cardinality(Marking(r))
             mm == Cardinality(Marking(r)')
             h == Cardinality(Holding(r))
             hh == Cardinality(Holding(r)')
             k == Drainers * crashes
             kk == Drainers * (crashes + 1)
  <1>2. {c, m, mm, h, hh} \subseteq Nat /\ faults \in Nat /\ crashes \in Nat
    BY <1>1, FS_CardinalityType DEF CopyInv
  <1>3. k \in Nat /\ kk \in Nat
    BY <1>1, <1>2, OnceMore
  <1>4. \/ faults' >= faults /\ m <= mm
        \/ faults' >= faults + 1 /\ m <= mm + 1
    BY <1>1, AllButOne
  <1>5. r \in written => hh <= h
    BY <1>1, AllButOne
  <1>6. /\ r \notin written => c <= m + faults + k
        /\ r \in written => c + h <= kk + faults
    BY DEF CopyInv, CopiesBounded
  <1>7. CopiesBounded(r)' <=> /\ r \notin written => c <= mm + faults' + k
                              /\ r \in written => c + hh <= kk + faults'
    BY DEF CopiesBounded, Drainers
  <1> HIDE DEF c, m, mm, h, hh, k, kk
  <1> QED BY <1>2, <1>3, <1>4, <1>5, <1>6, <1>7

(* A line of the row is written, by a drainer that goes on to mark it or
   fails; the drainer held the row. *)
LEMMA RowCopied ==
    ASSUME MarkInv, MarkInv', CopyInv, NEW r \in Rows, NEW d, NEW i,
           Copies(r)' \subseteq Copies(r) \cup {i}, crashes' = crashes, faults' \in Nat,
           r \in written' <=> r \in written, faults' >= faults,
           d \in Holding(r), Holding(r)' \subseteq Holding(r), d \notin Holding(r)',
           Marking(r) \subseteq Marking(r)',
           faults' >= faults + 1 \/ (d \in Marking(r)' /\ d \notin Marking(r))
    PROVE  CopiesBounded(r)'
  <1>1. /\ IsFiniteSet(Copies(r)) /\ IsFiniteSet(Copies(r)') /\ Drainers \in Nat
        /\ IsFiniteSet(Marking(r)) /\ IsFiniteSet(Marking(r)')
        /\ IsFiniteSet(Holding(r)) /\ IsFiniteSet(Holding(r)')
    BY RowNumbers
  <1> DEFINE c == Cardinality(Copies(r))
             cc == Cardinality(Copies(r)')
             m == Cardinality(Marking(r))
             mm == Cardinality(Marking(r)')
             h == Cardinality(Holding(r))
             hh == Cardinality(Holding(r)')
             k == Drainers * crashes
             kk == Drainers * (crashes + 1)
  <1>2. {c, cc, m, mm, h, hh} \subseteq Nat /\ faults \in Nat /\ crashes \in Nat
    BY <1>1, FS_CardinalityType DEF CopyInv
  <1>3. k \in Nat /\ kk \in Nat
    BY <1>1, <1>2, OnceMore
  <1>4. cc <= c + 1
    BY <1>1, AllButOne
  <1>5. m <= mm /\ (faults' >= faults + 1 \/ m + 1 <= mm)
    BY <1>1, AllButOne
  <1>6. hh + 1 <= h
    BY <1>1, AllButOne
  <1>7. /\ r \notin written => c <= m + faults + k
        /\ r \in written => c + h <= kk + faults
    BY DEF CopyInv, CopiesBounded
  <1>8. CopiesBounded(r)' <=> /\ r \notin written => cc <= mm + faults' + k
                              /\ r \in written => cc + hh <= kk + faults'
    BY DEF CopiesBounded, Drainers
  <1> HIDE DEF c, cc, m, mm, h, hh, k, kk
  <1> QED BY <1>2, <1>3, <1>4, <1>5, <1>6, <1>7, <1>8

(* The row is marked: whoever still holds it was not about to mark it. *)
LEMMA RowMarked ==
    ASSUME MarkInv, MarkInv', CopyInv, NEW r \in Rows,
           Copies(r)' = Copies(r), crashes' = crashes, faults' = faults,
           r \in written', Holding(r)' \subseteq Holding(r)
    PROVE  CopiesBounded(r)'
  <1>1. /\ IsFiniteSet(Copies(r)) /\ Drainers \in Nat
        /\ IsFiniteSet(Marking(r))
        /\ IsFiniteSet(Holding(r)) /\ IsFiniteSet(Holding(r)')
    BY RowNumbers
  <1>2. Marking(r) \cap Holding(r)' = {}
    BY DEF Marking, Holding, Holds
  <1> DEFINE c == Cardinality(Copies(r))
             m == Cardinality(Marking(r))
             h == Cardinality(Holding(r))
             hh == Cardinality(Holding(r)')
             k == Drainers * crashes
             kk == Drainers * (crashes + 1)
  <1>3. {c, m, h, hh} \subseteq Nat /\ faults \in Nat /\ crashes \in Nat
    BY <1>1, FS_CardinalityType DEF CopyInv
  <1>4. k \in Nat /\ kk = k + Drainers
    BY <1>1, <1>3, OnceMore
  <1>5. hh <= h /\ m + hh <= Drainers
    BY <1>1, <1>2, AllButOne, RowNumbers
  <1>6. /\ r \notin written => c <= m + faults + k
        /\ r \in written => c + h <= kk + faults
    BY DEF CopyInv, CopiesBounded
  <1>7. CopiesBounded(r)' <=> c + hh <= kk + faults
    BY DEF CopiesBounded, Drainers
  <1> HIDE DEF c, m, h, hh, k, kk
  <1> QED BY <1>1, <1>3, <1>4, <1>5, <1>6, <1>7

(* After a restart nobody holds a row; whoever was about to mark it may copy
   it once more. *)
LEMMA RowRestarted ==
    ASSUME MarkInv, MarkInv', CopyInv, NEW r \in Rows,
           Copies(r)' = Copies(r), crashes' = crashes + 1, faults' = faults,
           r \in written' <=> r \in written, Holding(r)' = {}
    PROVE  CopiesBounded(r)'
  <1>1. /\ IsFiniteSet(Copies(r)) /\ Drainers \in Nat
        /\ IsFiniteSet(Marking(r)) /\ IsFiniteSet(Marking(r)')
        /\ IsFiniteSet(Holding(r)) /\ Cardinality(Marking(r)) <= Drainers
    BY RowNumbers
  <1> DEFINE c == Cardinality(Copies(r))
             m == Cardinality(Marking(r))
             mm == Cardinality(Marking(r)')
             h == Cardinality(Holding(r))
             k == Drainers * crashes
             kk == Drainers * (crashes + 1)
             kkk == Drainers * (crashes + 1 + 1)
  <1>2. {c, m, mm, h} \subseteq Nat /\ faults \in Nat /\ crashes \in Nat
    BY <1>1, FS_CardinalityType DEF CopyInv
  <1>3. k \in Nat /\ kk = k + Drainers /\ kkk = kk + Drainers
    <2>1. crashes + 1 \in Nat
      BY <1>2
    <2> QED BY <1>1, <1>2, <2>1, OnceMore
  <1>4. Cardinality(Holding(r)') = 0
    BY FS_EmptySet
  <1>5. /\ r \notin written => c <= m + faults + k
        /\ r \in written => c + h <= kk + faults
    BY DEF CopyInv, CopiesBounded
  <1>6. CopiesBounded(r)' <=> /\ r \notin written => c <= mm + faults + kk
                              /\ r \in written => c + Cardinality(Holding(r)') <= kkk + faults
    BY DEF CopiesBounded, Drainers
  <1>7. m <= Drainers
    BY <1>1
  <1> HIDE DEF c, m, mm, h, k, kk, kkk
  <1> QED BY <1>1, <1>2, <1>3, <1>4, <1>5, <1>6, <1>7

LEMMA CopyInit == Init => CopyInv
  <1> SUFFICES ASSUME Init PROVE CopyInv
    OBVIOUS
  <1>1. Rows = {} /\ faults \in Nat /\ crashes \in Nat
    BY DEF Init, Rows
  <1> QED BY <1>1 DEF CopyInv

(* A drainer that does nothing goes on holding and marking what it did. *)
LEMMA StandsStill ==
    ASSUME MarkInv, NEW d \in Drainer, batch'[d] = batch[d], stage'[d] = stage[d],
           \A r \in Rows : ts'[r] = ts[r], NEW r
    PROVE  (Marks(d, r)' <=> Marks(d, r)) /\ (Holds(d, r)' <=> Holds(d, r))
  <1>1. First(d)' = First(d)
    BY FirstStands DEF MarkInv
  <1> QED BY <1>1 DEF Marks, Holds

(* Steps of nobody's, and a drainer's that write no line and mark no row. *)
LEMMA CopyIdle ==
    ASSUME MarkInv, MarkInv', OrderInv, CopyInv,
           file' = file, written' = written, crashes' = crashes, faults' \in Nat,
           Rows \subseteq Rows', \A r \in Rows : ts'[r] = ts[r],
           NEW d \in Drainer,
           \A e \in Drainer : e # d => batch'[e] = batch[e] /\ stage'[e] = stage[e],
           \A r \in Rows : r \in written /\ Holds(d, r)' => Holds(d, r),
           \/ faults' >= faults /\ \A r \in Rows : Marks(d, r) => Marks(d, r)'
           \/ faults' >= faults + 1
    PROVE  CopyInv'
  <1>1. \A e \in Drainer, r \in Rows :
            e # d => (Marks(e, r)' <=> Marks(e, r)) /\ (Holds(e, r)' <=> Holds(e, r))
    BY StandsStill
  <1>2. \A r : Copies(r)' = Copies(r)
    BY DEF Copies
  <1>3. ASSUME NEW r \in Rows PROVE CopiesBounded(r)'
    <2>1. r \in written => Holding(r)' \subseteq Holding(r)
      BY <1>1 DEF Holding
    <2>2. Marking(r) \subseteq Marking(r)' \cup {d}
      BY <1>1 DEF Marking
    <2>3. (\A q \in Rows : Marks(d, q) => Marks(d, q)') => Marking(r) \subseteq Marking(r)'
      BY <1>1 DEF Marking
    <2>4. \/ faults' >= faults /\ Marking(r) \subseteq Marking(r)'
          \/ faults' >= faults + 1 /\ Marking(r) \subseteq Marking(r)' \cup {d}
      BY <2>2, <2>3
    <2>5. r \in written' <=> r \in written
      OBVIOUS
    <2> QED BY <1>2, <2>1, <2>4, <2>5, RowKept
  <1>4. ASSUME NEW r \in Rows', r \notin Rows PROVE CopiesBounded(r)'
    <2>1. Copies(r)' = {}
      BY <1>2, <1>4 DEF Copies, OrderInv, Lines
    <2> QED BY <2>1, NewRow DEF CopyInv
  <1> QED BY <1>3, <1>4 DEF CopyInv

(* The row a drainer has in hand is marked, the line of no row written. *)
LEMMA CopyMarks ==
    ASSUME MarkInv, MarkInv', ClockInv, OrderInv, CopyInv, NEW d \in Drainer,
           UNCHANGED <<task, ts, file, crashes, faults>>,
           stage[d] # "select", written' = written \cup {First(d)}, Advance(d)
    PROVE  CopyInv'
  <1>1. Rows' = Rows /\ (\A r : Copies(r)' = Copies(r)) /\ (\A r \in Rows : ts'[r] = ts[r])
    BY DEF Rows, Copies
  <1>2. /\ batch'[d] = batch[d] \ {First(d)} /\ stage'[d] # "mark"
        /\ \A e \in Drainer : e # d => batch'[e] = batch[e] /\ stage'[e] = stage[e]
    BY DEF Advance, MarkInv
  <1>3. \A e \in Drainer, r \in Rows :
            e # d => (Marks(e, r)' <=> Marks(e, r)) /\ (Holds(e, r)' <=> Holds(e, r))
    BY <1>1, <1>2, StandsStill
  <1>4. \A r \in Rows : Holds(d, r)' => Holds(d, r) /\ r # First(d)
    BY <1>2 DEF Holds, Marks
  <1>5. ASSUME NEW r \in Rows PROVE CopiesBounded(r)'
    <2>1. Holding(r)' \subseteq Holding(r)
      BY <1>3, <1>4 DEF Holding
    <2>2. CASE r = First(d)
      <3>1. r \in written'
        BY <2>2
      <3> QED BY <1>1, <2>1, <3>1, RowMarked
    <2>3. CASE r # First(d)
      <3>1. Marking(r) \subseteq Marking(r)'
        BY <1>3, <2>3 DEF Marking, Marks
      <3>2. r \in written' <=> r \in written
        BY <2>3
      <3>3. faults' >= faults /\ faults' \in Nat
        BY DEF CopyInv
      <3> QED BY <1>1, <2>1, <3>1, <3>2, <3>3, RowKept
    <2> QED BY <2>2, <2>3
  <1> QED BY <1>1, <1>5 DEF CopyInv

(* A line is written for the first row of a drainer, which goes on to mark
   it, or fails and drops its batch. *)
LEMMA CopyLine ==
    ASSUME MarkInv, MarkInv', ClockInv, OrderInv, CopyInv, NEW d \in Drainer,
           UNCHANGED <<task, ts, written, crashes>>,
           stage[d] = "log", file' = Append(file, First(d)),
           faults' \in Nat, faults' >= faults,
           \A e \in Drainer : e # d => batch'[e] = batch[e] /\ stage'[e] = stage[e],
           \/ batch'[d] = batch[d] /\ stage'[d] = "mark"
           \/ batch'[d] = {} /\ stage'[d] = "select" /\ faults' >= faults + 1
    PROVE  CopyInv'
  <1> DEFINE x == First(d)
             n == Len(file)
  <1>1. Rows' = Rows /\ (\A r \in Rows : ts'[r] = ts[r])
    BY DEF Rows
  <1>2. x \in batch[d] /\ x \in Rows
    <2>1. batch[d] \in SUBSET Rows /\ batch[d] # {}
      BY DEF MarkInv, OrderInv
    <2> QED BY <2>1, FirstExists
  <1>3. \A e \in Drainer, r \in Rows :
            e # d => (Marks(e, r)' <=> Marks(e, r)) /\ (Holds(e, r)' <=> Holds(e, r))
    BY <1>1, StandsStill
  <1>4. batch'[d] = batch[d] => First(d)' = x
    BY <1>1, FirstStands DEF MarkInv
  <1>5. \A r \in Rows : /\ Copies(r)' \subseteq Copies(r) \cup {n + 1}
                        /\ r # x => Copies(r)' = Copies(r)
    <2>1. /\ n \in Nat /\ Len(file') = n + 1 /\ file'[n + 1] = x
          /\ \A i \in 1 .. n : file'[i] = file[i]
      BY DEF MarkInv
    <2> QED BY <2>1 DEF Copies
  <1> HIDE DEF x
  <1>6. \A r \in Rows : /\ ~Marks(d, r)
                        /\ Holds(d, r)' => Holds(d, r) /\ r # x
    BY <1>4 DEF Marks, Holds
  <1>7. ASSUME NEW r \in Rows PROVE CopiesBounded(r)'
    <2>1. Holding(r)' \subseteq Holding(r) /\ Marking(r) \subseteq Marking(r)'
      BY <1>3, <1>6 DEF Holding, Marking
    <2>2. r \in written' <=> r \in written
      OBVIOUS
    <2>3. CASE r = x
      <3>1. d \in Holding(r) /\ d \notin Holding(r)'
        BY <1>2, <1>6, <2>3 DEF Holding, Holds
      <3>2. faults' >= faults + 1 \/ (d \in Marking(r)' /\ d \notin Marking(r))
        BY <1>4, <1>6, <2>3 DEF Marking, Marks
      <3> QED BY <1>5, <2>1, <2>2, <3>1, <3>2, RowCopied
    <2>4. CASE r # x
      BY <1>5, <2>1, <2>2, <2>4, RowKept
    <2> QED BY <2>3, <2>4
  <1> QED BY <1>1, <1>7 DEF CopyInv

LEMMA CopyStep ==
    ASSUME MarkInv, MarkInv', ClockInv, OrderInv, CopyInv, [Next]_vars
    PROVE  CopyInv'
  <1>1. /\ faults \in Nat /\ crashes \in Nat /\ Daily \in Drainer
        /\ Len(task) \in Nat /\ Len(ts) = Len(task) /\ task \in Seq(Task) /\ ts \in Seq(Nat)
    BY OutboxAssumption DEF CopyInv, MarkInv
  <1>2. ASSUME NEW t \in Task, Transition(t) \/ AppendAudit(t) PROVE CopyInv'
    <2>1. /\ UNCHANGED <<file, written, stage, batch, faults, crashes>>
          /\ \E at : task' = Append(task, t) /\ ts' = Append(ts, at)
      BY <1>2 DEF Transition, AppendAudit, Insert, drains
    <2>2. Rows \subseteq Rows' /\ \A r \in Rows : ts'[r] = ts[r]
      BY <1>1, <2>1 DEF Rows
    <2>3. \A r \in Rows : (Marks(Daily, r)' <=> Marks(Daily, r)) /\ (Holds(Daily, r)' <=> Holds(Daily, r))
      BY <1>1, <2>1, <2>2, StandsStill
    <2>4. /\ UNCHANGED <<file, written, crashes>> /\ faults' \in Nat /\ faults' >= faults
          /\ \A e \in Drainer : batch'[e] = batch[e] /\ stage'[e] = stage[e]
      BY <1>1, <2>1
    <2> QED BY <1>1, <2>2, <2>3, <2>4, CopyIdle
  <1>3. ASSUME UNCHANGED <<task, ts, written, file, stage, batch, crashes>>,
               faults' \in Nat, faults' >= faults
        PROVE  CopyInv'
    <2>1. Rows' = Rows
      BY <1>3 DEF Rows
    <2>2. \A r \in Rows : (Marks(Daily, r)' <=> Marks(Daily, r)) /\ (Holds(Daily, r)' <=> Holds(Daily, r))
      BY <1>1, <1>3, StandsStill
    <2> QED BY <1>1, <1>3, <2>1, <2>2, CopyIdle
  <1>4. CASE Tick \/ (\E t \in Task : TakeTime(t)) \/ UNCHANGED vars
    BY <1>1, <1>3, <1>4 DEF Tick, TakeTime, vars, rows, drains
  <1>5. ASSUME NEW r \in RowId, Damage(r) PROVE CopyInv'
    BY <1>1, <1>3, <1>5 DEF Damage, Fault, drains
  <1>6. CASE Crash
    <2>1. /\ UNCHANGED <<task, ts, written, file, faults>> /\ crashes' = crashes + 1
          /\ \A d \in Drainer : stage'[d] = "select"
      BY <1>6 DEF Crash, rows
    <2>2. Rows' = Rows /\ (\A r : Copies(r)' = Copies(r) /\ Holding(r)' = {})
      BY <2>1 DEF Rows, Copies, Holding, Holds
    <2>3. ASSUME NEW r \in Rows PROVE CopiesBounded(r)'
      <3>1. r \in written' <=> r \in written
        BY <2>1
      <3> QED BY <2>1, <2>2, <3>1, RowRestarted
    <2> QED BY <1>1, <2>1, <2>2, <2>3 DEF CopyInv
  <1>7. ASSUME NEW d \in Drainer, MarkFails(d) PROVE CopyInv'
    <2>1. /\ UNCHANGED <<task, ts, written, file, crashes>> /\ faults' = faults + 1
          /\ stage'[d] = "select"
          /\ \A e \in Drainer : e # d => batch'[e] = batch[e] /\ stage'[e] = stage[e]
      BY <1>7 DEF MarkFails, Fault, GiveUp, rows, MarkInv
    <2>2. Rows' = Rows /\ \A r \in Rows : ~Holds(d, r)'
      BY <2>1 DEF Rows, Holds
    <2> QED BY <1>1, <2>1, <2>2, CopyIdle
  <1>8. ASSUME NEW d \in Drainer, Select(d) PROVE CopyInv'
    <2>1. /\ UNCHANGED <<task, ts, written, file, crashes, faults>> /\ stage[d] = "select"
          /\ batch'[d] \subseteq Rows \ written
          /\ \A e \in Drainer : e # d => batch'[e] = batch[e] /\ stage'[e] = stage[e]
      BY <1>8 DEF Select, rows, MarkInv, Pending
    <2>2. Rows' = Rows /\ \A r \in Rows : ~Marks(d, r) /\ (r \in written => ~Holds(d, r)')
      BY <2>1 DEF Rows, Holds, Marks
    <2> QED BY <1>1, <2>1, <2>2, CopyIdle
  <1>9. ASSUME NEW d \in Drainer, Mark(d) PROVE CopyInv'
    <2>1. UNCHANGED <<task, ts, file, crashes, faults>> /\ stage[d] # "select"
      BY <1>9 DEF Mark
    <2> QED BY <1>9, <2>1, CopyMarks DEF Mark
  <1>10. ASSUME NEW d \in Drainer, SkipPoison(d) PROVE CopyInv'
    <2>1. UNCHANGED <<task, ts, file, crashes>> /\ stage[d] = "log" /\ Advance(d)
      BY <1>10 DEF SkipPoison
    <2>2. CASE written' = written \cup {First(d)} /\ UNCHANGED faults
      BY <2>1, <2>2, CopyMarks
    <2>3. CASE Fault /\ UNCHANGED written
      <3>1. faults' = faults + 1 /\ Rows' = Rows
        BY <2>1, <2>3 DEF Fault, Rows
      <3>2. /\ batch'[d] \subseteq batch[d]
            /\ \A e \in Drainer : e # d => batch'[e] = batch[e] /\ stage'[e] = stage[e]
        BY <2>1 DEF Advance, MarkInv
      <3>3. \A r \in Rows : Holds(d, r)' => Holds(d, r)
        BY <2>1, <3>2 DEF Holds, Marks
      <3> QED BY <1>1, <2>1, <2>3, <3>1, <3>2, <3>3, CopyIdle
    <2> QED BY <1>10, <2>2, <2>3 DEF SkipPoison
  <1>11. ASSUME NEW d \in Drainer, LogLine(d) PROVE CopyInv'
    <2>1. /\ UNCHANGED <<task, ts, written, crashes, faults>>
          /\ stage[d] = "log" /\ file' = Append(file, First(d))
          /\ batch'[d] = batch[d] /\ stage'[d] = "mark"
          /\ \A e \in Drainer : e # d => batch'[e] = batch[e] /\ stage'[e] = stage[e]
      BY <1>11 DEF LogLine, rows, MarkInv
    <2>2. faults' \in Nat /\ faults' >= faults
      BY <1>1, <2>1
    <2> QED BY <2>1, <2>2, CopyLine
  <1>12. ASSUME NEW d \in Drainer, LogFails(d) PROVE CopyInv'
    <2>1. /\ UNCHANGED <<task, ts, written, crashes>> /\ faults' = faults + 1
          /\ stage[d] = "log"
          /\ batch'[d] = {} /\ stage'[d] = "select"
          /\ \A e \in Drainer : e # d => batch'[e] = batch[e] /\ stage'[e] = stage[e]
      BY <1>12 DEF LogFails, Fault, GiveUp, rows, MarkInv
    <2>2. faults' \in Nat /\ faults' >= faults /\ faults' >= faults + 1
      BY <1>1, <2>1
    <2>3. CASE file' = file
      <3>1. Rows' = Rows /\ \A r \in Rows : ~Holds(d, r)'
        BY <2>1 DEF Rows, Holds
      <3> QED BY <2>1, <2>2, <2>3, <3>1, CopyIdle
    <2>4. CASE file' = Append(file, First(d))
      BY <2>1, <2>2, <2>4, CopyLine
    <2> QED BY <1>12, <2>3, <2>4 DEF LogFails
  <1> QED BY <1>2, <1>4, <1>5, <1>6, <1>7, <1>8, <1>9, <1>10, <1>11, <1>12 DEF Next, Drain

(* sqlite.go DrainOutbox: at least once, and no more often than drainers,
   failures and restarts account for. *)
THEOREM CopiesAreBounded == Spec => []DuplicatesBounded
  <1>1. MarkInv /\ CopyInv => DuplicatesBounded
    <2> SUFFICES ASSUME MarkInv, CopyInv, NEW r \in Rows
                 PROVE  Cardinality(Copies(r)) <= Drainers * (crashes + 1) + faults
      BY DEF DuplicatesBounded, Copies, Drainers
    <2> DEFINE c == Cardinality(Copies(r))
               m == Cardinality(Marking(r))
               h == Cardinality(Holding(r))
               k == Drainers * crashes
               kk == Drainers * (crashes + 1)
    <2>1. /\ {c, m, h} \subseteq Nat /\ m <= Drainers /\ Drainers \in Nat
          /\ faults \in Nat /\ crashes \in Nat
      <3>1. 1 \in Int /\ Len(file) \in Int
        BY DEF MarkInv
      <3>2. IsFiniteSet(1 .. Len(file)) /\ Copies(r) \in SUBSET (1 .. Len(file))
        BY <3>1, FS_Interval DEF Copies
      <3>3. IsFiniteSet(Drainer) /\ Marking(r) \in SUBSET Drainer /\ Holding(r) \in SUBSET Drainer
        BY OutboxAssumption DEF Marking, Holding
      <3>4. /\ IsFiniteSet(Copies(r)) /\ IsFiniteSet(Marking(r)) /\ IsFiniteSet(Holding(r))
            /\ m <= Drainers
        BY <3>2, <3>3, FS_Subset DEF Drainers
      <3> QED BY <3>3, <3>4, FS_CardinalityType DEF CopyInv, Drainers
    <2>2. k \in Nat /\ kk = k + Drainers
      BY <2>1, OnceMore
    <2>3. /\ r \notin written => c <= m + faults + k
          /\ r \in written => c + h <= kk + faults
      BY DEF CopyInv, CopiesBounded
    <2> HIDE DEF c, m, h, k, kk
    <2>4. c <= kk + faults
      BY <2>1, <2>2, <2>3
    <2> QED BY <2>4 DEF c, kk
  <1>2. MarkInv /\ MarkInv' /\ ClockInv /\ OrderInv /\ CopyInv /\ [Next]_vars => CopyInv'
    BY CopyStep
  <1> QED BY <1>1, <1>2, MarkInit, MarkStep, ClockInit, ClockStep, OrderInit, OrderStep,
             CopyInit, PTL DEF Spec
=============================================================================
