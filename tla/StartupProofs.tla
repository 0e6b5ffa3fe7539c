---------------------------- MODULE StartupProofs ----------------------------
(***************************************************************************)
(* Startup: however many scripts race to start however many daemons, each  *)
(* daemon answers to the secret that is in the token file.                 *)
(***************************************************************************)
EXTENDS Startup, TLAPS

(* O_EXCL makes one daemon the writer, once and for all. *)
WriterInv ==
    /\ \A p \in Proc : at[p] = "write" => file = "empty"
    /\ \A p, q \in Proc : at[p] = "write" /\ at[q] = "write" => p = q

TokenInv == StartupTypeOK /\ WriterInv /\ TokenStable

LEMMA TokenInit == Init => TokenInv
  <1> SUFFICES ASSUME Init PROVE TokenInv
    OBVIOUS
  <1>1. \A p \in Proc : at[p] = "off"
    BY DEF Init
  <1>2. WriterInv /\ TokenStable
    BY <1>1 DEF WriterInv, TokenStable
  <1>3. owner600 \in BOOLEAN
    <2>1. CASE file = "absent"
      BY <2>1 DEF Init
    <2>2. CASE file # "absent"
      BY <2>2 DEF Init
    <2> QED BY <2>1, <2>2
  <1>4. StartupTypeOK
    BY <1>3, StartupAssumption DEF Init, StartupTypeOK, Step
  <1> QED BY <1>2, <1>4 DEF TokenInv

(* A daemon that goes away takes nothing from the file. *)
LEMMA GoneInv ==
    ASSUME TokenInv, NEW p \in Proc, Gone(p), UNCHANGED faults \/ faults' = faults + 1,
           UNCHANGED kills \/ kills' = kills + 1, torn' \in BOOLEAN
    PROVE  TokenInv'
  <1> USE DEF TokenInv
  <1>1. StartupTypeOK'
    BY DEF Gone, StartupTypeOK, Step, tokenFile
  <1>2. WriterInv' /\ TokenStable'
    BY DEF Gone, tokenFile, StartupTypeOK, WriterInv, TokenStable
  <1> QED BY <1>1, <1>2

(* Steps that touch neither the file nor anybody's secret, and move nobody to
   where a secret is needed. *)
LEMMA ElsewhereInv ==
    ASSUME TokenInv, StartupTypeOK', UNCHANGED <<tokenFile, token>>,
           \A p \in Proc : /\ at'[p] = "write" => at[p] = "write"
                           /\ at'[p] \in {"resume", "listen", "serve"} =>
                                at[p] \in {"resume", "listen", "serve"}
    PROVE  TokenInv'
  BY DEF TokenInv, WriterInv, TokenStable, tokenFile

LEMMA MainInv == ASSUME TokenInv, NEW p \in Proc, Main(p) PROVE TokenInv'
  <1> USE DEF TokenInv
  <1>1. CASE ReadToken(p)
    <2>1. StartupTypeOK'
      BY <1>1 DEF ReadToken, Go, StartupTypeOK, Step, tokenFile, task, bounds
    <2>2. WriterInv' /\ TokenStable'
      BY <1>1 DEF ReadToken, Go, StartupTypeOK, tokenFile, WriterInv, TokenStable
    <2> QED BY <2>1, <2>2
  <1>2. CASE ReadRefused(p)
    BY <1>2, GoneInv DEF ReadRefused, StartupTypeOK
  <1>3. CASE CreateToken(p)
    <2>1. StartupTypeOK'
      BY <1>3 DEF CreateToken, Go, StartupTypeOK, Step, task, bounds
    <2>2. \A q \in Proc : at[q] \notin {"write", "resume", "listen", "serve"}
      BY <1>3 DEF CreateToken, WriterInv, TokenStable
    <2>3. WriterInv' /\ TokenStable'
      BY <1>3, <2>2 DEF CreateToken, Go, StartupTypeOK, WriterInv, TokenStable
    <2> QED BY <2>1, <2>3
  <1>4. CASE CreateRefused(p)
    BY <1>4, GoneInv DEF CreateRefused, StartupTypeOK
  <1>5. CASE WriteToken(p)
    <2>1. StartupTypeOK'
      BY <1>5 DEF WriteToken, Go, StartupTypeOK, Step, task
    <2>2. \A q \in Proc : at[q] \notin {"resume", "listen", "serve"}
      BY <1>5 DEF WriteToken, Go, WriterInv, TokenStable
    <2>3. WriterInv' /\ TokenStable'
      BY <1>5, <2>2 DEF WriteToken, Go, StartupTypeOK, WriterInv, TokenStable
    <2> QED BY <2>1, <2>3
  <1>6. CASE Resume(p)
    <2>1. StartupTypeOK'
      BY <1>6 DEF Resume, Go, StartupTypeOK, Step, tokenFile, bounds
    <2> QED BY <1>6, <2>1, ElsewhereInv DEF Resume, Go, StartupTypeOK
  <1>7. CASE Listen(p)
    <2>1. StartupTypeOK'
      BY <1>7 DEF Listen, Go, StartupTypeOK, Step, tokenFile, task, bounds
    <2> QED BY <1>7, <2>1, ElsewhereInv DEF Listen, Go, StartupTypeOK
  <1>8. CASE ListenRefused(p)
    BY <1>8, GoneInv DEF ListenRefused, StartupTypeOK
  <1> QED BY <1>1, <1>2, <1>3, <1>4, <1>5, <1>6, <1>7, <1>8 DEF Main

LEMMA TokenNext == ASSUME TokenInv, [Next]_vars PROVE TokenInv'
  <1> USE DEF TokenInv
  <1>1. ASSUME NEW s \in Script, Pgrep(s) PROVE TokenInv'
    <2>1. StartupTypeOK'
      BY <1>1 DEF Pgrep, StartupTypeOK, tokenFile, task, bounds
    <2> QED BY <1>1, <2>1, ElsewhereInv DEF Pgrep
  <1>2. ASSUME NEW s \in Script, Launch(s) PROVE TokenInv'
    <2>1. PICK p \in Proc : Go(p, "off", "read")
      BY <1>2 DEF Launch
    <2>2. StartupTypeOK'
      BY <1>2, <2>1 DEF Launch, Go, StartupTypeOK, Step, tokenFile, task, bounds
    <2> QED BY <1>2, <2>1, <2>2, ElsewhereInv DEF Launch, Go, StartupTypeOK
  <1>3. ASSUME NEW p \in Proc, WriteFails(p) PROVE TokenInv'
    BY <1>3, GoneInv DEF WriteFails
  <1>4. ASSUME NEW p \in Proc, Claim(p) PROVE TokenInv'
    <2>1. StartupTypeOK'
      BY <1>4 DEF Claim, StartupTypeOK, tokenFile, bounds
    <2> QED BY <1>4, <2>1, ElsewhereInv DEF Claim
  <1>5. ASSUME NEW p \in Proc, Settle(p) PROVE TokenInv'
    <2>1. StartupTypeOK'
      BY <1>5 DEF Settle, StartupTypeOK, tokenFile, bounds
    <2> QED BY <1>5, <2>1, ElsewhereInv DEF Settle
  <1>6. ASSUME NEW p \in Proc, Kill(p) PROVE TokenInv'
    BY <1>6, GoneInv DEF Kill, StartupTypeOK
  <1>7. CASE Post
    <2>1. StartupTypeOK'
      BY <1>7 DEF Post, StartupTypeOK, tokenFile, bounds
    <2> QED BY <1>7, <2>1, ElsewhereInv DEF Post
  <1>8. CASE UNCHANGED vars
    <2>1. StartupTypeOK'
      BY <1>8 DEF vars, StartupTypeOK, tokenFile, task, bounds
    <2> QED BY <1>8, <2>1, ElsewhereInv DEF vars
  <1> QED BY <1>1, <1>2, <1>3, <1>4, <1>5, <1>6, <1>7, <1>8, MainInv DEF Next

(* A daemon that has its token answers to what the file holds                *)
(* (token.go:61-75), for any number of scripts, daemons, kills and failures. *)
THEOREM TokenIsInFile == Spec => []TokenStable
  <1>1. TokenInv => TokenStable
    BY DEF TokenInv
  <1> QED BY <1>1, TokenInit, TokenNext, PTL DEF Spec
=============================================================================
