-------------------------------- MODULE Ring --------------------------------
(***************************************************************************)
(* The ring buffer of a watch stream (internal/streams/ring.go): its child *)
(* pushes lines, clients poll with ?since= (handleGetStream in             *)
(* internal/api/server.go).  A poll takes the events and then the number   *)
(* of buffered lines, with the lock released in between.                   *)
(*                                                                         *)
(* A line is identified with its sequence number.                          *)
(***************************************************************************)
EXTENDS Integers, Sequences

CONSTANTS
    Cap,        \* capacity (watch.buffer)
    Reader,     \* polling clients
    MaxPush     \* bound: lines the child writes

ASSUME RingAssumption == Cap \in Nat \ {0} /\ MaxPush \in Nat

VARIABLES
    buf, start, len, next,  \* the fields of Ring
    since,                  \* per reader: the last sequence number it knows
    poll,                   \* per reader: what its poll asked for and got
    pc                      \* per reader: "since", "len" or "done"

ring    == <<buf, start, len, next>>
readers == <<since, poll, pc>>
vars    == <<ring, readers>>

Slot == 0 .. (Cap - 1)

RingTypeOK ==
    /\ buf \in [Slot -> Nat]
    /\ start \in Slot
    /\ len \in 0 .. Cap
    /\ next \in Nat

ReadersTypeOK ==
    /\ since \in [Reader -> Nat]
    /\ poll \in [Reader -> [from : Nat, at : Nat, events : Seq(Nat), buffered : Nat]]
    /\ pc \in [Reader -> {"since", "len", "done"}]

TypeOK == RingTypeOK /\ ReadersTypeOK

Init ==
    /\ buf = [i \in Slot |-> 0]
    /\ start = 0 /\ len = 0 /\ next = 0
    /\ since = [r \in Reader |-> 0]
    /\ poll = [r \in Reader |-> [from |-> 0, at |-> 0, events |-> <<>>, buffered |-> 0]]
    /\ pc = [r \in Reader |-> "since"]

(* Mutant: the oldest line is overwritten where the newest would go. *)
Push_KeepsStart ==
    /\ next < MaxPush
    /\ next' = next + 1
    /\ IF len < Cap
       THEN /\ buf' = [buf EXCEPT ![(start + len) % Cap] = next']
            /\ len' = len + 1
       ELSE /\ buf' = [buf EXCEPT ![start] = next']
            /\ len' = len
    /\ UNCHANGED <<start, readers>>

(* Mutant: a full ring is emptied. *)
Push_StartsOver ==
    /\ next < MaxPush
    /\ next' = next + 1
    /\ buf' = [buf EXCEPT ![IF len < Cap THEN (start + len) % Cap ELSE 0] = next']
    /\ IF len < Cap THEN len' = len + 1 /\ start' = start
                    ELSE len' = 1 /\ start' = 0
    /\ UNCHANGED readers

(* One line into the ring; when it is full, over the oldest. *)
Push ==
    /\ next < MaxPush
    /\ next' = next + 1
    /\ IF len < Cap
       THEN /\ buf' = [buf EXCEPT ![(start + len) % Cap] = next']
            /\ len' = len + 1
            /\ UNCHANGED start
       ELSE /\ buf' = [buf EXCEPT ![start] = next']
            /\ start' = (start + 1) % Cap
            /\ UNCHANGED len
    /\ UNCHANGED readers

(* The i-th line, oldest first. *)
At(i) == buf[(start + i) % Cap]

(* The lines after number n: what is taken of the first i lines, for i = len. *)
Since(n) ==
    LET taken[i \in 0 .. len] ==
            IF i = 0 THEN <<>>
            ELSE IF At(i - 1) > n THEN Append(taken[i - 1], At(i - 1))
            ELSE taken[i - 1]
    IN  taken[len]

Poll(r) ==
    /\ pc[r] = "since"
    /\ poll' = [poll EXCEPT ![r] = [from |-> since[r], at |-> next,
                                   events |-> Since(since[r]), buffered |-> 0]]
    /\ pc' = [pc EXCEPT ![r] = "len"]
    /\ UNCHANGED <<ring, since>>

(* Len, and the answer. *)
Answer(r) ==
    /\ pc[r] = "len"
    /\ poll' = [poll EXCEPT ![r].buffered = len]
    /\ pc' = [pc EXCEPT ![r] = "done"]
    /\ UNCHANGED <<ring, since>>

(* The client asks again from the last line it was sent, or from where it
   was; a client that lost an answer repeats its question. *)
Again(r) ==
    /\ pc[r] = "done"
    /\ LET got == poll[r].events IN
          since' = [since EXCEPT ![r] = IF got = <<>> THEN @ ELSE got[Len(got)]]
       \/ UNCHANGED since
    /\ pc' = [pc EXCEPT ![r] = "since"]
    /\ UNCHANGED <<ring, poll>>

Next == Push \/ \E r \in Reader : Poll(r) \/ Answer(r) \/ Again(r)

Spec == Init /\ [][Next]_vars

-----------------------------------------------------------------------------
(* Properties.                                                             *)

(* The ring holds exactly the last lines, oldest first, however often it has
   wrapped around: the i-th is number next - len + i, and a line is only
   given up when Cap newer ones are there. *)
Window ==
    /\ len = (IF next < Cap THEN next ELSE Cap)
    /\ \A i \in 0 .. (len - 1) : At(i) = next - len + i + 1

(* A poll returns, in order and once, every line after the one it named that
   has been written, but for those that Cap newer lines have displaced. *)
PollComplete ==
    \A r \in Reader : pc[r] # "since" =>
        LET p == poll[r]
            first == IF p.from < p.at - Cap THEN p.at - Cap ELSE p.from
        IN  p.events = [i \in 1 .. (p.at - first) |-> first + i]

(* "buffered" is read later than the events and still never contradicts
   them. *)
BufferedCovers ==
    \A r \in Reader : pc[r] = "done" => Len(poll[r].events) <= poll[r].buffered
=============================================================================
