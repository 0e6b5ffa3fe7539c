------------------------------ MODULE TimeText ------------------------------
(***************************************************************************)
(* Instants as the database stores and compares them.  fmtTime             *)
(* (internal/queue/sqlite.go) and auditRow format with RFC3339Nano, which  *)
(* drops the trailing zeros of the fraction, and the point with them; SQL  *)
(* compares the texts byte by byte.  An instant is a number of ticks; what *)
(* comes before the fraction has a fixed width and is kept as a number.    *)
(***************************************************************************)
EXTENDS Integers

CONSTANTS Base, Digits    \* fraction digits and their number (10 and 9)

ASSUME TimeTextAssumption ==
    /\ Base \in Nat \ {0, 1} /\ Digits \in Nat
    /\ Base ^ 0 = 1 /\ \A n \in 1 .. Digits : Base ^ n = Base * Base ^ (n - 1)

Second(i) == i \div (Base ^ Digits)

(* The k-th digit after the point. *)
Digit(i, k) == (i \div (Base ^ (Digits - k))) % Base

(* How many digits are left once trailing zeros are dropped. *)
Shown(i) ==
    CHOOSE n \in 0 .. Digits :
        /\ \A k \in (n + 1) .. Digits : Digit(i, k) = 0
        /\ n = 0 \/ Digit(i, n) # 0

(* Byte k after the seconds: "." sorts before the digits, "Z" after them. *)
Point == -1
Zulu  == Base
Character(i, k) ==
    IF k = 0 THEN (IF Shown(i) = 0 THEN Zulu ELSE Point)
    ELSE IF k <= Shown(i) THEN Digit(i, k) ELSE Zulu

TextBefore(i, j) ==
    \/ Second(i) < Second(j)
    \/ /\ Second(i) = Second(j)
       /\ \E k \in 0 .. Digits :
             /\ Character(i, k) < Character(j, k)
             /\ \A m \in 0 .. (k - 1) : Character(i, m) = Character(j, m)
=============================================================================
