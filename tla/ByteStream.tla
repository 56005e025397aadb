----------------------------- MODULE ByteStream -----------------------------
(***************************************************************************)
(* What one direction of a TCP socket promises, one connection after       *)
(* another: the one end takes a prefix of what the other end of the same   *)
(* connection has given, in order and without gaps.  Nothing says that all *)
(* of it arrives: either end may leave at any time.                        *)
(***************************************************************************)
EXTENDS Naturals, Sequences

CONSTANT
  Piece       \* what may be given at once

VARIABLES
  given,      \* by the one end, since the connection began
  taken       \* by the other

vars == <<given, taken>>

Prefix(s, t) == Len(s) <= Len(t) /\ s = SubSeq(t, 1, Len(s))

Init == given = << >> /\ taken = << >>

(* A connection ends, or the next one begins.                              *)
Renew == given' = << >> /\ taken' = << >>

Give(p) == given' = given \o p /\ UNCHANGED taken

Take ==
  /\ \E n \in Len(taken)..Len(given) : taken' = SubSeq(given, 1, n)
  /\ Prefix(taken, taken')
  /\ UNCHANGED given

Next ==
  \/ Renew
  \/ \E p \in Piece : Give(p)
  \/ Take

Spec == Init /\ [][Next]_vars
=============================================================================
