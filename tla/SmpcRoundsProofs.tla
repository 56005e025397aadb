--------------------------- MODULE SmpcRoundsProofs ---------------------------
(***************************************************************************)
(* What follows from SmpcRounds, which SmpcChannels implements, for any    *)
(* number of nodes, signatures and rounds.                                 *)
(***************************************************************************)
EXTENDS SmpcRounds, TLAPS

(* No participant is two rounds ahead of another: a share that arrives is  *)
(* of the round its receiver is in, or of the next.                        *)
OneRoundApart ==
  \A g \in Sign : \A n, k \in members[g] : phase[<<n, g>>] <= phase[<<k, g>>] + 1

(* A signature that was returned has the shares of everyone: each          *)
(* participant has entered the last round.                                 *)
EveryoneSigned ==
  \A g \in answered : members[g] # {} /\ \A k \in members[g] : phase[<<k, g>>] >= Rounds

(* With the types, and nobody in a round of a request before it is made.   *)
RoundsInv ==
  /\ members \in [Sign -> SUBSET Node]
  /\ phase \in [Node \X Sign -> Nat]
  /\ answered \subseteq Sign
  /\ \A g \in Sign : members[g] = {} => \A n \in Node : phase[<<n, g>>] = 0
  /\ OneRoundApart
  /\ EveryoneSigned

LEMMA RequestKeeps ==
  ASSUME Rounds \in Nat, RoundsInv, NEW g \in Sign, NEW S \in (SUBSET Node) \ {{}}, Request(g, S)
  PROVE  RoundsInv'
<1>1. /\ members' = [members EXCEPT ![g] = S] /\ members[g] = {}
      /\ UNCHANGED <<phase, answered>>
  BY DEF Request
<1>2. members' \in [Sign -> SUBSET Node] /\ members'[g] = S
      /\ \A h \in Sign : h # g => members'[h] = members[h]
  BY <1>1 DEF RoundsInv
<1>3. \A n \in Node : phase[<<n, g>>] = 0
  BY <1>1 DEF RoundsInv
<1>4. g \notin answered
  BY <1>1 DEF RoundsInv, EveryoneSigned
<1>5. OneRoundApart'
  <2> SUFFICES ASSUME NEW h \in Sign, NEW n \in members'[h], NEW k \in members'[h]
               PROVE  phase[<<n, h>>] <= phase[<<k, h>>] + 1
    BY <1>1 DEF OneRoundApart
  <2>1. CASE h = g
    BY <1>2, <1>3, <2>1
  <2>2. CASE h # g
    BY <1>2, <2>2 DEF RoundsInv, OneRoundApart
  <2> QED
    BY <2>1, <2>2
<1>6. EveryoneSigned'
  BY <1>1, <1>2, <1>4 DEF RoundsInv, EveryoneSigned
<1> QED
  BY <1>1, <1>2, <1>5, <1>6 DEF RoundsInv

LEMMA EnterKeeps ==
  ASSUME Rounds \in Nat, RoundsInv, NEW g \in Sign, NEW n \in Node, Enter(n, g)
  PROVE  RoundsInv'
<1>1. /\ n \in members[g]
      /\ phase' = [phase EXCEPT ![<<n, g>>] = phase[<<n, g>>] + 1]
      /\ phase[<<n, g>>] > 0 => \A k \in members[g] : phase[<<k, g>>] >= phase[<<n, g>>]
      /\ members' = members /\ answered' = answered
  BY DEF Enter
<1>t. /\ members \in [Sign -> SUBSET Node] /\ phase \in [Node \X Sign -> Nat]
      /\ OneRoundApart /\ EveryoneSigned /\ answered \subseteq Sign
  BY DEF RoundsInv
<1>2. /\ phase' \in [Node \X Sign -> Nat] /\ phase'[<<n, g>>] = phase[<<n, g>>] + 1
      /\ \A k \in Node, h \in Sign :
           /\ phase[<<k, h>>] \in Nat /\ phase'[<<k, h>>] \in Nat
           /\ phase'[<<k, h>>] >= phase[<<k, h>>]
           /\ k # n \/ h # g => phase'[<<k, h>>] = phase[<<k, h>>]
  BY <1>1, <1>t
<1>3. OneRoundApart'
  <2> SUFFICES ASSUME NEW h \in Sign, NEW m \in members[h], NEW k \in members[h]
               PROVE  phase'[<<m, h>>] <= phase'[<<k, h>>] + 1
    BY <1>1 DEF OneRoundApart
  <2>t. m \in Node /\ k \in Node
    BY <1>t
  <2>1. phase[<<m, h>>] <= phase[<<k, h>>] + 1
    BY <1>t DEF OneRoundApart
  <2>2. CASE m # n \/ h # g
    BY <1>2, <2>t, <2>1, <2>2
  <2>3. CASE m = n /\ h = g
    BY <1>1, <1>2, <2>t, <2>3
  <2> QED
    BY <2>2, <2>3
<1>4. EveryoneSigned'
  <2> SUFFICES ASSUME NEW h \in answered
               PROVE  members[h] # {} /\ \A k \in members[h] : phase'[<<k, h>>] >= Rounds
    BY <1>1 DEF EveryoneSigned
  <2>1. h \in Sign /\ members[h] # {} /\ \A k \in members[h] : phase[<<k, h>>] >= Rounds
    BY <1>t DEF EveryoneSigned
  <2> QED
    BY <1>t, <1>2, <2>1
<1>5. \A h \in Sign : members'[h] = {} => \A k \in Node : phase'[<<k, h>>] = 0
  BY <1>1, <1>2 DEF RoundsInv
<1> QED
  BY <1>1, <1>t, <1>2, <1>3, <1>4, <1>5 DEF RoundsInv

LEMMA AnswerKeeps ==
  ASSUME Rounds \in Nat, RoundsInv, NEW g \in Sign, Answer(g)
  PROVE  RoundsInv'
<1>1. /\ answered' = answered \cup {g} /\ UNCHANGED <<members, phase>>
  BY DEF Answer
<1>2. PICK m \in members[g] : phase[<<m, g>>] > Rounds
  BY DEF Answer
<1>3. ASSUME NEW k \in members[g] PROVE phase[<<k, g>>] >= Rounds
  <2>1. m \in Node /\ k \in Node
    BY DEF RoundsInv
  <2>2. phase[<<m, g>>] \in Nat /\ phase[<<k, g>>] \in Nat /\ phase[<<m, g>>] <= phase[<<k, g>>] + 1
    BY <2>1 DEF RoundsInv, OneRoundApart
  <2> QED
    BY <1>2, <2>2
<1> QED
  BY <1>1, <1>2, <1>3 DEF RoundsInv, OneRoundApart, EveryoneSigned

LEMMA Invariance ==
  ASSUME Rounds \in Nat
  PROVE  Spec => []RoundsInv
<1>1. Init => RoundsInv
  BY DEF Init, RoundsInv, OneRoundApart, EveryoneSigned
<1>2. RoundsInv /\ [Next]_vars => RoundsInv'
  BY RequestKeeps, EnterKeeps, AnswerKeeps
     DEF Next, vars, RoundsInv, OneRoundApart, EveryoneSigned
<1> QED
  BY <1>1, <1>2, PTL DEF Spec

(* No participant is two rounds ahead of another, so the two shares a node *)
(* may have from a peer are told apart by their order (the receiving loops *)
(* of smpc_signer.py read one of each).                                    *)
THEOREM Together ==
  ASSUME Rounds \in Nat
  PROVE  Spec => []OneRoundApart
<1> QED
  BY Invariance, PTL DEF RoundsInv

(* When SIGN has returned a signature, every participant has entered the   *)
(* last round: each has sent the shares the signature was made of.         *)
THEOREM Signed ==
  ASSUME Rounds \in Nat
  PROVE  Spec => []EveryoneSigned
<1> QED
  BY Invariance, PTL DEF RoundsInv
=============================================================================
