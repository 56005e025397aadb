----------------------------- MODULE SmpcRounds -----------------------------
(***************************************************************************)
(* What a network of smpc_signer.py nodes promises: the participants of a  *)
(* signature run the same rounds, each of them entering a round only when  *)
(* all the others have entered the one before, since it needs a share of   *)
(* each; the signature is returned by one that has been through.           *)
(***************************************************************************)
EXTENDS Naturals

CONSTANTS Node, Sign, Rounds

VARIABLES
  members,    \* the participants of every request, {} before it is made
  phase,      \* the round each is in: 0 before the first one
  answered    \* the requests whose signature was returned

vars == <<members, phase, answered>>

Init ==
  /\ members = [g \in Sign |-> {}]
  /\ phase = [p \in Node \X Sign |-> 0]
  /\ answered = {}

Request(g, S) ==
  /\ members[g] = {}
  /\ members' = [members EXCEPT ![g] = S]
  /\ UNCHANGED <<phase, answered>>

Enter(n, g) ==
  /\ n \in members[g]
  /\ phase[<<n, g>>] <= Rounds
  /\ phase[<<n, g>>] > 0 => \A k \in members[g] : phase[<<k, g>>] >= phase[<<n, g>>]
  /\ phase' = [phase EXCEPT ![<<n, g>>] = @ + 1]
  /\ UNCHANGED <<members, answered>>

Answer(g) ==
  /\ \E k \in members[g] : phase[<<k, g>>] > Rounds
  /\ answered' = answered \cup {g}
  /\ UNCHANGED <<members, phase>>

Next ==
  \E g \in Sign :
    \/ \E S \in (SUBSET Node) \ {{}} : Request(g, S)
    \/ \E n \in Node : Enter(n, g)
    \/ Answer(g)

Spec == Init /\ [][Next]_vars
=============================================================================
