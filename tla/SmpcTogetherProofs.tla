------------------------- MODULE SmpcTogetherProofs -------------------------
(***************************************************************************)
(* The nodes of smpc_signer.py when each node handles its messages in the  *)
(* order they came in, and the client lets the nodes settle between two    *)
(* commands: for any nodes, numbers of commands and of rounds, as long as  *)
(* nothing is halted, every node is connected to all the others of its     *)
(* command (ConnectedToAll), reads the shares of its own round             *)
(* (SharesOfTheRound), never fails (NoTaskFails) and lets go of its        *)
(* channels (ChannelsReleased), and the nodes implement SmpcRounds         *)
(* (RoundsImplemented). Where nodes may be halted, all but the last holds  *)
(* until the first of them is (NoTaskFails, UntilAHalt).                   *)
(*                                                                         *)
(* The inductive invariant is Joint: Mesh of the present state, and the    *)
(* order in which messages lie in an inbox. That a step keeps it is shown  *)
(* in two parts: a move of a state s to a state u keeps Mesh, by what      *)
(* changes and whatever the variables are; and every action of             *)
(* SmpcChannels is one move, or two that one step takes together, such as  *)
(* what a node does with a message it reads and the round it begins.       *)
(***************************************************************************)
EXTENDS SmpcChannelsProofs

-----------------------------------------------------------------------------
(* A node begins a round.                                                  *)

(* A node that is connected.                                               *)
Through(t) ==
  \/ t.pc = "connect" /\ t.wait = NoChan /\ t.list = <<>>
  \/ t.pc \in {"ack", "share"}

(* Its dictionary has all its channels.                                    *)
LEMMA Neighbours ==
  ASSUME NEW s, Mesh(s), NEW n \in Node, NEW g \in Sign, Through(Tk(s, n, g)), NEW d \in Chan
  PROVE  d \in Ran(s.act[n]) <=> Link(s, d) /\ Touches(d, n, g)
<1> DEFINE o == Tk(s, n, g)
           q == s.req[g]
<1>1. /\ TaskJ(q, n, g, o) /\ ConnectJ(q, n, g, o) /\ ReachJ(q, n, o) /\ Called(s, g) /\ ~Settled(s, g)
      /\ o \in Task
  BY AtTask DEF Through
<1>2. d \in Ran(s.act[n]) <=> Holds(s, n, d)
  BY AtDictionary
<1>3. d.a \in Node /\ d.b \in Node /\ d.g \in Sign /\ d.a # d.b /\ ChannelJ(s, d)
  BY AtLink
<1>4. ASSUME Holds(s, n, d) PROVE Link(s, d) /\ Touches(d, n, g)
  <2>1. Link(s, d) /\ ~Settled(s, d.g) /\ Called(s, d.g) /\ n \in {d.a, d.b}
    BY <1>4, HeldActive
  <2>2. d.g = g
    BY <1>1, <1>3, <2>1, OneActive
  <2> QED
    BY <2>1, <2>2 DEF Touches
<1>5. ASSUME Link(s, d), Touches(d, n, g) PROVE Holds(s, n, d)
  <2>1. Before(q, d.a, d.b) /\ d.g = g /\ (d.a = n \/ d.b = n)
    BY <1>5 DEF Link, Touches
  <2>2. CASE d.a = n
    <3>1. d.b \in Reached(o)
      <4> HIDE DEF o
      <4>1. CASE o.pc = "connect" /\ o.wait = NoChan /\ o.list = <<>>
        BY <1>1, <1>3, <2>1, <2>2, <4>1 DEF ConnectJ, Ran
      <4>2. CASE o.pc \in {"ack", "share"}
        BY <1>1, <1>3, <2>1, <2>2, <4>2 DEF ReachJ
      <4> QED
        BY <4>1, <4>2 DEF Through, o
    <3>2. PICK i \in 1..Len(o.opened) : o.opened[i].b = d.b
      BY <3>1 DEF Reached
    <3>3. o.opened[i] \in Ran(o.opened) /\ o.opened[i] \in Chan
      BY <1>1, <3>2 DEF Ran, Task
    <3>4. o.opened[i] = d
      BY <1>1, <2>1, <2>2, <3>2, <3>3 DEF TaskJ, Chan
    <3>5. o.pc # "sleep2"
      BY DEF Through
    <3> QED
      BY <2>1, <2>2, <3>3, <3>4, <3>5 DEF Holds
  <2>3. CASE d.b = n
    <3>1. o.pc \in {"connect", "ack", "share"} /\ n # q.main
      BY <1>5, <2>1, <2>3, LinkIs DEF Through
    <3>2. o.pc \in {"connect", "share"}
      BY <1>1, <3>1 DEF TaskJ
    <3> HIDE DEF q
    <3>3. CASE d.a = q.main
      BY <1>3, <1>5, <2>1, <2>3, <3>2, <3>3 DEF ChannelJ, States, Waiting, Holds, q
    <3>4. CASE d.a # q.main
      BY <1>3, <1>5, <2>1, <2>3, <3>2, <3>4 DEF ChannelJ, Holds, q
    <3> QED
      BY <3>3, <3>4
  <2> QED
    BY <2>1, <2>2, <2>3
<1> QED
  BY <1>2, <1>4, <1>5

(* The peer that is connecting is the one the main node waits for.         *)
LEMMA PeerTurn ==
  ASSUME NEW s, Mesh(s), NEW n \in Node, NEW g \in Sign, Tk(s, n, g).pc = "connect",
         n # s.req[g].main
  PROVE  LET p == Tk(s, s.req[g].main, g)
         IN  p.pc = "ack" /\ p.wait = Up(s, n, g) /\ Up(s, n, g) \in Chan /\ Link(s, Up(s, n, g))
<1> DEFINE q == s.req[g]
           p == Tk(s, q.main, g)
<1>1. Called(s, g) /\ n \in q.nodes /\ StageJ(s, g)
  BY AtTask
<1>2. /\ q.main \in Node /\ q.nodes = {q.main} \cup Ran(q.peers) /\ q.peers \in Seq(Node)
      /\ q.main # None
  BY <1>1, Request
<1>3. PICK i \in 1..Len(q.peers) : q.peers[i] = n
  BY <1>1, <1>2 DEF Ran
<1>4. MainJ(q, g, p) /\ TaskJ(q, q.main, g, p)
  BY <1>1, <1>2, AtTask DEF Mesh, TasksJ
<1>5. /\ p.pc = "connect" => Tk(s, n, g).pc = "idle"
      /\ p.pc \in Rounding => Tk(s, n, g).pc \in Rounding
      /\ p.pc = "ack" =>
           /\ i < p.asked => Tk(s, n, g).pc \in Rounding
           /\ i > p.asked => Tk(s, n, g).pc = "idle"
           /\ i = p.asked /\ p.wait = NoChan => Tk(s, n, g).pc \in Rounding
  BY <1>1, <1>3 DEF StageJ, Ran
<1>r. Tk(s, n, g).pc \notin Rounding
  BY DEF Rounding, Over
<1> HIDE DEF q, p
<1>6. p.pc \in {"connect", "ack"} \cup Rounding
  BY <1>4 DEF TaskJ, MainJ, Task, Rounding, Over, Ended
<1>7. p.pc = "ack"
  BY <1>5, <1>6, <1>r
<1>8. p.asked \in 1..Len(q.peers) /\ (p.wait = NoChan \/ p.wait = [a |-> q.main, b |-> q.peers[p.asked], g |-> g])
  BY <1>4, <1>7 DEF MainJ
<1>9. i = p.asked /\ p.wait # NoChan
  <2>1. i < p.asked \/ i > p.asked \/ i = p.asked
    BY <1>2, <1>8
  <2> QED
    BY <1>5, <1>7, <1>r, <2>1
<1>10. p.wait = Up(s, n, g)
  BY <1>3, <1>8, <1>9 DEF Up, q
<1>11. Up(s, n, g) \in Chan
  BY <1>2 DEF Up, Chan, q
<1>12. Link(s, Up(s, n, g))
  <2>1. Before(q, q.main, n)
    BY <1>2, <1>3 DEF Before, Ran
  <2> QED
    BY <1>1, <1>11, <2>1 DEF Link, Up, q
<1> QED
  BY <1>7, <1>10, <1>11, <1>12 DEF p, q

-----------------------------------------------------------------------------
(* n begins the round r: a peer acknowledges before the first one.         *)
ShareMsg(d, r) == [Msg(d, "share") EXCEPT !.round = r]

BeginReady(s, n, g, r) ==
  LET o == Tk(s, n, g)
  IN  \/ /\ o.pc = "connect" /\ o.wait = NoChan /\ o.list = <<>> /\ n # s.req[g].main
         /\ r = 1
      \/ /\ o.pc = "ack" /\ o.wait = NoChan /\ o.asked = Len(o.opened)
         /\ r = 1
      \/ /\ o.pc = "share" /\ o.at = Len(o.members) + 1 /\ o.round < Rounds
         /\ r = o.round + 1

BeginSends(s, n, g, r) ==
  [k \in Node |->
     {ShareMsg(d, r) : d \in {e \in Ran(s.act[n]) : Other(n, e) = k}}
       \cup {w \in {Msg(Tk(s, n, g).from, "ack")} :
               Tk(s, n, g).pc = "connect" /\ k = Tk(s, n, g).from.a}]

Begin(s, u, n, g, t, r) ==
  LET o == Tk(s, n, g)
      act == s.act[n]
  IN  /\ BeginReady(s, n, g, r) /\ act # <<>>
      /\ t = [o EXCEPT !.pc = "share", !.wait = act[1], !.round = r, !.members = act,
                       !.at = 1, !.rebound = FALSE]
      /\ Move(s, u, n, g, t, act, NoChan, "none", Silent, BeginSends(s, n, g, r))

Begun(s, n, g, t, r) ==
  LET o == Tk(s, n, g)
      q == s.req[g]
      act == s.act[n]
  IN  /\ Called(s, g) /\ ~Settled(s, g) /\ n \in q.nodes /\ Through(o)
      /\ r \in 1..Rounds /\ o.round = r - 1
      /\ o.pc \in {"connect", "ack", "share"}
      /\ o.pc = "connect" => n # q.main /\ r = 1 /\ o.from = Up(s, n, g) /\ o.wait = NoChan
      /\ o.pc = "ack" => n = q.main /\ r = 1 /\ o.wait = NoChan /\ o.asked = Len(o.opened)
      /\ act \in Seq(Chan) /\ Len(act) \in Nat \ {0} /\ act[1] \in Chan
      /\ \A d \in Chan : d \in Ran(act) <=> Link(s, d) /\ Touches(d, n, g)
      /\ \A d \in Ran(act) : Read(o, d) = r - 1
      /\ \A b \in Node : Before(q, n, b) <=> b \in Reached(o)
      /\ t \in Task /\ t.pc = "share" /\ t.round = r /\ t.members = act /\ t.at = 1
      /\ t.wait = act[1] /\ t.opened = o.opened /\ t.from = o.from
      /\ \A d : Read(t, d) = r - 1

LEMMA BeginFacts ==
  ASSUME NEW s, Mesh(s), NEW u, NEW n \in Node, NEW g \in Sign, NEW t, NEW r,
         Begin(s, u, n, g, t, r)
  PROVE  Begun(s, n, g, t, r)
<1> DEFINE o == Tk(s, n, g)
           q == s.req[g]
           act == s.act[n]
<1>1. /\ BeginReady(s, n, g, r) /\ act # <<>>
      /\ t = [o EXCEPT !.pc = "share", !.wait = act[1], !.round = r, !.members = act,
                       !.at = 1, !.rebound = FALSE]
  BY DEF Begin
<1>2. Through(o) /\ o.pc \in {"connect", "ack", "share"}
  BY <1>1 DEF BeginReady, Through
<1>3. /\ TaskJ(q, n, g, o) /\ ConnectJ(q, n, g, o) /\ ReachJ(q, n, o) /\ Called(s, g) /\ ~Settled(s, g)
      /\ o \in Task /\ ShareJ(o, act) /\ n \in q.nodes
  BY <1>2, AtTask
<1>4. \A d \in Chan : d \in Ran(act) <=> Link(s, d) /\ Touches(d, n, g)
  BY <1>2, Neighbours
<1>5. act \in Seq(Chan)
  BY AtDictionary DEF Dictionary
<1>6. /\ o.pc = "connect" => o.wait = NoChan /\ o.list = <<>> /\ n # q.main /\ r = 1
      /\ o.pc = "ack" => o.wait = NoChan /\ o.asked = Len(o.opened) /\ r = 1
      /\ o.pc = "share" => o.at = Len(o.members) + 1 /\ o.round < Rounds /\ r = o.round + 1
  BY <1>1 DEF BeginReady
<1> HIDE DEF o, q, act
<1>7. Len(act) \in Nat \ {0} /\ act[1] \in Chan
  BY <1>1, <1>5
<1>8. o.round \in 0..Rounds /\ Rounds \in Nat /\ Rounds >= 1
  BY <1>3, BoundAssumption DEF Task
<1>9. o.pc \in {"connect", "ack"} => o.round = 0
  BY <1>3 DEF TaskJ
<1>10. r \in 1..Rounds /\ o.round = r - 1
  BY <1>2, <1>6, <1>8, <1>9
<1>11. o.pc = "connect" => o.from = Up(s, n, g)
  BY <1>3, <1>6 DEF TaskJ, Up, q
<1>12. o.pc = "ack" => n = q.main
  BY <1>3 DEF TaskJ
<1>13. \A d \in Ran(act) : Read(o, d) = r - 1
  <2> TAKE d \in Ran(act)
  <2>1. CASE o.pc = "share"
    <3>1. o.members = act /\ o.at = Len(act) + 1
      BY <1>3, <1>6, <2>1 DEF ShareJ
    <3>2. PICK i \in 1..Len(act) : act[i] = d
      BY DEF Ran
    <3>3. i < o.at
      BY <1>7, <3>1, <3>2
    <3>4. Read(o, d) = o.round
      BY <2>1, <3>1, <3>2, <3>3 DEF Read, Over
    <3> QED
      BY <1>10, <3>4
  <2>2. CASE o.pc # "share"
    BY <1>2, <1>6, <2>2 DEF Read, Over
  <2> QED
    BY <2>1, <2>2
<1>14. \A b \in Node : Before(q, n, b) <=> b \in Reached(o)
  BY <1>2, <1>3, <1>6 DEF ConnectJ, ReachJ, Ran
<1>15. /\ t \in Task /\ t.pc = "share" /\ t.round = r /\ t.members = act /\ t.at = 1
       /\ t.wait = act[1] /\ t.opened = o.opened /\ t.from = o.from
  <2>1. r \in 0..Rounds
    BY <1>8, <1>10
  <2> QED
    BY <1>1, <1>3, <1>5, <1>7, <2>1 DEF Task
<1>16. \A d : Read(t, d) = r - 1
  <2>1. \A i \in 1..Len(act) : ~(i < 1)
    BY <1>7
  <2> QED
    BY <1>15, <2>1 DEF Read, Over
<1> QED
  BY <1>2, <1>3, <1>4, <1>5, <1>6, <1>7, <1>10, <1>11, <1>12, <1>13, <1>14, <1>15, <1>16 DEF Begun, o, q, act

LEMMA LinkKeptBut ==
  ASSUME NEW s, NEW u, NEW d \in Chan, LinkJ(s, d), SameEnds(s, u, d),
         SharesJ(u, d),
         \A k \in {d.a, d.b} : \A m \in s.mail[k] :
           m.c = d /\ m.kind \in {"level0", "level1", "eof"} => m \in u.mail[k]
  PROVE  LinkJ(u, d)
<1>1. u.req = s.req /\ (Link(u, d) <=> Link(s, d)) /\ Up(u, d.b, d.g) = Up(s, d.b, d.g)
  BY DEF SameEnds, Link, Called, Up
<1>2. ChannelJ(u, d)
  BY <1>1 DEF LinkJ, ChannelJ, SameEnds
<1>3. Link(s, d) => LevelJ(u, d) /\ EofJ(u, d)
  BY DEF LinkJ, LevelJ, EofJ, SameEnds
<1> QED
  BY <1>1, <1>2, <1>3 DEF LinkJ

BeginStepped(s, u, n, g, t, r) ==
  LET act == s.act[n]
      new == BeginSends(s, n, g, r)
  IN  /\ Moves(s, u, n, g, t, act, NoChan, "none", Silent, new)
      /\ Step(s, u, n, g, t)
      /\ u.req = s.req /\ Tk(u, n, g) = t /\ u.act[n] = act
      /\ \A k \in Node, h \in Sign : Tk(u, k, h) = IF k = n /\ h = g THEN t ELSE Tk(s, k, h)
      /\ \A d \in Chan : u.resp[d] = s.resp[d]
      /\ \A k \in Node : u.mail[k] = s.mail[k] \cup new[k]

LEMMA BeginStep ==
  ASSUME NEW s, Mesh(s), NEW u, NEW n \in Node, NEW g \in Sign, NEW t, NEW r,
         Begin(s, u, n, g, t, r)
  PROVE  BeginStepped(s, u, n, g, t, r)
<1> DEFINE act == s.act[n]
           new == BeginSends(s, n, g, r)
<1>1. Move(s, u, n, g, t, act, NoChan, "none", Silent, new)
  BY DEF Begin
<1> HIDE DEF act, new
<1>2. Moves(s, u, n, g, t, act, NoChan, "none", Silent, new)
  BY <1>1, NotAChannel DEF Moves, Silent
<1>3. Step(s, u, n, g, t)
  BY <1>2, MoveStep
<1>4. /\ u.req = s.req /\ Tk(u, n, g) = t /\ u.act[n] = act
      /\ \A k \in Node, h \in Sign : Tk(u, k, h) = IF k = n /\ h = g THEN t ELSE Tk(s, k, h)
      /\ \A d \in Chan : u.resp[d] = s.resp[d]
      /\ \A k \in Node : u.mail[k] = s.mail[k] \cup new[k]
  BY <1>1, NotAChannel DEF Move, Silent
<1> QED
  BY <1>2, <1>3, <1>4 DEF BeginStepped, act, new

(* What is sent when a round begins.                                       *)
LEMMA BeginSent ==
  ASSUME NEW s, Mesh(s), NEW u, NEW n \in Node, NEW g \in Sign, NEW t, NEW r,
         Begin(s, u, n, g, t, r)
  PROVE  LET new == BeginSends(s, n, g, r)
         IN  /\ \A d \in Ran(s.act[n]) :
                  /\ ShareMsg(d, r) \in new[Other(n, d)] /\ Other(n, d) \in Node
                  /\ ShareMsg(d, r) \in Message /\ ShareMsg(d, r).c = d
                  /\ ShareMsg(d, r).kind = "share" /\ ShareMsg(d, r).round = r
             /\ Tk(s, n, g).pc = "connect" =>
                  /\ Msg(Up(s, n, g), "ack") \in new[s.req[g].main]
                  /\ Msg(Up(s, n, g), "ack") \in Message
             /\ \A k \in Node : \A v \in new[k] :
                  \/ \E d \in Ran(s.act[n]) : Other(n, d) = k /\ v = ShareMsg(d, r)
                  \/ Tk(s, n, g).pc = "connect" /\ k = s.req[g].main /\ v = Msg(Up(s, n, g), "ack")
<1> DEFINE o == Tk(s, n, g)
           q == s.req[g]
           act == s.act[n]
           new == BeginSends(s, n, g, r)
<1>1. /\ \A d \in Chan : d \in Ran(act) <=> Link(s, d) /\ Touches(d, n, g)
      /\ act \in Seq(Chan) /\ r \in 1..Rounds
      /\ o.pc = "connect" => n # q.main /\ o.from = Up(s, n, g)
  BY BeginFacts DEF Begun
<1>2. Ran(act) \subseteq Chan
  BY <1>1, RanType
<1>3. ASSUME NEW d \in Ran(act)
      PROVE  /\ ShareMsg(d, r) \in new[Other(n, d)] /\ Other(n, d) \in Node
             /\ ShareMsg(d, r) \in Message /\ ShareMsg(d, r).c = d
             /\ ShareMsg(d, r).kind = "share" /\ ShareMsg(d, r).round = r
  <2>1. d \in Chan /\ Other(n, d) \in Node
    BY <1>2, ChanFields DEF Other
  <2>2. ShareMsg(d, r) = [c |-> d, kind |-> "share", round |-> r, nodes |-> <<>>]
    BY DEF ShareMsg, Msg
  <2>3. r \in 0..Rounds
    BY <1>1, BoundAssumption
  <2>4. ShareMsg(d, r) \in Message
    BY <2>1, <2>2, <2>3 DEF Message, Kinds
  <2>5. new[Other(n, d)] = {ShareMsg(e, r) : e \in {e \in Ran(act) : Other(n, e) = Other(n, d)}}
       \cup {w \in {Msg(o.from, "ack")} : o.pc = "connect" /\ Other(n, d) = o.from.a}
    BY <2>1 DEF BeginSends
  <2>6. ShareMsg(d, r) \in new[Other(n, d)]
    BY <2>5
  <2> QED
    BY <2>1, <2>2, <2>4, <2>6
<1>4. ASSUME o.pc = "connect"
      PROVE  /\ Msg(Up(s, n, g), "ack") \in new[q.main]
             /\ Msg(Up(s, n, g), "ack") \in Message
  <2>1. o.from = Up(s, n, g) /\ Up(s, n, g) \in Chan /\ Up(s, n, g).a = q.main /\ q.main \in Node
    BY <1>1, <1>4, PeerTurn, ChanFields DEF Up
  <2> QED
    BY <1>4, <2>1, Plain DEF BeginSends, Kinds
<1>5. ASSUME NEW k \in Node, NEW v \in new[k]
      PROVE  \/ \E d \in Ran(act) : Other(n, d) = k /\ v = ShareMsg(d, r)
             \/ o.pc = "connect" /\ k = q.main /\ v = Msg(Up(s, n, g), "ack")
  <2>1. \/ v \in {ShareMsg(d, r) : d \in {e \in Ran(act) : Other(n, e) = k}}
        \/ v \in {w \in {Msg(o.from, "ack")} : o.pc = "connect" /\ k = o.from.a}
    BY <1>5 DEF BeginSends
  <2>2. CASE v \in {w \in {Msg(o.from, "ack")} : o.pc = "connect" /\ k = o.from.a}
    BY <1>1, <2>2 DEF Up
  <2> QED
    BY <2>1, <2>2
<1> QED
  BY <1>3, <1>4, <1>5

-----------------------------------------------------------------------------
LEMMA BeginTask ==
  ASSUME NEW s, Mesh(s), NEW u, NEW n \in Node, NEW g \in Sign, NEW t, NEW r,
         Begin(s, u, n, g, t, r)
  PROVE  MoveTask(s, u, n, g, t, s.act[n]) /\ MoveAct(u, n, s.act[n])
<1> DEFINE o == Tk(s, n, g)
           q == s.req[g]
           act == s.act[n]
           new == BeginSends(s, n, g, r)
           p == Tk(s, q.main, g)
<1>1. /\ Called(s, g) /\ ~Settled(s, g) /\ n \in q.nodes /\ Through(o)
      /\ r \in 1..Rounds /\ o.round = r - 1
      /\ o.pc \in {"connect", "ack", "share"}
      /\ o.pc = "connect" => n # q.main /\ r = 1 /\ o.from = Up(s, n, g) /\ o.wait = NoChan
      /\ o.pc = "ack" => n = q.main /\ r = 1 /\ o.wait = NoChan /\ o.asked = Len(o.opened)
      /\ act \in Seq(Chan) /\ Len(act) \in Nat \ {0} /\ act[1] \in Chan
      /\ \A e \in Chan : e \in Ran(act) <=> Link(s, e) /\ Touches(e, n, g)
      /\ \A e \in Ran(act) : Read(o, e) = r - 1
      /\ \A b \in Node : Before(q, n, b) <=> b \in Reached(o)
      /\ t \in Task /\ t.pc = "share" /\ t.round = r /\ t.members = act /\ t.at = 1
      /\ t.wait = act[1] /\ t.opened = o.opened /\ t.from = o.from
      /\ \A e : Read(t, e) = r - 1
  <2>1. Begun(s, n, g, t, r)
    BY BeginFacts
  <2> QED
    BY <2>1 DEF Begun
<1>2. /\ Moves(s, u, n, g, t, act, NoChan, "none", Silent, new)
      /\ Step(s, u, n, g, t)
      /\ u.req = s.req /\ Tk(u, n, g) = t /\ u.act[n] = act
      /\ \A k \in Node, h \in Sign : Tk(u, k, h) = IF k = n /\ h = g THEN t ELSE Tk(s, k, h)
      /\ \A e \in Chan : u.resp[e] = s.resp[e]
      /\ \A k \in Node : u.mail[k] = s.mail[k] \cup new[k]
  <2>1. BeginStepped(s, u, n, g, t, r)
    BY BeginStep
  <2> QED
    BY <2>1 DEF BeginStepped
<1>3. TaskJ(q, n, g, o) /\ StageJ(s, g) /\ AckJ(s, g) /\ (n = q.main => MainJ(q, g, o))
  BY <1>1, AtTask
<1>4. /\ q.main \in Node /\ q.nodes = {q.main} \cup Ran(q.peers) /\ q.peers \in Seq(Node)
      /\ q.main \notin Ran(q.peers) /\ \A i \in 1..Len(q.peers) : q.peers[i] \in Node /\ q.peers[i] \in Ran(q.peers)
  BY <1>1, Request
<1>5. o.pc = "connect" =>
        /\ p.pc = "ack" /\ p.wait = Up(s, n, g) /\ Msg(Up(s, n, g), "ack") \in u.mail[q.main]
  <2>1. o.pc = "connect" => p.pc = "ack" /\ p.wait = Up(s, n, g)
    BY <1>1, PeerTurn
  <2>2. o.pc = "connect" => Msg(Up(s, n, g), "ack") \in new[q.main]
    BY BeginSent
  <2> QED
    BY <1>2, <1>4, <2>1, <2>2
<1>6. p \in Task
  BY <1>4, AtTask
<1>7. t.pc \in Rounding /\ u.req[g] = q
  BY <1>1, <1>2 DEF Rounding
<1> HIDE DEF o, q, act, p, new
<1>8. StageJ(u, g)
  <2>1. CASE n = q.main
    <3>1. \A b \in Ran(q.peers) : Tk(s, b, g).pc \in Rounding
      <4>1. CASE o.pc = "ack"
        <5>1. o.asked = Len(q.peers) /\ o.wait = NoChan
          BY <1>1, <1>3, <2>1, <4>1 DEF MainJ
        <5>2. \A i \in 1..Len(q.peers) : i < o.asked \/ i = o.asked
          BY <1>4, <5>1
        <5>3. \A i \in 1..Len(q.peers) : Tk(s, q.peers[i], g).pc \in Rounding
          BY <1>3, <2>1, <4>1, <5>1, <5>2 DEF StageJ, o, q
        <5> QED
          BY <5>3 DEF Ran
      <4>2. CASE o.pc = "share"
        BY <1>3, <2>1, <4>2 DEF StageJ, Rounding, o, q
      <4> QED
        BY <1>1, <2>1, <4>1, <4>2
    <3>2. \A b \in Ran(q.peers) : Tk(u, b, g) = Tk(s, b, g)
      BY <1>2, <1>4, <2>1 DEF Ran
    <3> QED
      BY <1>1, <1>2, <1>7, <2>1, <3>1, <3>2 DEF StageJ
  <2>2. CASE n # q.main
    <3>1. PICK i \in 1..Len(q.peers) : q.peers[i] = n
      BY <1>1, <1>4, <2>2 DEF Ran
    <3>2. Tk(u, q.main, g) = p
      BY <1>2, <1>4, <2>2 DEF p
    <3>3. \A b \in Node : Tk(u, b, g) = Tk(s, b, g) \/ (b = n /\ Tk(u, b, g).pc \in Rounding)
      BY <1>2, <1>7
    <3>4. p.pc = "connect" => \A b \in Ran(q.peers) : Tk(s, b, g).pc = "idle"
      BY <1>3 DEF StageJ, q, p
    <3>5. p.pc # "connect"
      BY <1>1, <1>4, <3>1, <3>4 DEF o
    <3>6. ASSUME p.pc = "ack", NEW j \in 1..Len(q.peers)
          PROVE  /\ j < p.asked => Tk(u, q.peers[j], g).pc \in Rounding
                 /\ j > p.asked => Tk(u, q.peers[j], g).pc = "idle"
                 /\ j = p.asked /\ p.wait = NoChan => Tk(u, q.peers[j], g).pc \in Rounding
      <4>1. /\ j < p.asked => Tk(s, q.peers[j], g).pc \in Rounding
            /\ j > p.asked => Tk(s, q.peers[j], g).pc = "idle"
            /\ j = p.asked /\ p.wait = NoChan => Tk(s, q.peers[j], g).pc \in Rounding
        BY <1>3, <3>6 DEF StageJ, p, q
      <4>2. j > p.asked => q.peers[j] # n
        BY <1>1, <4>1 DEF o
      <4> QED
        BY <1>4, <3>3, <4>1, <4>2
    <3>7. p.pc \in Rounding => \A b \in Ran(q.peers) : Tk(u, b, g).pc \in Rounding
      <4>1. p.pc \in Rounding => \A b \in Ran(q.peers) : Tk(s, b, g).pc \in Rounding
        BY <1>3 DEF StageJ, p, q
      <4> QED
        BY <1>4, <3>3, <4>1 DEF Ran
    <3> QED
      BY <1>7, <3>2, <3>5, <3>6, <3>7 DEF StageJ
  <2> QED
    BY <2>1, <2>2
<1>9. AckJ(u, g)
  <2>1. CASE n = q.main
    BY <1>1, <1>2, <1>7, <2>1 DEF AckJ
  <2>2. CASE n # q.main
    <3>1. Tk(u, q.main, g) = p
      BY <1>2, <1>4, <2>2 DEF p
    <3>2. SUFFICES ASSUME p.pc = "ack", p.wait # NoChan, Tk(u, p.wait.b, g).pc \in Rounding
                   PROVE  \E w \in u.mail[q.main] : w.c = p.wait /\ w.kind = "ack"
      BY <1>7, <3>1 DEF AckJ
    <3>3. p.wait.b \in Node
      BY <1>6, <3>2, ChanFields DEF Task
    <3>4. CASE p.wait.b = n /\ o.pc = "connect"
      <4>1. Msg(Up(s, n, g), "ack").c = Up(s, n, g) /\ Msg(Up(s, n, g), "ack").kind = "ack"
        BY DEF Msg
      <4> QED
        BY <1>5, <3>4, <4>1
    <3>5. CASE ~(p.wait.b = n /\ o.pc = "connect")
      <4>1. Tk(s, p.wait.b, g).pc \in Rounding
        <5>1. CASE p.wait.b = n
          <6>1. o.pc = "share"
            BY <1>1, <2>2, <3>5, <5>1
          <6> QED
            BY <5>1, <6>1 DEF Rounding, o
        <5>2. CASE p.wait.b # n
          BY <1>2, <3>2, <3>3, <5>2
        <5> QED
          BY <5>1, <5>2
      <4>2. \E w \in s.mail[q.main] : w.c = p.wait /\ w.kind = "ack"
        BY <1>3, <3>2, <4>1 DEF AckJ, p, q
      <4> QED
        BY <1>2, <1>4, <4>2
    <3> QED
      BY <3>4, <3>5
  <2> QED
    BY <2>1, <2>2
<1>10. TaskJ(q, n, g, t)
  BY <1>1, <1>3 DEF TaskJ, Over
<1>11. ConnectJ(q, n, g, t) /\ ReachJ(q, n, t)
  BY <1>1 DEF ConnectJ, ReachJ, Reached
<1>12. ShareJ(t, act)
  BY <1>1 DEF ShareJ
<1>13. MainJ(q, g, t)
  BY <1>1 DEF MainJ
<1>14. o.round = Rounds => t.round = Rounds
  BY <1>1, BoundAssumption
<1>15. MoveTask(s, u, n, g, t, act)
  BY <1>8, <1>9, <1>10, <1>11, <1>12, <1>13, <1>14 DEF MoveTask, o, q
<1>16. \A e \in Chan : Holds(u, n, e) <=> Holds(s, n, e)
  <2>1. t.opened = Tk(s, n, g).opened /\ (t.pc = "sleep2" <=> Tk(s, n, g).pc = "sleep2")
    BY <1>1 DEF o
  <2> QED
    BY <1>2, <2>1, AlikeHolds
<1>17. MoveAct(u, n, act)
  BY <1>16, AtDictionary DEF MoveAct, act
<1> QED
  BY <1>15, <1>17 DEF act

(* The channels of a node that begins a round.                             *)
LEMMA BeginLink ==
  ASSUME NEW s, Mesh(s), NEW u, NEW n \in Node, NEW g \in Sign, NEW t, NEW r,
         Begin(s, u, n, g, t, r), NEW d \in Chan, Touches(d, n, g)
  PROVE  LinkJ(u, d)
<1> DEFINE o == Tk(s, n, g)
           q == s.req[g]
           act == s.act[n]
           new == BeginSends(s, n, g, r)
<1>1. /\ Called(s, g) /\ ~Settled(s, g) /\ n \in q.nodes /\ Through(o)
      /\ r \in 1..Rounds /\ o.round = r - 1
      /\ o.pc \in {"connect", "ack", "share"}
      /\ o.pc = "connect" => n # q.main /\ r = 1 /\ o.from = Up(s, n, g) /\ o.wait = NoChan
      /\ o.pc = "ack" => n = q.main /\ r = 1 /\ o.wait = NoChan /\ o.asked = Len(o.opened)
      /\ act \in Seq(Chan) /\ Len(act) \in Nat \ {0} /\ act[1] \in Chan
      /\ \A e \in Chan : e \in Ran(act) <=> Link(s, e) /\ Touches(e, n, g)
      /\ \A e \in Ran(act) : Read(o, e) = r - 1
      /\ \A b \in Node : Before(q, n, b) <=> b \in Reached(o)
      /\ t \in Task /\ t.pc = "share" /\ t.round = r /\ t.members = act /\ t.at = 1
      /\ t.wait = act[1] /\ t.opened = o.opened /\ t.from = o.from
      /\ \A e : Read(t, e) = r - 1
  <2>1. Begun(s, n, g, t, r)
    BY BeginFacts
  <2> QED
    BY <2>1 DEF Begun
<1>2. /\ Moves(s, u, n, g, t, act, NoChan, "none", Silent, new)
      /\ Step(s, u, n, g, t)
      /\ u.req = s.req /\ Tk(u, n, g) = t /\ u.act[n] = act
      /\ \A k \in Node, h \in Sign : Tk(u, k, h) = IF k = n /\ h = g THEN t ELSE Tk(s, k, h)
      /\ \A e \in Chan : u.resp[e] = s.resp[e]
      /\ \A k \in Node : u.mail[k] = s.mail[k] \cup new[k]
  <2>1. BeginStepped(s, u, n, g, t, r)
    BY BeginStep
  <2> QED
    BY <2>1 DEF BeginStepped
<1>3. d.g = g /\ d.a \in Node /\ d.b \in Node /\ d.a # d.b /\ (d.a = n \/ d.b = n)
  BY ChanFields DEF Touches
<1>4. CASE ~Link(s, d)
  BY <1>2, <1>4, NotLinked
<1>5. CASE Link(s, d)
  <2>1. d \in Ran(act) /\ LinkJ(s, d) /\ SharesJ(s, d) /\ ~(Opened(s, d) /\ Waited(s, d))
    BY <1>1, <1>5, AtLink, NotBoth
  <2>2. Read(o, d) = r - 1 /\ Read(t, d) = r - 1
    BY <1>1, <2>1
  <2>3. /\ ShareMsg(d, r) \in u.mail[Other(n, d)] /\ ShareMsg(d, r).c = d
        /\ ShareMsg(d, r).kind = "share" /\ ShareMsg(d, r).round = r
    <3>1. /\ ShareMsg(d, r) \in new[Other(n, d)] /\ Other(n, d) \in Node
          /\ ShareMsg(d, r).c = d
          /\ ShareMsg(d, r).kind = "share" /\ ShareMsg(d, r).round = r
      BY <2>1, BeginSent
    <3> QED
      BY <1>2, <3>1
  <2>4. Before(q, d.a, d.b) /\ d.b # q.main
    BY <1>3, <1>5, LinkIs DEF Link
  <2> HIDE DEF o, q, act, new
  <2>5. MailKept(s, u, d)
    BY <1>2, <1>3 DEF MailKept
  <2>6. SharesJ(u, d)
    <3> DEFINE e == Other(n, d)
               w == Tk(s, e, g)
    <3>1. e \in Node /\ e # n /\ {d.a, d.b} = {n, e} /\ Other(e, d) = n
      BY <1>3 DEF Other
    <3>2. Tk(u, e, g) = w
      BY <1>2, <3>1
    <3>3. /\ r - 1 <= w.round
          /\ \A i \in 1..Rounds : r - 1 < i /\ i <= w.round =>
               \E m \in s.mail[n] : m.c = d /\ m.kind = "share" /\ m.round = i
          /\ Read(w, d) <= r - 1
          /\ \A i \in 1..Rounds : Read(w, d) < i /\ i <= r - 1 =>
               \E m \in s.mail[e] : m.c = d /\ m.kind = "share" /\ m.round = i
      <4>1. /\ Read(Tk(s, n, d.g), d) <= Tk(s, Other(n, d), d.g).round
            /\ \A i \in 1..Rounds :
                 Read(Tk(s, n, d.g), d) < i /\ i <= Tk(s, Other(n, d), d.g).round =>
                   \E m \in s.mail[n] : m.c = d /\ m.kind = "share" /\ m.round = i
        BY <2>1, <3>1 DEF SharesJ
      <4>2. /\ Read(Tk(s, e, d.g), d) <= Tk(s, Other(e, d), d.g).round
            /\ \A i \in 1..Rounds :
                 Read(Tk(s, e, d.g), d) < i /\ i <= Tk(s, Other(e, d), d.g).round =>
                   \E m \in s.mail[e] : m.c = d /\ m.kind = "share" /\ m.round = i
        BY <2>1, <3>1 DEF SharesJ
      <4>3. Read(Tk(s, n, d.g), d) = r - 1 /\ Tk(s, Other(e, d), d.g).round = r - 1
        BY <1>1, <1>3, <2>2, <3>1 DEF o
      <4> QED
        BY <1>3, <4>1, <4>2, <4>3
    <3>4. Read(w, d) \in 0..Rounds
      BY <3>1, ReadIs
    <3> HIDE DEF e, w
    <3>5. Read(w, d) <= r
      BY <1>1, <3>3, <3>4, BoundAssumption
    <3>6. \A i \in 1..Rounds : Read(w, d) < i /\ i <= r =>
             \E m \in u.mail[e] : m.c = d /\ m.kind = "share" /\ m.round = i
      <4> SUFFICES ASSUME NEW i \in 1..Rounds, Read(w, d) < i, i <= r
                   PROVE  \E m \in u.mail[e] : m.c = d /\ m.kind = "share" /\ m.round = i
        OBVIOUS
      <4>1. i = r \/ i <= r - 1
        BY <1>1
      <4>2. CASE i = r
        BY <2>3, <4>2 DEF e
      <4>3. CASE i <= r - 1
        BY <1>2, <3>1, <3>3, <4>3
      <4> QED
        BY <4>1, <4>2, <4>3
    <3>7. \A i \in 1..Rounds : r - 1 < i /\ i <= w.round =>
             \E m \in u.mail[n] : m.c = d /\ m.kind = "share" /\ m.round = i
      BY <1>2, <3>3
    <3>8. Other(n, d) = e
      BY DEF e
    <3>9. \A k \in {d.a, d.b} : k = n \/ k = e
      BY <3>1
    <3> QED
      BY <1>1, <1>2, <1>3, <2>2, <3>1, <3>2, <3>3, <3>5, <3>6, <3>7, <3>8, <3>9 DEF SharesJ
  <2>7. SameEnds(s, u, d)
    <3>1. CASE d.a = n
      <4>1. Tk(s, d.a, d.g) = o /\ Tk(u, d.a, d.g) = t /\ Tk(u, d.b, d.g) = Tk(s, d.b, d.g)
        BY <1>2, <1>3, <3>1 DEF o
      <4>2. Opened(s, d) /\ ~Waited(s, d)
        BY <1>1, <1>3, <2>1, <2>4, <3>1, <4>1 DEF Opened
      <4>3. Opened(u, d)
        BY <1>1, <4>1 DEF Opened, Rounding
      <4> QED
        <5>1. UpSame(s, u, d)
          BY <1>2, UpAll
        <5> QED
          BY <1>1, <1>2, <4>1, <4>2, <4>3, <5>1 DEF SameEnds, UpSame
    <3>2. CASE d.b = n
      <4>1. Tk(s, d.b, d.g) = o /\ Tk(u, d.b, d.g) = t /\ Tk(u, d.a, d.g) = Tk(s, d.a, d.g)
        BY <1>2, <1>3, <3>2 DEF o
      <4>2. (Opened(u, d) <=> Opened(s, d)) /\ (Waited(u, d) <=> Waited(s, d))
        BY <4>1 DEF Opened, Waited
      <4>3. o.pc \in {"connect", "share"}
        BY <1>1, <2>4, <3>2
      <4>4. UpSame(s, u, d)
        BY <1>2, UpAll
      <4> QED
        BY <1>1, <1>2, <4>1, <4>2, <4>3, <4>4 DEF SameEnds, UpSame
    <3> QED
      BY <1>3, <3>1, <3>2
  <2> QED
    BY <2>1, <2>5, <2>6, <2>7, LinkKeptBut DEF MailKept
<1> QED
  BY <1>4, <1>5

(* What was sent before a round begins is said of it afterwards too.       *)
LEMMA BeginOld ==
  ASSUME NEW s, Mesh(s), NEW u, NEW n \in Node, NEW g \in Sign, NEW t, NEW r,
         Begin(s, u, n, g, t, r), NEW k \in Node, NEW m \in s.mail[k], Touches(m.c, n, g)
  PROVE  Sound(u, k, m)
<1> DEFINE o == Tk(s, n, g)
           q == s.req[g]
           d == m.c
           main == q.main
<1>1. Begun(s, n, g, t, r) /\ BeginStepped(s, u, n, g, t, r)
  BY BeginFacts, BeginStep
<1>2. /\ n \in q.nodes /\ r \in 1..Rounds /\ o.round = r - 1
      /\ o.pc \in {"connect", "ack", "share"}
      /\ o.pc = "connect" => n # main /\ o.wait = NoChan
      /\ o.pc = "ack" => n = main /\ o.wait = NoChan
      /\ \A e \in Chan : e \in Ran(s.act[n]) <=> Link(s, e) /\ Touches(e, n, g)
      /\ \A e \in Ran(s.act[n]) : Read(o, e) = r - 1
      /\ t.pc = "share" /\ t.round = r
      /\ \A e : Read(t, e) = r - 1
  BY <1>1 DEF Begun
<1>3. /\ u.req = s.req /\ Tk(u, n, g) = t
      /\ \A p \in Node, h \in Sign : Tk(u, p, h) = IF p = n /\ h = g THEN t ELSE Tk(s, p, h)
      /\ \A e \in Chan : u.resp[e] = s.resp[e]
  BY <1>1 DEF BeginStepped
<1>4. Sound(s, k, m) /\ m \in Message /\ d \in Chan /\ Link(s, d) /\ k \in {d.a, d.b}
  BY AtMail
<1>5. d.g = g /\ d.a \in Node /\ d.b \in Node /\ d.a # d.b /\ (d.a = n \/ d.b = n) /\ d # NoChan
  BY <1>4, ChanFields, NotAChannel DEF Touches
<1>6. main \in Node
  BY <1>4, <1>5, MainNode DEF Link
<1>7. o = Tk(s, n, g) /\ s.req[d.g].main = main /\ main = s.req[g].main
  BY <1>5
<1> HIDE DEF o, q, d, main
<1>8. o.round # Rounds /\ o.round <= t.round
  BY <1>2, BoundAssumption
<1>9. m.kind # "eof"
  <2> SUFFICES ASSUME m.kind = "eof" PROVE FALSE
    OBVIOUS
  <2>1. Tk(s, n, d.g).round = Rounds
    BY <1>2, <1>5, EofAll DEF d, q
  <2> QED
    BY <1>5, <1>7, <1>8, <2>1
<1>10. Waited(s, d) => Waited(u, d)
  <2>1. CASE d.a = n
    <3>1. Tk(s, d.a, d.g) = o
      BY <1>5, <1>7, <2>1
    <3> QED
      BY <1>2, <1>5, <3>1 DEF Waited
  <2>2. CASE d.a # n
    BY <1>3, <1>5, <2>2 DEF Waited
  <2> QED
    BY <2>1, <2>2
<1>11. Opened(s, d) => Opened(u, d)
  <2>1. CASE d.a = n
    BY <1>2, <1>3, <1>5, <2>1 DEF Opened, Rounding
  <2>2. CASE d.a # n
    BY <1>3, <1>5, <2>2 DEF Opened
  <2> QED
    BY <2>1, <2>2
<1>12. Tk(s, main, d.g).pc = "ack" /\ Tk(s, main, d.g).wait = d =>
         Tk(u, main, d.g).pc = "ack" /\ Tk(u, main, d.g).wait = d
  <2>1. CASE main = n
    BY <1>2, <1>5, <1>7, <2>1
  <2>2. CASE main # n
    BY <1>3, <1>5, <1>6, <2>2
  <2> QED
    BY <2>1, <2>2
<1>13. /\ Tk(s, d.b, d.g).pc = "idle" => Tk(u, d.b, d.g).pc = "idle"
       /\ Tk(s, d.b, d.g).pc \in Rounding => Tk(u, d.b, d.g).pc \in Rounding
  <2>1. CASE d.b = n
    <3>1. Tk(s, d.b, d.g) = o /\ Tk(u, d.b, d.g) = t
      BY <1>3, <1>5, <1>7, <2>1
    <3> QED
      BY <1>2, <3>1 DEF Rounding
  <2>2. CASE d.b # n
    BY <1>3, <1>5, <2>2
  <2> QED
    BY <2>1, <2>2
<1>14. m.kind = "share" =>
         /\ Read(Tk(u, k, d.g), d) = Read(Tk(s, k, d.g), d)
         /\ m.round <= Tk(s, Other(k, d), d.g).round =>
              m.round <= Tk(u, Other(k, d), d.g).round
  <2> SUFFICES ASSUME m.kind = "share"
               PROVE  /\ Read(Tk(u, k, d.g), d) = Read(Tk(s, k, d.g), d)
                      /\ m.round <= Tk(s, Other(k, d), d.g).round =>
                           m.round <= Tk(u, Other(k, d), d.g).round
    OBVIOUS
  <2>1. Read(o, d) = Read(t, d)
    <3>1. d \in Ran(s.act[n])
      BY <1>2, <1>4 DEF d
    <3> QED
      BY <1>2, <3>1
  <2>2. CASE k = n
    <3>1. Tk(s, k, d.g) = o /\ Tk(u, k, d.g) = t
      BY <1>3, <1>5, <1>7, <2>2
    <3>2. Other(k, d) \in Node /\ Other(k, d) # n
      BY <1>4, <1>5, <2>2 DEF Other
    <3> QED
      BY <1>3, <1>5, <2>1, <3>1, <3>2
  <2>3. CASE k # n
    <3>1. Other(k, d) = n
      BY <1>4, <1>5, <2>3 DEF Other
    <3>2. Tk(u, k, d.g) = Tk(s, k, d.g)
      BY <1>3, <1>5, <2>3
    <3>3. Tk(s, n, d.g) = o /\ Tk(u, n, d.g) = t
      BY <1>3, <1>5, <1>7
    <3>4. m.round \in Nat /\ o.round \in Nat /\ t.round \in Nat
      BY <1>2, <1>4, BoundAssumption DEF Message
    <3> QED
      BY <1>8, <3>1, <3>2, <3>3, <3>4
  <2> QED
    BY <2>2, <2>3
<1>15. SoundKept(s, u, k, m)
  BY <1>3, <1>4, <1>7, <1>9, <1>10, <1>11, <1>12, <1>13, <1>14 DEF SoundKept, d
<1> QED
  BY <1>4, <1>15, StillSound

(* What is sent when a round begins.                                       *)
LEMMA BeginShare ==
  ASSUME NEW s, Mesh(s), NEW u, NEW n \in Node, NEW g \in Sign, NEW t, NEW r,
         Begin(s, u, n, g, t, r), NEW d \in Ran(s.act[n])
  PROVE  Sound(u, Other(n, d), ShareMsg(d, r)) /\ Fresh(s, Other(n, d), ShareMsg(d, r))
<1> DEFINE o == Tk(s, n, g)
           q == s.req[g]
           v == ShareMsg(d, r)
           k == Other(n, d)
<1>1. Begun(s, n, g, t, r) /\ BeginStepped(s, u, n, g, t, r)
  BY BeginFacts, BeginStep
<1>2. /\ n \in q.nodes /\ r \in 1..Rounds /\ o.round = r - 1 /\ t.round = r
      /\ s.act[n] \in Seq(Chan)
      /\ \A e \in Chan : e \in Ran(s.act[n]) <=> Link(s, e) /\ Touches(e, n, g)
  BY <1>1 DEF Begun
<1>3. /\ u.req = s.req /\ Tk(u, n, g) = t
      /\ \A p \in Node, h \in Sign : Tk(u, p, h) = IF p = n /\ h = g THEN t ELSE Tk(s, p, h)
  BY <1>1 DEF BeginStepped
<1>4. /\ v \in Message /\ v.c = d /\ v.kind = "share" /\ v.round = r /\ k \in Node
  BY BeginSent
<1>5. d \in Chan
  BY <1>2, RanType
<1>6. Link(s, d) /\ Touches(d, n, g) /\ d.g = g /\ (d.a = n \/ d.b = n) /\ d.a # d.b
  BY <1>2, <1>5, ChanFields DEF Touches
<1>7. k # n /\ k \in {d.a, d.b} /\ n \in {d.a, d.b} /\ Other(k, d) = n
  BY <1>6 DEF Other
<1>8. o.round # Rounds
  BY <1>2, BoundAssumption
<1>9. Tk(s, n, d.g) = o
  BY <1>6
<1> HIDE DEF o, q, v, k
<1>10. Sound(u, k, v)
  <2>1. Link(u, d)
    BY <1>3, <1>6 DEF Link, Called
  <2>2. Read(Tk(s, k, d.g), d) <= Tk(s, Other(k, d), d.g).round
    BY <1>5, <1>6, <1>7, AtLink DEF SharesJ
  <2>3. Read(Tk(u, k, d.g), d) <= r - 1
    BY <1>2, <1>3, <1>4, <1>6, <1>7, <1>9, <2>2
  <2>4. Read(Tk(s, k, d.g), d) \in 0..Rounds
    BY <1>4, <1>6, ReadIs
  <2>5. Tk(u, k, d.g) = Tk(s, k, d.g)
    BY <1>3, <1>4, <1>6, <1>7
  <2>6. r > Read(Tk(u, k, d.g), d)
    BY <1>2, <2>3, <2>4, <2>5, BoundAssumption
  <2>7. r <= Tk(u, Other(k, d), d.g).round
    BY <1>2, <1>3, <1>6, <1>7
  <2> QED
    BY <1>4, <1>7, <2>1, <2>6, <2>7 DEF Sound
<1>11. ASSUME NEW m \in s.mail[k] PROVE May(m, v)
  <2>1. /\ Sound(s, k, m) /\ m \in Message /\ m.c \in Chan /\ Link(s, m.c)
    BY <1>4, AtMail
  <2>2. m.kind = "eof" => m.c.g # g
    <3> SUFFICES ASSUME m.kind = "eof", m.c.g = g PROVE FALSE
      OBVIOUS
    <3>1. Tk(s, n, m.c.g).round = Rounds
      BY <1>2, <1>4, EofAll DEF q
    <3> QED
      BY <1>8, <1>9, <1>6, <3>1
  <2>3. m.c = d => Rank(m) < Rank(v)
    <3> SUFFICES ASSUME m.c = d PROVE Rank(m) < Rank(v)
      OBVIOUS
    <3>1. Rank(v) = 2 + r
      BY <1>4 DEF Rank
    <3>2. m.kind # "eof"
      BY <1>6, <2>2
    <3>3. CASE m.kind = "share"
      <4>1. m.round <= o.round
        BY <1>4, <1>7, <1>9, <3>3, ShareFrom
      <4>2. Rank(m) = 2 + m.round
        BY <3>3 DEF Rank
      <4>3. m.round \in Nat
        BY <2>1, BoundAssumption DEF Message
      <4> QED
        BY <1>2, <3>1, <4>1, <4>2, <4>3
    <3>4. CASE m.kind # "share"
      <4>1. Rank(m) \in {0, 1, 2}
        BY <2>1, <3>2, <3>4 DEF Rank, Message, Kinds
      <4> QED
        BY <1>2, <3>1, <4>1
    <3> QED
      BY <3>3, <3>4
  <2> QED
    BY <1>4, <1>6, <2>2, <2>3 DEF May
<1> QED
  BY <1>10, <1>11 DEF Fresh, v, k

LEMMA BeginAck ==
  ASSUME NEW s, Mesh(s), NEW u, NEW n \in Node, NEW g \in Sign, NEW t, NEW r,
         Begin(s, u, n, g, t, r), Tk(s, n, g).pc = "connect"
  PROVE  /\ Sound(u, s.req[g].main, Msg(Up(s, n, g), "ack"))
         /\ Fresh(s, s.req[g].main, Msg(Up(s, n, g), "ack"))
<1> DEFINE o == Tk(s, n, g)
           q == s.req[g]
           main == s.req[g].main
           c == Up(s, n, g)
           v == Msg(c, "ack")
           p == Tk(s, main, g)
<1>1. Begun(s, n, g, t, r) /\ BeginStepped(s, u, n, g, t, r)
  BY BeginFacts, BeginStep
<1>2. n # main /\ t.pc = "share" /\ n \in q.nodes /\ Called(s, g)
  BY <1>1 DEF Begun
<1>3. /\ u.req = s.req /\ Tk(u, n, g) = t
      /\ \A k \in Node, h \in Sign : Tk(u, k, h) = IF k = n /\ h = g THEN t ELSE Tk(s, k, h)
  BY <1>1 DEF BeginStepped
<1>4. p.pc = "ack" /\ p.wait = c /\ c \in Chan /\ Link(s, c)
  BY <1>2, PeerTurn
<1>5. c.a = main /\ c.b = n /\ c.g = g /\ main \in Node
  BY <1>2, MainNode DEF Up
<1>6. v \in Message /\ v.c = c /\ v.kind = "ack"
  BY <1>4, Plain DEF Kinds
<1>7. o.pc \notin Rounding
  BY DEF Rounding, Over
<1> HIDE DEF v, c, p
<1>8. Sound(u, main, v)
  <2>1. Link(u, c)
    BY <1>3, <1>4 DEF Link, Called
  <2>2. Tk(u, main, g) = p /\ Tk(u, c.b, g).pc \in Rounding
    BY <1>2, <1>3, <1>5 DEF Rounding, p
  <2>3. u.req[c.g].main = main
    BY <1>3, <1>5
  <2> QED
    BY <1>4, <1>5, <1>6, <2>1, <2>2, <2>3 DEF Sound
<1>9. ASSUME NEW m \in s.mail[main] PROVE May(m, v)
  <2>1. /\ Sound(s, main, m) /\ m \in Message /\ m.c \in Chan /\ Link(s, m.c)
    BY <1>5, AtMail
  <2>2. ASSUME m.c = c PROVE Rank(m) < Rank(v)
    <3>1. m.kind # "payload"
      BY <1>2, <1>5, <2>1, <2>2 DEF Sound
    <3>2. m.kind # "ack"
      BY <1>5, <1>7, <2>1, <2>2 DEF Sound
    <3>3. m.kind # "share"
      <4>1. Other(main, c) = n
        BY <1>2, <1>5 DEF Other
      <4> QED
        BY <1>5, <1>7, <2>2, <4>1, ShareFrom
    <3>4. m.kind # "eof"
      BY <1>2, <1>5, <1>7, <2>2, EofAll
    <3>5. Rank(m) \in {0, 1} /\ Rank(v) = 2
      BY <1>6, <2>1, <3>1, <3>2, <3>3, <3>4 DEF Rank, Message, Kinds
    <3> QED
      BY <3>5
  <2> QED
    BY <1>6, <2>2 DEF May
<1> QED
  BY <1>8, <1>9 DEF Fresh, v, c

LEMMA BeginMail ==
  ASSUME NEW s, Mesh(s), NEW u, NEW n \in Node, NEW g \in Sign, NEW t, NEW r,
         Begin(s, u, n, g, t, r)
  PROVE  MoveMail(s, u, n, g, Silent, BeginSends(s, n, g, r))
<1> DEFINE new == BeginSends(s, n, g, r)
           main == s.req[g].main
           x == Msg(Up(s, n, g), "ack")
<1>1. \A k \in Node : \A v \in new[k] :
        \/ \E d \in Ran(s.act[n]) : Other(n, d) = k /\ v = ShareMsg(d, r)
        \/ Tk(s, n, g).pc = "connect" /\ k = main /\ v = x
  BY BeginSent
<1>2. \A k \in Node : \A m \in s.mail[k] : Touches(m.c, n, g) => Sound(u, k, m)
  BY BeginOld
<1> HIDE DEF new, main, x
<1>3. ASSUME NEW k \in Node, NEW v \in new[k] PROVE Sound(u, k, v) /\ Fresh(s, k, v)
  <2>1. CASE \E d \in Ran(s.act[n]) : Other(n, d) = k /\ v = ShareMsg(d, r)
    BY <2>1, BeginShare
  <2>2. CASE Tk(s, n, g).pc = "connect" /\ k = main /\ v = x
    BY <2>2, BeginAck DEF main, x
  <2> QED
    BY <1>1, <1>3, <2>1, <2>2
<1>4. ASSUME NEW k \in Node, NEW v \in new[k], NEW w \in new[k] PROVE Alone(v, w)
  <2>1. \A y \in new[k] : y = x \/ \E d \in Ran(s.act[n]) : y = ShareMsg(d, r)
    BY <1>1, <1>4
  <2>2. x.kind = "ack" /\ \A d : ShareMsg(d, r).kind = "share" /\ ShareMsg(d, r).c = d
    BY DEF ShareMsg, Msg, x
  <2> QED
    BY <1>4, <2>1, <2>2 DEF Alone
<1> QED
  BY <1>2, <1>3, <1>4 DEF MoveMail, new

LEMMA BeginMoves ==
  ASSUME NEW s, Mesh(s), NEW u, NEW n \in Node, NEW g \in Sign, NEW t, NEW r,
         Begin(s, u, n, g, t, r)
  PROVE  /\ Mesh(u)
         /\ \A k \in Node : \A v \in BeginSends(s, n, g, r)[k] : Fresh(s, k, v)
<1>1. Called(s, g) /\ ~Settled(s, g)
  BY BeginFacts DEF Begun
<1>2. Moves(s, u, n, g, t, s.act[n], NoChan, "none", Silent, BeginSends(s, n, g, r))
  BY BeginStep DEF BeginStepped
<1>3. MoveMail(s, u, n, g, Silent, BeginSends(s, n, g, r))
  BY BeginMail
<1>4. MoveTask(s, u, n, g, t, s.act[n]) /\ MoveAct(u, n, s.act[n])
  BY BeginTask
<1>5. \A d \in Chan : Touches(d, n, g) => LinkJ(u, d)
  BY BeginLink
<1>6. Mesh(u)
  BY <1>1, <1>2, <1>3, <1>4, <1>5, MoveMesh
<1> QED
  BY <1>3, <1>6 DEF MoveMail

-----------------------------------------------------------------------------
(* A share is read.                                                        *)

(* n gets the share of a channel for its round.                            *)
ShareRead(s, u, n, g, t, c, m) ==
  LET o == Tk(s, n, g)
  IN  /\ o.pc = "share" /\ o.wait = c /\ m \in s.mail[n] /\ m.c = c
      /\ m.kind = "share" /\ m.round = o.round
      /\ t = [o EXCEPT !.at = o.at + 1,
                       !.wait = IF o.at < Len(o.members) THEN o.members[o.at + 1] ELSE NoChan]
      /\ Move(s, u, n, g, t, s.act[n], NoChan, "none", Only(n, m), Silent)

ShareGot(s, u, n, g, t, c, m) ==
  LET o == Tk(s, n, g)
      act == s.act[n]
  IN  /\ c \in Chan /\ Link(s, c) /\ Touches(c, n, g) /\ c # NoChan
      /\ act \in Seq(Chan) /\ o.at \in 1..Len(act) /\ Len(act) \in Nat
      /\ o.members = act /\ o.pc = "share" /\ o.wait = c /\ o.round \in 1..Rounds
      /\ t \in Task /\ t.pc = "share" /\ t.at = o.at + 1
      /\ t.wait = (IF o.at < Len(act) THEN act[o.at + 1] ELSE NoChan)
      /\ t.opened = o.opened /\ t.from = o.from /\ t.round = o.round /\ t.members = act
      /\ Read(o, c) = o.round - 1 /\ Read(t, c) = o.round
      /\ \A d : d # c => Read(t, d) = Read(o, d)
      /\ Called(s, g) /\ ~Settled(s, g)
      /\ Moves(s, u, n, g, t, act, NoChan, "none", Only(n, m), Silent)
      /\ Step(s, u, n, g, t)
      /\ u.req = s.req /\ Tk(u, n, g) = t
      /\ \A p \in Node, h \in Sign : Tk(u, p, h) = IF p = n /\ h = g THEN t ELSE Tk(s, p, h)
      /\ \A d \in Chan : u.resp[d] = s.resp[d]
      /\ \A p \in Node : u.mail[p] = s.mail[p] \ (IF p = n THEN {m} ELSE {})

LEMMA ShareReadFacts ==
  ASSUME NEW s, Mesh(s), NEW u, NEW n \in Node, NEW g \in Sign, NEW t, NEW c, NEW m,
         ShareRead(s, u, n, g, t, c, m)
  PROVE  ShareGot(s, u, n, g, t, c, m)
<1> DEFINE o == Tk(s, n, g)
           act == s.act[n]
<1>1. /\ o.pc = "share" /\ o.wait = c /\ m \in s.mail[n] /\ m.c = c
      /\ m.kind = "share" /\ m.round = o.round
      /\ t = [o EXCEPT !.at = o.at + 1,
                       !.wait = IF o.at < Len(o.members) THEN o.members[o.at + 1] ELSE NoChan]
      /\ Move(s, u, n, g, t, act, NoChan, "none", Only(n, m), Silent)
  BY DEF ShareRead
<1>2. o \in Task /\ ShareJ(o, act) /\ Called(s, g) /\ ~Settled(s, g)
  BY <1>1, AtTask
<1>3. c \in Chan /\ c # NoChan
  BY <1>1, AtMail, NotAChannel
<1>4. Dictionary(n, act) /\ act \in Seq(Chan) /\ Len(act) \in Nat
  BY AtDictionary DEF Dictionary
<1>5. /\ o.round \in 1..Rounds /\ o.members = act /\ o.at \in 1..(Len(act) + 1)
      /\ o.wait = IF o.at <= Len(act) THEN act[o.at] ELSE NoChan
  BY <1>1, <1>2 DEF ShareJ
<1> HIDE DEF o, act
<1>6. o.at \in 1..Len(act) /\ act[o.at] = c
  BY <1>1, <1>3, <1>4, <1>5
<1>7. c \in Ran(act)
  BY <1>6 DEF Ran
<1>8. Link(s, c) /\ Touches(c, n, g)
  <2>1. Through(Tk(s, n, g))
    BY <1>1 DEF Through, o
  <2> QED
    BY <1>3, <1>7, <2>1, Neighbours DEF act
<1>m. Moves(s, u, n, g, t, act, NoChan, "none", Only(n, m), Silent)
  BY <1>1, <1>8, NotAChannel DEF Moves, Only
<1>s. Step(s, u, n, g, t)
  BY <1>m, MoveStep
<1>u. /\ u.req = s.req /\ Tk(u, n, g) = t
      /\ \A p \in Node, h \in Sign : Tk(u, p, h) = IF p = n /\ h = g THEN t ELSE Tk(s, p, h)
      /\ \A d \in Chan : u.resp[d] = s.resp[d]
      /\ \A p \in Node : u.mail[p] = s.mail[p] \ (IF p = n THEN {m} ELSE {})
  BY <1>1, NotAChannel DEF Move, Silent, Only
<1>9. /\ t.pc = "share" /\ t.at = o.at + 1
      /\ t.wait = (IF o.at < Len(act) THEN act[o.at + 1] ELSE NoChan)
      /\ t.opened = o.opened /\ t.from = o.from /\ t.round = o.round /\ t.members = act
  BY <1>1, <1>2, <1>5 DEF Task
<1>10. t \in Task
  <2>1. o.at + 1 \in Nat
    BY <1>4, <1>6
  <2>2. o.at < Len(act) => act[o.at + 1] \in Chan
    BY <1>4, <1>6
  <2> QED
    BY <1>1, <1>2, <1>5, <2>1, <2>2 DEF Task
<1>11. \A i, j \in 1..Len(act) : act[i] = act[j] => i = j
  BY <1>4 DEF Dictionary
<1>12. Read(o, c) = o.round - 1
  <2>1. ~\E i \in 1..Len(act) : i < o.at /\ act[i] = c
    BY <1>4, <1>6, <1>11
  <2> QED
    BY <1>1, <1>5, <2>1 DEF Read, Over
<1>13. Read(t, c) = o.round
  <2>1. o.at < o.at + 1
    BY <1>4, <1>6
  <2> QED
    BY <1>6, <1>9, <2>1 DEF Read, Over
<1>14. ASSUME NEW d, d # c PROVE Read(t, d) = Read(o, d)
  <2>1. \A i \in 1..Len(act) : i < o.at + 1 <=> (i < o.at \/ i = o.at)
    BY <1>4, <1>6
  <2>2. (\E i \in 1..Len(act) : i < o.at + 1 /\ act[i] = d) <=> (\E i \in 1..Len(act) : i < o.at /\ act[i] = d)
    BY <1>6, <1>14, <2>1
  <2> QED
    BY <1>1, <1>5, <1>9, <2>2 DEF Read, Over
<1> QED
  BY <1>1, <1>2, <1>3, <1>4, <1>5, <1>6, <1>8, <1>m, <1>s, <1>u, <1>9, <1>10, <1>12, <1>13, <1>14 DEF ShareGot, o, act

(* What is left on the channel.                                            *)
LEMMA ShareReadSound ==
  ASSUME NEW s, Mesh(s), NEW u, NEW n \in Node, NEW g \in Sign, NEW t, NEW c, NEW m,
         ShareRead(s, u, n, g, t, c, m), NEW k \in Node, NEW w \in s.mail[k],
         w \notin Only(n, m)[k], w.c = c
  PROVE  Sound(u, k, w)
<1> DEFINE o == Tk(s, n, g)
           q == s.req[g]
           main == q.main
<1>1. ShareGot(s, u, n, g, t, c, m)
  BY ShareReadFacts
<1>2. /\ c \in Chan /\ Link(s, c) /\ Touches(c, n, g)
      /\ o.pc = "share" /\ o.round \in 1..Rounds /\ Called(s, g)
      /\ t.pc = "share" /\ t.round = o.round
      /\ Read(o, c) = o.round - 1 /\ Read(t, c) = o.round
      /\ u.req = s.req /\ Tk(u, n, g) = t
      /\ \A p \in Node, h \in Sign : Tk(u, p, h) = IF p = n /\ h = g THEN t ELSE Tk(s, p, h)
      /\ \A d \in Chan : u.resp[d] = s.resp[d]
  BY <1>1 DEF ShareGot
<1>3. m \in s.mail[n] /\ m.c = c /\ m.kind = "share" /\ m.round = o.round
  BY DEF ShareRead
<1>4. Sound(s, k, w) /\ w \in Message /\ k \in {c.a, c.b}
  BY AtMail
<1>5. c.g = g /\ c.a \in Node /\ c.b \in Node /\ c.a # c.b /\ (c.a = n \/ c.b = n)
  BY <1>2, ChanFields DEF Touches
<1>6. main \in Node
  BY <1>2, MainNode
<1>7. \A p \in Node : Tk(u, p, g) = Tk(s, p, g) \/ (p = n /\ Tk(u, p, g) = t /\ Tk(s, p, g) = o)
  BY <1>2
<1>8. w.kind = "share" => w.round \in Nat /\ o.round \in Nat
  BY <1>2, <1>4, BoundAssumption DEF Message
<1> HIDE DEF o, q, main
<1>9. \A p \in Node : Tk(u, p, g).pc = Tk(s, p, g).pc /\ Tk(u, p, g).round = Tk(s, p, g).round
  BY <1>2, <1>7
<1>10. CASE w.kind # "share"
  <2>1. Waited(s, c) => Waited(u, c)
    BY <1>2, <1>5, <1>7 DEF Waited
  <2>2. Opened(s, c) => Opened(u, c)
    <3>1. CASE c.a = n
      BY <1>2, <1>5, <3>1 DEF Opened, Rounding
    <3>2. CASE c.a # n
      BY <1>2, <1>5, <3>2 DEF Opened
    <3> QED
      BY <3>1, <3>2
  <2>3. Tk(s, main, g).pc = "ack" => Tk(u, main, g) = Tk(s, main, g)
    BY <1>2, <1>6, <1>7
  <2>4. \A p \in s.req[g].nodes : p \in Node
    BY <1>2, Request
  <2>5. s.req[c.g].main = main
    BY <1>5 DEF main, q
  <2>6. SoundKept(s, u, k, w)
    BY <1>2, <1>5, <1>9, <1>10, <2>1, <2>2, <2>3, <2>4, <2>5 DEF SoundKept
  <2> QED
    BY <1>4, <2>6, StillSound
<1>11. CASE w.kind = "share"
  <2>1. /\ w.round > Read(Tk(s, k, g), c)
        /\ w.round <= Tk(s, Other(k, c), g).round
    BY <1>4, <1>5, <1>11 DEF Sound
  <2>2. Other(k, c) \in Node
    BY <1>5 DEF Other
  <2>3. w.round <= Tk(u, Other(k, c), g).round
    BY <1>9, <2>1, <2>2
  <2>4. w.round > Read(Tk(u, k, g), c)
    <3>1. CASE k = n
      <4>1. w # m
        BY <3>1 DEF Only
      <4>2. Alone(w, m)
        BY <1>3, <3>1, AtMail
      <4>3. w.round # o.round
        BY <1>3, <1>11, <4>1, <4>2 DEF Alone
      <4>4. w.round > o.round - 1
        BY <1>2, <2>1, <3>1 DEF o
      <4>5. w.round > o.round
        BY <1>8, <1>11, <4>3, <4>4
      <4> QED
        BY <1>2, <3>1, <4>5
    <3>2. CASE k # n
      BY <1>7, <2>1, <3>2
    <3> QED
      BY <3>1, <3>2
  <2>5. Link(u, c)
    BY <1>2 DEF Link, Called
  <2> QED
    BY <1>4, <1>5, <1>11, <2>3, <2>4, <2>5 DEF Sound
<1> QED
  BY <1>10, <1>11

LEMMA ShareReadLink ==
  ASSUME NEW s, Mesh(s), NEW u, NEW n \in Node, NEW g \in Sign, NEW t, NEW c, NEW m,
         ShareRead(s, u, n, g, t, c, m)
  PROVE  LinkJ(u, c)
<1> DEFINE o == Tk(s, n, g)
           e == Other(n, c)
           w == Tk(s, e, g)
<1>1. ShareGot(s, u, n, g, t, c, m)
  BY ShareReadFacts
<1>2. /\ c \in Chan /\ Link(s, c) /\ Touches(c, n, g)
      /\ o.pc = "share" /\ o.round \in 1..Rounds
      /\ t.pc = "share" /\ t.round = o.round
      /\ Read(o, c) = o.round - 1 /\ Read(t, c) = o.round
      /\ u.req = s.req /\ Tk(u, n, g) = t
      /\ \A p \in Node, h \in Sign : Tk(u, p, h) = IF p = n /\ h = g THEN t ELSE Tk(s, p, h)
      /\ \A d \in Chan : u.resp[d] = s.resp[d]
      /\ \A p \in Node : u.mail[p] = s.mail[p] \ (IF p = n THEN {m} ELSE {})
  BY <1>1 DEF ShareGot
<1>3. m \in s.mail[n] /\ m.c = c /\ m.kind = "share" /\ m.round = o.round
  BY DEF ShareRead
<1>4. c.g = g /\ c.a \in Node /\ c.b \in Node /\ c.a # c.b /\ (c.a = n \/ c.b = n)
  BY <1>2, ChanFields DEF Touches
<1>5. e \in Node /\ e # n /\ {c.a, c.b} = {n, e} /\ Other(e, c) = n /\ Other(n, c) = e
  BY <1>4 DEF Other
<1>6. LinkJ(s, c) /\ SharesJ(s, c) /\ ~(Opened(s, c) /\ Waited(s, c))
  BY <1>2, AtLink, NotBoth
<1>7. m.round <= w.round
  BY <1>2, <1>3, <1>4, ShareFrom
<1>8. Tk(u, e, g) = w
  BY <1>2, <1>5
<1> HIDE DEF o, e, w
<1>9. SharesJ(u, c)
  <2>1. /\ o.round - 1 <= w.round
        /\ \A i \in 1..Rounds : o.round - 1 < i /\ i <= w.round =>
             \E x \in s.mail[n] : x.c = c /\ x.kind = "share" /\ x.round = i
    <3>1. /\ Read(Tk(s, n, c.g), c) <= Tk(s, Other(n, c), c.g).round
          /\ \A i \in 1..Rounds :
                 Read(Tk(s, n, c.g), c) < i /\ i <= Tk(s, Other(n, c), c.g).round =>
                   \E x \in s.mail[n] : x.c = c /\ x.kind = "share" /\ x.round = i
      BY <1>5, <1>6 DEF SharesJ
    <3> QED
      BY <1>2, <1>4, <1>5, <3>1 DEF o, w
  <2>2. /\ Read(w, c) <= o.round
        /\ \A i \in 1..Rounds : Read(w, c) < i /\ i <= o.round =>
             \E x \in s.mail[e] : x.c = c /\ x.kind = "share" /\ x.round = i
    <3>1. /\ Read(Tk(s, e, c.g), c) <= Tk(s, Other(e, c), c.g).round
          /\ \A i \in 1..Rounds :
                 Read(Tk(s, e, c.g), c) < i /\ i <= Tk(s, Other(e, c), c.g).round =>
                   \E x \in s.mail[e] : x.c = c /\ x.kind = "share" /\ x.round = i
      BY <1>5, <1>6 DEF SharesJ
    <3> QED
      BY <1>4, <1>5, <3>1 DEF o, w
  <2>3. \A i \in 1..Rounds : o.round < i /\ i <= w.round =>
          \E x \in u.mail[n] : x.c = c /\ x.kind = "share" /\ x.round = i
    <3> SUFFICES ASSUME NEW i \in 1..Rounds, o.round < i, i <= w.round
                 PROVE  \E x \in u.mail[n] : x.c = c /\ x.kind = "share" /\ x.round = i
      OBVIOUS
    <3>1. o.round - 1 < i /\ i # o.round
      BY <1>2
    <3>2. PICK x \in s.mail[n] : x.c = c /\ x.kind = "share" /\ x.round = i
      BY <2>1, <3>1
    <3>3. x # m
      BY <1>3, <3>1, <3>2
    <3> QED
      BY <1>2, <3>2, <3>3
  <2>4. \A i \in 1..Rounds : Read(w, c) < i /\ i <= o.round =>
          \E x \in u.mail[e] : x.c = c /\ x.kind = "share" /\ x.round = i
    BY <1>2, <1>5, <2>2
  <2>5. \A k \in {c.a, c.b} : k = n \/ k = e
    BY <1>5
  <2>6. o.round <= w.round
    BY <1>3, <1>7
  <2>7. /\ Tk(u, n, c.g) = t /\ Tk(u, e, c.g) = w
        /\ Read(t, c) = o.round /\ t.round = o.round /\ Other(n, c) = e /\ Other(e, c) = n
    BY <1>2, <1>4, <1>5, <1>8
  <2> QED
    BY <2>2, <2>3, <2>4, <2>5, <2>6, <2>7 DEF SharesJ
<1>10. SameEnds(s, u, c)
  <2>1. \A p \in Node : Tk(u, p, g).pc = Tk(s, p, g).pc
    BY <1>2 DEF o
  <2>2. UpSame(s, u, c)
    BY <1>2, UpAll
  <2>3. Opened(u, c) <=> Opened(s, c)
    <3>1. CASE c.a = n
      BY <1>2, <1>4, <3>1 DEF Opened, Rounding, o
    <3>2. CASE c.a # n
      BY <1>2, <1>4, <3>2 DEF Opened
    <3> QED
      BY <3>1, <3>2
  <2>4. Waited(s, c) => Waited(u, c)
    <3>1. CASE c.a = n
      BY <1>2, <1>4, <3>1 DEF Waited, o
    <3>2. CASE c.a # n
      BY <1>2, <1>4, <3>2 DEF Waited
    <3> QED
      BY <3>1, <3>2
  <2> QED
    BY <1>2, <1>4, <2>1, <2>2, <2>3, <2>4 DEF SameEnds, UpSame
<1>11. \A k \in {c.a, c.b} : \A x \in s.mail[k] :
         x.c = c /\ x.kind \in {"level0", "level1", "eof"} => x \in u.mail[k]
  BY <1>2, <1>3, <1>4
<1> QED
  BY <1>2, <1>6, <1>9, <1>10, <1>11, LinkKeptBut

LEMMA ShareReadMoves ==
  ASSUME NEW s, Mesh(s), NEW u, NEW n \in Node, NEW g \in Sign, NEW t, NEW c, NEW m,
         ShareRead(s, u, n, g, t, c, m)
  PROVE  Mesh(u)
<1> DEFINE o == Tk(s, n, g)
           q == s.req[g]
           act == s.act[n]
<1>1. ShareGot(s, u, n, g, t, c, m)
  BY ShareReadFacts
<1>2. /\ c \in Chan /\ Link(s, c) /\ c # NoChan
      /\ act \in Seq(Chan) /\ o.at \in 1..Len(act) /\ Len(act) \in Nat
      /\ o.pc = "share" /\ o.round \in 1..Rounds
      /\ t \in Task /\ t.pc = "share" /\ t.at = o.at + 1
      /\ t.wait = (IF o.at < Len(act) THEN act[o.at + 1] ELSE NoChan)
      /\ t.opened = o.opened /\ t.from = o.from /\ t.round = o.round /\ t.members = act
      /\ \A d : d # c => Read(t, d) = Read(o, d)
      /\ Called(s, g) /\ ~Settled(s, g)
      /\ Moves(s, u, n, g, t, act, NoChan, "none", Only(n, m), Silent)
      /\ Step(s, u, n, g, t)
      /\ u.req = s.req /\ Tk(u, n, g) = t
      /\ \A d \in Chan : u.resp[d] = s.resp[d]
  BY <1>1 DEF ShareGot
<1>3. m.c = c /\ m.kind = "share"
  BY DEF ShareRead
<1>4. /\ TaskJ(q, n, g, o) /\ ReachJ(q, n, o)
  BY <1>2, AtTask
<1>5. Tk(s, n, g) = o
  OBVIOUS
<1> HIDE DEF o, q, act
<1>6. Alike(o, t) /\ Steady(o, t)
  BY <1>2 DEF Alike, Steady
<1>7. NoAck(Only(n, m))
  BY <1>3 DEF NoAck, Only
<1>8. /\ StageJ(u, g) /\ AckJ(u, g)
      /\ \A d \in Chan : Link(s, d) => AckSame(s, u, d)
  BY <1>2, <1>5, <1>6, <1>7, HushedMain
<1>9. MoveTask(s, u, n, g, t, act)
  <2>1. TaskJ(q, n, g, t)
    <3>1. /\ o.pc = "share" /\ t \in Task /\ t.pc = "share" /\ t.opened = o.opened
          /\ t.from = o.from /\ TaskJ(q, n, g, o)
      BY <1>2, <1>4
    <3> QED
      BY ONLY <3>1 DEF TaskJ, Over
  <2>2. ConnectJ(q, n, g, t) /\ ReachJ(q, n, t)
    BY <1>2, <1>4 DEF ConnectJ, ReachJ, Reached
  <2>3. ShareJ(t, act)
    <3>1. t.at \in 1..(Len(act) + 1) /\ (t.at <= Len(act) <=> o.at < Len(act))
      BY <1>2
    <3> QED
      BY <1>2, <3>1 DEF ShareJ
  <2>4. MainJ(q, g, t)
    BY <1>2 DEF MainJ
  <2> QED
    BY <1>2, <1>5, <1>8, <2>1, <2>2, <2>3, <2>4 DEF MoveTask, q
<1>10. MoveAct(u, n, act)
  <2>1. \A e \in Chan : Holds(u, n, e) <=> Holds(s, n, e)
    BY <1>2, <1>5, AlikeHolds
  <2> QED
    BY <2>1, AtDictionary DEF MoveAct, act
<1>11. \A d \in Chan : d # c => LinkSame(s, u, d)
  <2> SUFFICES ASSUME NEW d \in Chan, d # c PROVE LinkSame(s, u, d)
    OBVIOUS
  <2>1. d.a = n /\ d.g = g => (Opened(u, d) <=> Opened(s, d)) /\ (Waited(s, d) => Waited(u, d))
    BY <1>2, <1>5 DEF Opened, Waited, Rounding
  <2>2. LikeEnds(s, u, n, g, t, d)
    BY <1>2, <1>5, <2>1 DEF LikeEnds
  <2> QED
    BY <1>2, <2>2, LinkLike
<1>12. \A k \in Node : \A w \in s.mail[k] : w \notin Only(n, m)[k] /\ w.c = c => Sound(u, k, w)
  BY ShareReadSound
<1>13. LinkJ(u, c)
  BY ShareReadLink
<1>14. \A k \in Node : Silent[k] = {} /\ \A w \in Only(n, m)[k] : w.c = c
  BY <1>3 DEF Silent, Only
<1>15. Hushed(s, u, n, g, t, act, NoChan, "none", Only(n, m), Silent, c)
  BY <1>2, <1>5, <1>6, <1>8, <1>9, <1>10, <1>11, <1>12, <1>13, <1>14, NotAChannel DEF Hushed
<1> QED
  BY <1>15, HushedMesh

-----------------------------------------------------------------------------
(* The last round ends.                                                    *)

(* A node that is through with its rounds: so are the others.              *)
LEMMA AllRounds ==
  ASSUME NEW s, Mesh(s), NEW n \in Node, NEW g \in Sign, Tk(s, n, g).pc \in Over,
         NEW p \in s.req[g].nodes
  PROVE  Tk(s, p, g).round = Rounds
<1> DEFINE o == Tk(s, n, g)
           q == s.req[g]
<1>1. TaskJ(q, n, g, o) /\ Called(s, g) /\ n \in q.nodes
  BY AtTask DEF Over
<1>2. o.round = Rounds
  BY <1>1 DEF TaskJ
<1>3. /\ CommandJ(q) /\ q.main # None /\ q.main \in Node /\ q.peers \in Seq(Node)
      /\ Ran(q.peers) \subseteq Node /\ q.nodes = {q.main} \cup Ran(q.peers)
  BY <1>1, Request
<1>4. p \in Node
  BY <1>3
<1>5. CASE p = n
  BY <1>2, <1>5
<1>6. CASE p # n
  <2>1. PICK d \in Chan : Link(s, d) /\ d.g = g /\ {d.a, d.b} = {n, p}
    <3>1. CASE Before(q, n, p)
      <4>1. [a |-> n, b |-> p, g |-> g] \in Chan
        BY <1>4, <1>6 DEF Chan
      <4> QED
        BY <1>1, <3>1, <4>1 DEF Link
    <3>2. CASE Before(q, p, n)
      <4>1. [a |-> p, b |-> n, g |-> g] \in Chan
        BY <1>4, <1>6 DEF Chan
      <4> QED
        BY <1>1, <3>2, <4>1 DEF Link
    <3> QED
      BY <1>1, <1>3, <1>6, <3>1, <3>2, BeforeTotal
  <2>2. n \in {d.a, d.b} /\ Other(n, d) = p
    BY <1>6, <2>1, ChanFields DEF Other
  <2>3. SharesJ(s, d)
    BY <2>1, AtLink
  <2>4. Read(o, d) <= Tk(s, p, g).round
    BY <2>1, <2>2, <2>3 DEF SharesJ
  <2>5. Read(o, d) = Rounds
    BY DEF Read
  <2>6. Tk(s, p, g).round \in 0..Rounds
    BY <1>4, AtTask DEF Task
  <2> QED
    BY <2>4, <2>5, <2>6, BoundAssumption
<1> QED
  BY <1>5, <1>6

(* A node that does not connect any more is not waited for.                *)
LEMMA OverSteady ==
  ASSUME NEW o, NEW t, o.pc \in Rounding, t.pc \in Rounding, NEW s, NEW u, Mesh(s),
         NEW n \in Node, NEW g \in Sign, Called(s, g), Step(s, u, n, g, t), o = Tk(s, n, g),
         \A k \in Node : \A m \in s.mail[k] : m \in u.mail[k]
  PROVE  StageJ(u, g) /\ AckJ(u, g)
<1> DEFINE q == s.req[g]
           main == q.main
           p == Tk(s, main, g)
           p2 == Tk(u, main, g)
<1>1. StageJ(s, g) /\ AckJ(s, g) /\ main \in Node /\ q.peers \in Seq(Node) /\ Ran(q.peers) \subseteq Node
  BY Request DEF Mesh, TasksJ
<1>2. u.req[g] = q
  BY DEF Step
<1>3. \A k \in Node : Tk(u, k, g) = Tk(s, k, g) \/ (Tk(u, k, g).pc \in Rounding /\ Tk(s, k, g).pc \in Rounding)
  BY DEF Step
<1>4. "connect" \notin Rounding /\ "ack" \notin Rounding /\ "idle" \notin Rounding
  BY DEF Rounding, Over
<1>5. \A i \in 1..Len(q.peers) : q.peers[i] \in Node
  BY <1>1
<1> HIDE DEF q, main, p, p2
<1>6. p2 = p \/ (p.pc \in Rounding /\ p2.pc \in Rounding)
  BY <1>1, <1>3 DEF p, p2
<1>7. StageJ(u, g)
  <2>1. /\ p.pc = "connect" => \A b \in Ran(q.peers) : Tk(s, b, g).pc = "idle"
        /\ p.pc = "ack" =>
             \A i \in 1..Len(q.peers) :
               /\ i < p.asked => Tk(s, q.peers[i], g).pc \in Rounding
               /\ i > p.asked => Tk(s, q.peers[i], g).pc = "idle"
               /\ i = p.asked /\ p.wait = NoChan => Tk(s, q.peers[i], g).pc \in Rounding
        /\ p.pc \in Rounding => \A b \in Ran(q.peers) : Tk(s, b, g).pc \in Rounding
    BY <1>1 DEF StageJ, p, q, main
  <2>2. p2.pc = "connect" => \A b \in Ran(q.peers) : Tk(u, b, g).pc = "idle"
    BY <1>1, <1>3, <1>4, <1>6, <2>1
  <2>3. p2.pc = "ack" =>
             \A i \in 1..Len(q.peers) :
               /\ i < p2.asked => Tk(u, q.peers[i], g).pc \in Rounding
               /\ i > p2.asked => Tk(u, q.peers[i], g).pc = "idle"
               /\ i = p2.asked /\ p2.wait = NoChan => Tk(u, q.peers[i], g).pc \in Rounding
    <3> SUFFICES ASSUME p2.pc = "ack", NEW i \in 1..Len(q.peers)
                 PROVE  /\ i < p2.asked => Tk(u, q.peers[i], g).pc \in Rounding
                        /\ i > p2.asked => Tk(u, q.peers[i], g).pc = "idle"
                        /\ i = p2.asked /\ p2.wait = NoChan => Tk(u, q.peers[i], g).pc \in Rounding
      OBVIOUS
    <3>1. p2 = p
      BY <1>4, <1>6
    <3> QED
      BY <1>3, <1>4, <1>5, <2>1, <3>1
  <2>4. p2.pc \in Rounding => \A b \in Ran(q.peers) : Tk(u, b, g).pc \in Rounding
    BY <1>1, <1>3, <1>6, <2>1
  <2> QED
    BY <1>2, <2>2, <2>3, <2>4 DEF StageJ, p2, q, main
<1>8. AckJ(u, g)
  <2> SUFFICES ASSUME p2.pc = "ack", p2.wait # NoChan, Tk(u, p2.wait.b, g).pc \in Rounding
               PROVE  \E w \in u.mail[main] : w.c = p2.wait /\ w.kind = "ack"
    BY <1>2 DEF AckJ, p2, q, main
  <2>1. p2 = p
    BY <1>4, <1>6
  <2>2. p.wait.b \in Node
    <3>1. p \in Task
      BY <1>1, AtTask DEF p
    <3> QED
      BY <2>1, <3>1, ChanFields DEF Task
  <2>3. Tk(s, p.wait.b, g).pc \in Rounding
    BY <1>3, <2>1, <2>2
  <2>4. \E w \in s.mail[main] : w.c = p.wait /\ w.kind = "ack"
    BY <1>1, <2>1, <2>3 DEF AckJ, p, q, main
  <2> QED
    BY <1>1, <2>1, <2>4
<1> QED
  BY <1>7, <1>8

-----------------------------------------------------------------------------
(* A move of a node that has sent and read all its shares.                 *)
Late(o, t) ==
  /\ o.pc \in Rounding /\ t.pc \in Rounding
  /\ t.pc # "share"
  /\ t.round = o.round /\ o.round = Rounds
  /\ t.wait = NoChan

LEMMA LateTask ==
  ASSUME NEW s, Mesh(s), NEW n \in Node, NEW g \in Sign, NEW t, NEW act,
         Late(Tk(s, n, g), t), t \in Task,
         \/ t.pc \in {"sleep", "sleep2"} /\ t.opened = Tk(s, n, g).opened
              /\ t.from = Tk(s, n, g).from /\ Tk(s, n, g).pc # "done"
         \/ t.pc = "done" /\ t.opened = <<>>
  PROVE  /\ TaskJ(s.req[g], n, g, t) /\ ConnectJ(s.req[g], n, g, t)
         /\ ReachJ(s.req[g], n, t) /\ ShareJ(t, act) /\ MainJ(s.req[g], g, t)
<1> DEFINE o == Tk(s, n, g)
           q == s.req[g]
<1>1. TaskJ(q, n, g, o) /\ ReachJ(q, n, o)
  BY AtTask
<1>2. o.pc \in {"share", "sleep", "sleep2", "done"} /\ t.pc \in {"sleep", "sleep2", "done"}
  BY DEF Late, Rounding, Over
<1>3. /\ t.round = Rounds /\ t.wait = NoChan
      /\ \/ t.pc \in {"sleep", "sleep2"} /\ t.opened = o.opened /\ t.from = o.from /\ o.pc # "done"
         \/ t.pc = "done" /\ t.opened = <<>>
  BY DEF Late
<1> HIDE DEF o, q
<1>4. TaskJ(q, n, g, t)
  <2>1. CASE t.pc \in {"sleep", "sleep2"}
    <3>1. t.opened = o.opened /\ t.from = o.from /\ o.pc \notin {"idle", "done"}
      BY <1>2, <1>3, <2>1
    <3> QED
      BY ONLY <1>1, <1>3, <2>1, <3>1, t \in Task DEF TaskJ, Over
  <2>2. CASE t.pc = "done"
    <3>1. t.opened = <<>> /\ o.pc # "idle"
      BY <1>2, <1>3, <2>2
    <3>2. Ran(t.opened) = {} /\ Len(t.opened) = 0
      BY <3>1 DEF Ran
    <3> QED
      BY ONLY <1>1, <1>3, <2>2, <3>1, <3>2, t \in Task DEF TaskJ, Over
  <2> QED
    BY <1>2, <2>1, <2>2
<1>5. ConnectJ(q, n, g, t) /\ ShareJ(t, act) /\ MainJ(q, g, t)
  BY <1>2 DEF ConnectJ, ShareJ, MainJ
<1>6. ReachJ(q, n, t)
  BY <1>1, <1>2, <1>3 DEF ReachJ, Reached
<1> QED
  BY <1>4, <1>5, <1>6 DEF q

LEMMA LateLink ==
  ASSUME NEW s, Mesh(s), NEW u, NEW n \in Node, NEW g \in Sign, NEW t,
         Step(s, u, n, g, t), Late(Tk(s, n, g), t), NEW d \in Chan, Link(s, d), Touches(d, n, g),
         Tk(s, n, g).pc = "share" => Tk(s, n, g).at = Len(Tk(s, n, g).members) + 1
  PROVE  /\ Opened(u, d) <=> Opened(s, d)
         /\ Waited(u, d) <=> Waited(s, d)
         /\ \A k \in {d.a, d.b} : Read(Tk(u, k, d.g), d) = Read(Tk(s, k, d.g), d)
         /\ \A k \in {d.a, d.b} : Tk(u, k, d.g).round = Tk(s, k, d.g).round
<1> DEFINE o == Tk(s, n, g)
<1>1. /\ Tk(u, n, g) = t /\ \A k \in Node, h \in Sign : k # n \/ h # g => Tk(u, k, h) = Tk(s, k, h)
  BY DEF Step
<1>2. d.g = g /\ d.a \in Node /\ d.b \in Node /\ d.a # d.b
  BY ChanFields DEF Touches
<1>3. o.pc \in {"share", "sleep", "sleep2", "done"} /\ t.pc \in {"sleep", "sleep2", "done"}
  BY DEF Late, Rounding, Over
<1>4. Read(t, d) = Read(o, d)
  <2>1. CASE o.pc = "share"
    <3>1. Through(o)
      BY <2>1 DEF Through
    <3>2. d \in Ran(s.act[n])
      BY <3>1, Neighbours
    <3>3. ShareJ(o, s.act[n]) /\ o.at = Len(o.members) + 1 /\ Dictionary(n, s.act[n])
      BY <2>1, AtTask, AtDictionary
    <3>4. PICK i \in 1..Len(s.act[n]) : s.act[n][i] = d
      BY <3>2 DEF Ran
    <3>5. o.members = s.act[n] /\ i < o.at
      BY <2>1, <3>3, <3>4 DEF ShareJ, Dictionary
    <3>6. Read(o, d) = o.round
      BY <2>1, <3>4, <3>5 DEF Read, Over
    <3> QED
      BY <1>3, <3>6 DEF Read, Over, Late
  <2>2. CASE o.pc # "share"
    BY <1>3, <2>2 DEF Read, Over
  <2> QED
    BY <2>1, <2>2
<1>5. t.round = o.round
  BY DEF Late
<1>6. Opened(u, d) <=> Opened(s, d)
  BY <1>1, <1>2, <1>3 DEF Opened, Rounding, Over
<1>7. Waited(u, d) <=> Waited(s, d)
  BY <1>1, <1>2, <1>3 DEF Waited
<1>8. \A k \in {d.a, d.b} : Tk(u, k, d.g) = Tk(s, k, d.g) \/ (k = n /\ Tk(u, k, d.g) = t /\ Tk(s, k, d.g) = o)
  BY <1>1, <1>2
<1> HIDE DEF o
<1> QED
  BY <1>4, <1>5, <1>6, <1>7, <1>8

-----------------------------------------------------------------------------
(* n is through with its last round, or its signature is returned to the   *)
(* client.                                                                 *)
Rested(s, u, n, g, t) ==
  LET o == Tk(s, n, g)
  IN  /\ \/ /\ o.pc = "share" /\ o.at = Len(o.members) + 1 /\ o.round = Rounds
            /\ \E i \in Nat : t = [o EXCEPT !.pc = "sleep", !.wait = NoChan, !.at = i]
         \/ /\ o.pc = "sleep2" /\ n = s.req[g].main /\ t = Leave(o, "done")
      /\ Move(s, u, n, g, t, s.act[n], NoChan, "none", Silent, Silent)

LEMMA LeaveIs ==
  ASSUME NEW o \in Task, NEW label \in Ended, NEW t, t = Leave(o, label)
  PROVE  /\ t \in Task /\ t.pc = label /\ t.wait = NoChan /\ t.opened = <<>> /\ t.round = o.round
<1>1. t = [pc |-> label, wait |-> NoChan, from |-> NoChan, list |-> <<>>,
           opened |-> <<>>, asked |-> 0, round |-> o.round, members |-> <<>>,
           at |-> 0, rebound |-> FALSE]
  BY DEF Leave, Idle
<1>2. o.round \in 0..Rounds
  BY DEF Task
<1> QED
  BY ONLY <1>1, <1>2, label \in Ended DEF Task

LEMMA RestedMoves ==
  ASSUME NEW s, Mesh(s), NEW u, NEW n \in Node, NEW g \in Sign, NEW t, Rested(s, u, n, g, t)
  PROVE  Mesh(u)
<1> DEFINE o == Tk(s, n, g)
           q == s.req[g]
           act == s.act[n]
<1>1. /\ \/ /\ o.pc = "share" /\ o.at = Len(o.members) + 1 /\ o.round = Rounds
            /\ \E i \in Nat : t = [o EXCEPT !.pc = "sleep", !.wait = NoChan, !.at = i]
         \/ /\ o.pc = "sleep2" /\ n = s.req[g].main /\ t = Leave(o, "done")
      /\ Move(s, u, n, g, t, act, NoChan, "none", Silent, Silent)
  BY DEF Rested
<1>2. o \in Task /\ Called(s, g) /\ ~Settled(s, g) /\ TaskJ(q, n, g, o)
  BY <1>1, AtTask
<1>m. Moves(s, u, n, g, t, act, NoChan, "none", Silent, Silent)
  BY <1>1, NotAChannel DEF Moves, Silent
<1>s. Step(s, u, n, g, t)
  BY <1>m, MoveStep
<1>u. /\ u.req = s.req /\ Tk(u, n, g) = t
      /\ \A d \in Chan : u.resp[d] = s.resp[d]
      /\ \A k \in Node : u.mail[k] = s.mail[k]
  <2>1. Move(s, u, n, g, t, act, NoChan, "none", Silent, Silent)
    BY <1>1
  <2> HIDE DEF act
  <2>2. u.req = s.req /\ Tk(u, n, g) = t
    BY <2>1 DEF Move
  <2>3. \A d \in Chan : u.resp[d] = s.resp[d]
    BY <2>1, NotAChannel DEF Move
  <2>4. \A k \in Node : u.mail[k] = s.mail[k]
    BY <2>1 DEF Move, Silent
  <2> QED
    BY <2>2, <2>3, <2>4
<1>o. o = Tk(s, n, g)
  OBVIOUS
<1> HIDE DEF o, q, act
<1>3. o.round = Rounds
  BY <1>1, <1>2 DEF TaskJ, Over
<1>4. /\ t \in Task /\ t.wait = NoChan /\ t.round = Rounds
      /\ \/ o.pc = "share" /\ t.pc = "sleep" /\ t.opened = o.opened /\ t.from = o.from
         \/ o.pc = "sleep2" /\ t.pc = "done" /\ t.opened = <<>> /\ n = q.main
  <2>1. CASE /\ o.pc = "share" /\ o.at = Len(o.members) + 1 /\ o.round = Rounds
             /\ \E i \in Nat : t = [o EXCEPT !.pc = "sleep", !.wait = NoChan, !.at = i]
    <3>1. PICK i \in Nat : t = [o EXCEPT !.pc = "sleep", !.wait = NoChan, !.at = i]
      BY <2>1
    <3>2. t = [pc |-> "sleep", wait |-> NoChan, from |-> o.from, list |-> o.list,
               opened |-> o.opened, asked |-> o.asked, round |-> o.round,
               members |-> o.members, at |-> i, rebound |-> o.rebound]
      BY <1>2, <3>1 DEF Task
    <3>3. t \in Task
      BY ONLY <1>2, <3>2, i \in Nat DEF Task
    <3> QED
      BY <1>3, <2>1, <3>2, <3>3
  <2>2. CASE /\ o.pc = "sleep2" /\ n = s.req[g].main /\ t = Leave(o, "done")
    BY <1>2, <1>3, <2>2, LeaveIs DEF Ended, q
  <2> QED
    BY <1>1, <2>1, <2>2
<1>5. Late(o, t) /\ Alike(o, t) /\ Steady(o, t)
  BY <1>3, <1>4 DEF Late, Alike, Steady, Rounding, Over
<1>6. /\ StageJ(u, g) /\ AckJ(u, g)
      /\ \A d \in Chan : Link(s, d) => AckSame(s, u, d)
  <2>1. NoAck(Silent)
    BY DEF NoAck, Silent
  <2> QED
    BY <1>2, <1>m, <1>o, <1>5, <2>1, HushedMain
<1>7. MoveTask(s, u, n, g, t, act)
  <2>1. /\ TaskJ(q, n, g, t) /\ ConnectJ(q, n, g, t)
        /\ ReachJ(q, n, t) /\ ShareJ(t, act) /\ MainJ(q, g, t)
    BY <1>4, <1>5, <1>o, LateTask DEF q
  <2> QED
    BY <1>4, <1>6, <2>1 DEF MoveTask, q
<1>8. MoveAct(u, n, act)
  <2>1. \A e \in Chan : Holds(u, n, e) <=> Holds(s, n, e)
    <3> TAKE e \in Chan
    <3>1. CASE e.g = g
      <4>1. Tk(u, n, e.g) = t /\ Tk(s, n, e.g) = o
        BY <1>u, <1>o, <3>1
      <4>2. e \in Ran(t.opened) /\ t.pc # "sleep2" <=> e \in Ran(o.opened) /\ o.pc # "sleep2"
        BY <1>4 DEF Ran
      <4> QED
        BY <1>u, <4>1, <4>2 DEF Holds
    <3>2. CASE e.g # g
      <4>1. Tk(u, n, e.g) = Tk(s, n, e.g)
        BY <1>s, <3>2, ChanFields DEF Step
      <4> QED
        BY <1>u, <4>1 DEF Holds
    <3> QED
      BY <3>1, <3>2
  <2> QED
    BY <2>1, AtDictionary DEF MoveAct, act
<1>9. \A d \in Chan : Link(s, d) /\ Touches(d, n, g) => LinkSame(s, u, d)
  <2> SUFFICES ASSUME NEW d \in Chan, Link(s, d), Touches(d, n, g) PROVE LinkSame(s, u, d)
    OBVIOUS
  <2>1. /\ Opened(u, d) <=> Opened(s, d)
        /\ Waited(u, d) <=> Waited(s, d)
        /\ \A k \in {d.a, d.b} : Read(Tk(u, k, d.g), d) = Read(Tk(s, k, d.g), d)
    <3>1. Tk(s, n, g).pc = "share" => Tk(s, n, g).at = Len(Tk(s, n, g).members) + 1
      BY <1>1, <1>o
    <3>2. Late(Tk(s, n, g), t)
      BY <1>5, <1>o
    <3> QED
      BY <1>s, <3>1, <3>2, LateLink
  <2>2. d.a = s.req[d.g].main => (Tk(u, d.b, d.g).pc = "done" <=> Tk(s, d.b, d.g).pc = "done")
    <3> SUFFICES ASSUME d.a = s.req[d.g].main
                 PROVE  Tk(u, d.b, d.g).pc = "done" <=> Tk(s, d.b, d.g).pc = "done"
      OBVIOUS
    <3>1. d.g = g /\ d.b \in Node
      BY ChanFields DEF Touches
    <3>2. CASE d.b = n
      <4>1. n # q.main
        BY <3>1, <3>2, LinkIs DEF q
      <4>2. o.pc # "done" /\ t.pc # "done"
        BY <1>4, <4>1
      <4> QED
        BY <1>o, <1>u, <3>1, <3>2, <4>2
    <3>3. CASE d.b # n
      BY <1>s, <3>1, <3>3 DEF Step
    <3> QED
      BY <3>2, <3>3
  <2> QED
    BY <1>u, <2>1, <2>2 DEF LinkSame
<1>10. \A k \in Node : Silent[k] = {}
  BY DEF Silent
<1>11. \A k \in Node : \A m \in s.mail[k] : m.c # NoChan
  BY AtMail, NotAChannel
<1>12. Hushed(s, u, n, g, t, act, NoChan, "none", Silent, Silent, NoChan)
  BY <1>2, <1>m, <1>o, <1>u, <1>5, <1>6, <1>7, <1>8, <1>9, <1>10, <1>11, NotAChannel DEF Hushed
<1> QED
  BY <1>12, HushedMesh

-----------------------------------------------------------------------------
(* A peer is done.                                                         *)

(* A peer is done: its channel to the main node leaves the dictionary and  *)
(* is closed.                                                              *)
PeerDone(s, u, n, g, t, c, act, new) ==
  LET o == Tk(s, n, g)
  IN  /\ o.pc = "sleep2" /\ n # s.req[g].main /\ c = Up(s, n, g)
      /\ t = Leave(o, "done")
      /\ Dictionary(n, act) /\ Ran(act) = Ran(s.act[n]) \ {c}
      /\ new \in {Silent, Only(c.a, Msg(c, "eof"))}
      /\ Move(s, u, n, g, t, act, c, "closed", Silent, new)

PeerEnded(s, u, n, g, t, c, act, new) ==
  LET o == Tk(s, n, g)
      q == s.req[g]
  IN  /\ o \in Task /\ Called(s, g) /\ ~Settled(s, g) /\ o.pc = "sleep2" /\ o.round = Rounds
      /\ n \in q.nodes /\ n # q.main /\ q.main \in Node
      /\ c \in Chan /\ c.a = q.main /\ c.b = n /\ c.g = g /\ c # NoChan /\ c = Up(s, n, g)
      /\ Link(s, c) /\ Touches(c, n, g) /\ Opened(s, c) /\ s.resp[c] \in {"sign"}
      /\ t \in Task /\ t.pc = "done" /\ t.wait = NoChan /\ t.opened = <<>> /\ t.round = Rounds
      /\ Late(o, t) /\ Alike(o, t) /\ Steady(o, t)
      /\ Moves(s, u, n, g, t, act, c, "closed", Silent, new)
      /\ Step(s, u, n, g, t)
      /\ u.req = s.req /\ Tk(u, n, g) = t
      /\ \A k \in Node, h \in Sign : Tk(u, k, h) = IF k = n /\ h = g THEN t ELSE Tk(s, k, h)
      /\ \A d \in Chan : u.resp[d] = IF d = c THEN "closed" ELSE s.resp[d]
      /\ \A k \in Node : u.mail[k] = s.mail[k] \cup new[k]

LEMMA PeerDoneFacts ==
  ASSUME NEW s, Mesh(s), NEW u, NEW n \in Node, NEW g \in Sign, NEW t, NEW c, NEW act, NEW new,
         PeerDone(s, u, n, g, t, c, act, new)
  PROVE  PeerEnded(s, u, n, g, t, c, act, new)
<1> DEFINE o == Tk(s, n, g)
           q == s.req[g]
<1>1. /\ o.pc = "sleep2" /\ n # q.main /\ c = Up(s, n, g)
      /\ t = Leave(o, "done")
      /\ Move(s, u, n, g, t, act, c, "closed", Silent, new)
  BY DEF PeerDone
<1>2. o \in Task /\ Called(s, g) /\ ~Settled(s, g) /\ TaskJ(q, n, g, o) /\ n \in q.nodes
  BY <1>1, AtTask
<1>3. q.main \in Node /\ q.nodes = {q.main} \cup Ran(q.peers)
  BY <1>2, Request
<1>o. o = Tk(s, n, g)
  OBVIOUS
<1>4. c \in Chan /\ c.a = q.main /\ c.b = n /\ c.g = g
  BY <1>1, <1>3 DEF Up, Chan
<1>5. Link(s, c)
  BY <1>1, <1>2, <1>3, <1>4 DEF Link, Before, Called
<1>6. Touches(c, n, g) /\ c # NoChan
  BY <1>4, NotAChannel DEF Touches
<1>7. Opened(s, c)
  BY <1>1, <1>4, <1>5, Earlier
<1> HIDE DEF o, q
<1>8. s.resp[c] = "sign"
  <2>1. ChannelJ(s, c)
    BY <1>4, AtLink
  <2>2. s.req[c.g].main = c.a /\ Tk(s, c.b, c.g) = o
    BY <1>4, <1>o DEF q
  <2> QED
    BY <1>1, <1>4, <1>5, <2>1, <2>2 DEF ChannelJ, States, Waiting
<1>9. o.round = Rounds
  BY <1>1, <1>2 DEF TaskJ, Over
<1>10. t \in Task /\ t.pc = "done" /\ t.wait = NoChan /\ t.opened = <<>> /\ t.round = Rounds
  BY <1>1, <1>2, <1>9, LeaveIs DEF Ended
<1>11. Late(o, t) /\ Alike(o, t) /\ Steady(o, t)
  BY <1>1, <1>9, <1>10 DEF Late, Alike, Steady, Rounding, Over
<1>m. Moves(s, u, n, g, t, act, c, "closed", Silent, new)
  BY <1>1, <1>4 DEF Moves, Silent
<1>s. Step(s, u, n, g, t)
  BY <1>m, MoveStep
<1>u. /\ u.req = s.req /\ Tk(u, n, g) = t
      /\ \A k \in Node, h \in Sign : Tk(u, k, h) = IF k = n /\ h = g THEN t ELSE Tk(s, k, h)
      /\ \A d \in Chan : u.resp[d] = IF d = c THEN "closed" ELSE s.resp[d]
      /\ \A k \in Node : u.mail[k] = s.mail[k] \cup new[k]
  BY <1>1 DEF Move, Silent
<1> QED
  BY <1>1, <1>2, <1>3, <1>4, <1>5, <1>6, <1>7, <1>8, <1>9, <1>10, <1>11, <1>m, <1>s, <1>u DEF PeerEnded, o, q

LEMMA PeerDoneOld ==
  ASSUME NEW s, Mesh(s), NEW u, NEW n \in Node, NEW g \in Sign, NEW t, NEW c, NEW act, NEW new,
         PeerDone(s, u, n, g, t, c, act, new), NEW k \in Node, NEW w \in s.mail[k], w.c = c
  PROVE  Sound(u, k, w)
<1> DEFINE o == Tk(s, n, g)
           q == s.req[g]
           main == q.main
<1>1. PeerEnded(s, u, n, g, t, c, act, new)
  BY PeerDoneFacts
<1>2. /\ Called(s, g) /\ o.pc = "sleep2" /\ o.round = Rounds
      /\ n # main /\ main \in Node
      /\ c \in Chan /\ c.a = main /\ c.b = n /\ c.g = g
      /\ Opened(s, c) /\ s.resp[c] \in {"sign"}
      /\ t.pc = "done" /\ t.round = Rounds
      /\ u.req = s.req /\ Tk(u, n, g) = t
      /\ \A p \in Node, h \in Sign : Tk(u, p, h) = IF p = n /\ h = g THEN t ELSE Tk(s, p, h)
      /\ \A d \in Chan : u.resp[d] = IF d = c THEN "closed" ELSE s.resp[d]
  BY <1>1 DEF PeerEnded
<1>3. Sound(s, k, w) /\ w \in Message /\ k \in {c.a, c.b}
  BY AtMail
<1>4. w.kind \notin {"hello", "x", "level0", "level1"}
  BY <1>2, <1>3 DEF Sound
<1>5. \A p \in Node : Tk(u, p, g) = Tk(s, p, g) \/ (p = n /\ Tk(u, p, g) = t /\ Tk(s, p, g) = o)
  BY <1>2
<1>6. \A p \in s.req[g].nodes : p \in Node
  BY <1>2, Request
<1>7. s.req[c.g].main = main /\ Other(k, c) \in Node /\ k \in Node
  BY <1>2, <1>3 DEF Other
<1> HIDE DEF o, q, main
<1>8. \A p \in Node : Tk(u, p, g).round = Tk(s, p, g).round /\ Read(Tk(u, p, g), c) = Read(Tk(s, p, g), c)
  BY <1>2, <1>5 DEF Read, Over
<1>9. Tk(u, main, g) = Tk(s, main, g)
  BY <1>2, <1>5
<1>10. SoundKept(s, u, k, w)
  BY <1>2, <1>3, <1>4, <1>5, <1>6, <1>7, <1>8, <1>9 DEF SoundKept, Rounding, Over
<1> QED
  BY <1>3, <1>10, StillSound

LEMMA PeerDoneLink ==
  ASSUME NEW s, Mesh(s), NEW u, NEW n \in Node, NEW g \in Sign, NEW t, NEW c, NEW act, NEW new,
         PeerDone(s, u, n, g, t, c, act, new)
  PROVE  LinkJ(u, c)
<1> DEFINE o == Tk(s, n, g)
           q == s.req[g]
           main == q.main
<1>1. PeerEnded(s, u, n, g, t, c, act, new)
  BY PeerDoneFacts
<1>2. /\ o.pc = "sleep2"
      /\ n # main /\ main \in Node
      /\ c \in Chan /\ c.a = main /\ c.b = n /\ c.g = g
      /\ Link(s, c) /\ Touches(c, n, g) /\ Opened(s, c) /\ Late(o, t)
      /\ t.pc = "done" /\ Step(s, u, n, g, t)
      /\ u.req = s.req /\ Tk(u, n, g) = t
      /\ u.resp[c] = "closed"
      /\ \A k \in Node : s.mail[k] \subseteq u.mail[k]
  BY <1>1 DEF PeerEnded
<1>3. /\ Opened(u, c)
      /\ \A k \in {c.a, c.b} : Read(Tk(u, k, c.g), c) = Read(Tk(s, k, c.g), c)
      /\ \A k \in {c.a, c.b} : Tk(u, k, c.g).round = Tk(s, k, c.g).round
  BY <1>2, LateLink
<1>4. u.req[c.g].main = c.a /\ Tk(u, c.b, c.g) = t
  BY <1>2
<1> HIDE DEF o, q, main
<1>5. Link(u, c)
  BY <1>2 DEF Link, Called
<1>6. SharesJ(u, c)
  <2>1. MailKept(s, u, c)
    BY <1>2 DEF MailKept
  <2>2. SameRounds(s, u, c)
    BY <1>3 DEF SameRounds
  <2>3. SharesJ(s, c)
    BY <1>2, AtLink
  <2> QED
    BY <2>1, <2>2, <2>3, SharesKept
<1>7. ChannelJ(u, c)
  BY <1>2, <1>3, <1>4, <1>5 DEF ChannelJ, States, Waiting
<1> QED
  BY <1>2, <1>5, <1>6, <1>7 DEF LinkJ, LevelJ, EofJ

LEMMA PeerDoneNew ==
  ASSUME NEW s, Mesh(s), NEW u, NEW n \in Node, NEW g \in Sign, NEW t, NEW c, NEW act, NEW new,
         PeerDone(s, u, n, g, t, c, act, new), NEW k \in Node, NEW v \in new[k]
  PROVE  /\ Sound(u, k, v) /\ Fresh(s, k, v)
         /\ \A w \in new[k] : Alone(v, w)
<1> DEFINE o == Tk(s, n, g)
           q == s.req[g]
           main == q.main
<1>1. PeerEnded(s, u, n, g, t, c, act, new)
  BY PeerDoneFacts
<1>2. /\ Called(s, g) /\ o.pc = "sleep2" /\ o.round = Rounds
      /\ n # main /\ main \in Node
      /\ c \in Chan /\ c.a = main /\ c.b = n /\ c.g = g
      /\ Link(s, c) /\ s.resp[c] \in {"sign"}
      /\ t.round = Rounds
      /\ u.req = s.req /\ Tk(u, n, g) = t
      /\ \A p \in Node, h \in Sign : Tk(u, p, h) = IF p = n /\ h = g THEN t ELSE Tk(s, p, h)
      /\ u.resp[c] = "closed"
  BY <1>1 DEF PeerEnded
<1>3. new = Only(c.a, Msg(c, "eof"))
  <2>1. new \in {Silent, Only(c.a, Msg(c, "eof"))}
    BY DEF PeerDone
  <2>2. Silent[k] = {}
    BY DEF Silent
  <2> QED
    BY <2>1, <2>2
<1>4. k = main /\ v = Msg(c, "eof") /\ new[k] = {v}
  BY <1>2, <1>3 DEF Only
<1>5. v \in Message /\ v.c = c /\ v.kind = "eof"
  BY <1>2, <1>4, Plain DEF Kinds
<1>6. \A p \in q.nodes : p \in Node /\ Tk(s, p, g).round = Rounds
  BY <1>2, AllRounds, Request DEF Over
<1>7. Sound(u, k, v)
  <2>1. Link(u, c) /\ u.req[c.g] = q
    BY <1>2 DEF Link, Called
  <2>2. \A p \in q.nodes : Tk(u, p, g).round = Rounds
    BY <1>2, <1>6
  <2> HIDE DEF q, main, o
  <2> QED
    BY <1>2, <1>4, <1>5, <2>1, <2>2 DEF Sound
<1>8. ASSUME NEW m \in s.mail[k] PROVE May(m, v)
  <2>1. Sound(s, k, m) /\ m \in Message
    BY AtMail
  <2>2. m.c = c => m.kind # "eof"
    BY <1>2, <1>4, <2>1 DEF Sound
  <2>3. m.c = c => Rank(m) < Rank(v)
    <3>1. Rank(v) = 3 + Rounds
      BY <1>5 DEF Rank
    <3>2. m.kind # "eof" => Rank(m) \in {0, 1, 2} \/ Rank(m) = 2 + m.round
      BY <2>1 DEF Rank, Message, Kinds
    <3>3. m.round \in 0..Rounds
      BY <2>1 DEF Message
    <3> QED
      BY <2>2, <3>1, <3>2, <3>3, BoundAssumption
  <2> QED
    BY <1>5, <2>3 DEF May
<1> QED
  BY <1>4, <1>7, <1>8 DEF Fresh, Alone

LEMMA PeerDoneAct ==
  ASSUME NEW s, Mesh(s), NEW u, NEW n \in Node, NEW g \in Sign, NEW t, NEW c, NEW act, NEW new,
         PeerDone(s, u, n, g, t, c, act, new)
  PROVE  MoveAct(u, n, act)
<1>1. PeerEnded(s, u, n, g, t, c, act, new)
  BY PeerDoneFacts
<1>2. /\ Tk(s, n, g).pc = "sleep2" /\ c \in Chan /\ c.b = n
      /\ t.opened = <<>>
      /\ \A k \in Node, h \in Sign : Tk(u, k, h) = IF k = n /\ h = g THEN t ELSE Tk(s, k, h)
      /\ \A d \in Chan : u.resp[d] = IF d = c THEN "closed" ELSE s.resp[d]
  BY <1>1 DEF PeerEnded
<1>3. Dictionary(n, act) /\ Ran(act) = Ran(s.act[n]) \ {c}
  BY DEF PeerDone
<1>4. ASSUME NEW e \in Chan PROVE Holds(u, n, e) <=> Holds(s, n, e) /\ e # c
  <2>0. e.g \in Sign /\ e.a # e.b
    BY ChanFields
  <2>1. (e.a = n /\ e \in Ran(Tk(u, n, e.g).opened) /\ Tk(u, n, e.g).pc # "sleep2")
           <=> (e.a = n /\ e \in Ran(Tk(s, n, e.g).opened) /\ Tk(s, n, e.g).pc # "sleep2")
    <3>1. CASE e.g = g
      BY <1>2, <2>0, <3>1 DEF Ran
    <3>2. CASE e.g # g
      BY <1>2, <2>0, <3>2
    <3> QED
      BY <3>1, <3>2
  <2>2. u.resp[e] = IF e = c THEN "closed" ELSE s.resp[e]
    BY <1>2
  <2>3. e = c => e.b = n /\ e.a # n
    BY <1>2, <2>0
  <2> QED
    BY <2>1, <2>2, <2>3 DEF Holds
<1> QED
  BY <1>3, <1>4, AtDictionary DEF MoveAct

LEMMA PeerDoneMoves ==
  ASSUME NEW s, Mesh(s), NEW u, NEW n \in Node, NEW g \in Sign, NEW t, NEW c, NEW act, NEW new,
         PeerDone(s, u, n, g, t, c, act, new)
  PROVE  Mesh(u) /\ \A k \in Node : \A v \in new[k] : Fresh(s, k, v)
<1> DEFINE o == Tk(s, n, g)
           q == s.req[g]
<1>1. PeerEnded(s, u, n, g, t, c, act, new)
  BY PeerDoneFacts
<1>2. /\ Called(s, g) /\ ~Settled(s, g) /\ o.pc = "sleep2" /\ n # q.main
      /\ c \in Chan /\ c.a = q.main /\ c.b = n /\ c.g = g
      /\ t \in Task /\ t.pc = "done" /\ t.opened = <<>> /\ t.round = Rounds
      /\ Late(o, t) /\ Alike(o, t) /\ Steady(o, t)
      /\ Moves(s, u, n, g, t, act, c, "closed", Silent, new)
      /\ Step(s, u, n, g, t)
      /\ \A d \in Chan : u.resp[d] = IF d = c THEN "closed" ELSE s.resp[d]
      /\ \A k \in Node, h \in Sign : Tk(u, k, h) = IF k = n /\ h = g THEN t ELSE Tk(s, k, h)
  BY <1>1 DEF PeerEnded
<1>o. o = Tk(s, n, g)
  OBVIOUS
<1> HIDE DEF o, q
<1>3. /\ StageJ(u, g) /\ AckJ(u, g)
      /\ \A d \in Chan : Link(s, d) => AckSame(s, u, d)
  <2>1. NoAck(Silent)
    BY DEF NoAck, Silent
  <2> QED
    BY <1>2, <1>o, <2>1, HushedMain
<1>4. MoveTask(s, u, n, g, t, act)
  <2>1. /\ TaskJ(q, n, g, t) /\ ConnectJ(q, n, g, t)
        /\ ReachJ(q, n, t) /\ ShareJ(t, act) /\ MainJ(q, g, t)
    BY <1>2, <1>o, LateTask DEF q
  <2> QED
    BY <1>2, <1>3, <2>1 DEF MoveTask, q
<1>5. \A d \in Chan : d # c /\ Link(s, d) /\ Touches(d, n, g) => LinkSame(s, u, d)
  <2> SUFFICES ASSUME NEW d \in Chan, d # c, Link(s, d), Touches(d, n, g) PROVE LinkSame(s, u, d)
    OBVIOUS
  <2>1. /\ Opened(u, d) <=> Opened(s, d)
        /\ Waited(u, d) <=> Waited(s, d)
        /\ \A k \in {d.a, d.b} : Read(Tk(u, k, d.g), d) = Read(Tk(s, k, d.g), d)
    BY <1>2, <1>o, LateLink
  <2>2. d.a = s.req[d.g].main => (Tk(u, d.b, d.g).pc = "done" <=> Tk(s, d.b, d.g).pc = "done")
    <3>1. d.g = g /\ d.b \in Node
      BY ChanFields DEF Touches
    <3>2. d.a = q.main => d.b # n
      BY <1>2, <3>1 DEF Chan
    <3> QED
      BY <1>2, <3>1, <3>2 DEF q
  <2> QED
    BY <1>2, <2>1, <2>2 DEF LinkSame
<1>6. \A e \in Chan : u.resp[e] = s.resp[e] \/ s.resp[e] \in {"none", "level"}
                       \/ u.resp[e] \notin {"none", "level"}
  BY <1>2
<1>7. \A k \in Node : Silent[k] = {}
  BY DEF Silent
<1>8. \A k \in Node : \A m \in s.mail[k] : m \notin Silent[k] /\ m.c = c => Sound(u, k, m)
  BY PeerDoneOld
<1>9. \A k \in Node : \A v \in new[k] :
       /\ Sound(u, k, v) /\ Fresh(s, k, v)
       /\ \A w \in new[k] : Alone(v, w)
  BY PeerDoneNew
<1>10. LinkJ(u, c) /\ MoveAct(u, n, act)
  BY PeerDoneLink, PeerDoneAct
<1>11. Hushed(s, u, n, g, t, act, c, "closed", Silent, new, c)
  BY <1>2, <1>o, <1>3, <1>4, <1>5, <1>6, <1>7, <1>8, <1>9, <1>10 DEF Hushed
<1> QED
  BY <1>9, <1>11, HushedMesh

-----------------------------------------------------------------------------
(* A node closes the channels it opened.                                   *)

(* n closes the channels that it opened.                                   *)
Closing(s, u, n, g, t, act, new) ==
  LET o == Tk(s, n, g)
  IN  /\ o.pc = "sleep" /\ t = [o EXCEPT !.pc = "sleep2"]
      /\ Dictionary(n, act) /\ Ran(act) = Ran(s.act[n]) \ Ran(o.opened)
      /\ \A k \in Node : \A v \in new[k] :
           \E d \in Ran(o.opened) : d.b = k /\ v = Msg(d, "eof")
      /\ \A d \in Ran(o.opened) : s.resp[d] # "closed" => Msg(d, "eof") \in new[d.b]
      /\ Move(s, u, n, g, t, act, NoChan, "none", Silent, new)

HasClosed(s, u, n, g, t, act, new) ==
  LET o == Tk(s, n, g)
  IN  /\ o \in Task /\ Called(s, g) /\ ~Settled(s, g) /\ o.pc = "sleep" /\ o.round = Rounds
      /\ \A d \in Ran(o.opened) : d \in Chan /\ d.a = n /\ d.g = g /\ Link(s, d)
      /\ \A d \in Chan : Link(s, d) /\ d.a = n /\ d.g = g => d \in Ran(o.opened)
      /\ t \in Task /\ t.pc = "sleep2" /\ t.wait = NoChan /\ t.opened = o.opened /\ t.round = Rounds
      /\ t.from = o.from
      /\ Late(o, t)
      /\ Moves(s, u, n, g, t, act, NoChan, "none", Silent, new)
      /\ Step(s, u, n, g, t)
      /\ u.req = s.req /\ Tk(u, n, g) = t
      /\ \A k \in Node, h \in Sign : Tk(u, k, h) = IF k = n /\ h = g THEN t ELSE Tk(s, k, h)
      /\ \A d \in Chan : u.resp[d] = s.resp[d]
      /\ \A k \in Node : u.mail[k] = s.mail[k] \cup new[k]

LEMMA ClosingFacts ==
  ASSUME NEW s, Mesh(s), NEW u, NEW n \in Node, NEW g \in Sign, NEW t, NEW act, NEW new,
         Closing(s, u, n, g, t, act, new)
  PROVE  HasClosed(s, u, n, g, t, act, new)
<1> DEFINE o == Tk(s, n, g)
           q == s.req[g]
<1>1. /\ o.pc = "sleep" /\ t = [o EXCEPT !.pc = "sleep2"]
      /\ Move(s, u, n, g, t, act, NoChan, "none", Silent, new)
  BY DEF Closing
<1>2. /\ o \in Task /\ Called(s, g) /\ ~Settled(s, g) /\ TaskJ(q, n, g, o) /\ n \in q.nodes
      /\ ReachJ(q, n, o)
  BY <1>1, AtTask
<1>o. o = Tk(s, n, g)
  OBVIOUS
<1>q. q = s.req[g]
  OBVIOUS
<1> HIDE DEF o, q
<1>3. o.round = Rounds /\ o.wait = NoChan /\ o.opened \in Seq(Chan)
  BY <1>1, <1>2 DEF TaskJ, Over, Task
<1>4. /\ t \in Task /\ t.pc = "sleep2" /\ t.wait = NoChan /\ t.opened = o.opened /\ t.round = Rounds
      /\ t.from = o.from
  BY <1>1, <1>2, <1>3 DEF Task
<1>5. Late(o, t)
  BY <1>1, <1>3, <1>4 DEF Late, Rounding, Over
<1>6. ASSUME NEW d \in Ran(o.opened) PROVE d \in Chan /\ d.a = n /\ d.g = g /\ Link(s, d)
  <2>1. d \in Chan /\ d.a = n /\ d.g = g
    BY <1>2, <1>3, RanType DEF TaskJ
  <2>2. d.b \in Reached(o) /\ d.b \in Node
    BY <2>1, ChanFields DEF Ran, Reached
  <2>3. Before(q, n, d.b)
    BY <1>1, <1>2, <2>2 DEF ReachJ
  <2> QED
    BY <1>2, <1>q, <2>1, <2>3 DEF Link
<1>7. ASSUME NEW d \in Chan, Link(s, d), d.a = n, d.g = g PROVE d \in Ran(o.opened)
  <2>1. Before(q, n, d.b) /\ d.b \in Node
    BY <1>7, <1>q, ChanFields DEF Link
  <2>2. d.b \in Reached(o)
    BY <1>1, <1>2, <2>1 DEF ReachJ
  <2>3. PICK i \in 1..Len(o.opened) : o.opened[i].b = d.b
    BY <2>2 DEF Reached
  <2>4. o.opened[i] \in Ran(o.opened)
    BY <2>3 DEF Ran
  <2>5. o.opened[i] \in Chan /\ o.opened[i].a = n /\ o.opened[i].g = g
    BY <1>6, <2>4
  <2>6. o.opened[i] = d
    BY <1>7, <2>3, <2>5 DEF Chan
  <2> QED
    BY <2>4, <2>6
<1>m. Moves(s, u, n, g, t, act, NoChan, "none", Silent, new)
  BY <1>1, NotAChannel DEF Moves, Silent
<1>s. Step(s, u, n, g, t)
  BY <1>m, MoveStep
<1>u. /\ u.req = s.req /\ Tk(u, n, g) = t
      /\ \A k \in Node, h \in Sign : Tk(u, k, h) = IF k = n /\ h = g THEN t ELSE Tk(s, k, h)
      /\ \A d \in Chan : u.resp[d] = s.resp[d]
      /\ \A k \in Node : u.mail[k] = s.mail[k] \cup new[k]
  BY <1>1, NotAChannel DEF Move, Silent
<1> QED
  BY <1>1, <1>2, <1>3, <1>4, <1>5, <1>6, <1>7, <1>m, <1>s, <1>u DEF HasClosed, o

LEMMA ClosingOld ==
  ASSUME NEW s, Mesh(s), NEW u, NEW n \in Node, NEW g \in Sign, NEW t, NEW act, NEW new,
         Closing(s, u, n, g, t, act, new), NEW k \in Node, NEW w \in s.mail[k], Touches(w.c, n, g)
  PROVE  Sound(u, k, w)
<1> DEFINE o == Tk(s, n, g)
           c == w.c
           main == s.req[g].main
<1>1. HasClosed(s, u, n, g, t, act, new)
  BY ClosingFacts
<1>2. /\ Called(s, g) /\ o.pc = "sleep" /\ o.round = Rounds
      /\ t.pc = "sleep2" /\ t.round = Rounds
      /\ Step(s, u, n, g, t) /\ Late(o, t)
      /\ u.req = s.req /\ Tk(u, n, g) = t
      /\ \A p \in Node, h \in Sign : Tk(u, p, h) = IF p = n /\ h = g THEN t ELSE Tk(s, p, h)
      /\ \A d \in Chan : u.resp[d] = s.resp[d]
  BY <1>1 DEF HasClosed
<1>3. Sound(s, k, w) /\ w \in Message /\ k \in {c.a, c.b} /\ c \in Chan /\ Link(s, c)
  BY AtMail
<1>4. /\ Opened(u, c) <=> Opened(s, c)
      /\ Waited(u, c) <=> Waited(s, c)
  BY <1>2, <1>3, LateLink
<1>5. \A p \in Node : Tk(u, p, g) = Tk(s, p, g) \/ (p = n /\ Tk(u, p, g) = t /\ Tk(s, p, g) = o)
  BY <1>2
<1>6. \A p \in s.req[g].nodes : p \in Node
  BY <1>2, Request
<1>7. c.g = g /\ c.a \in Node /\ c.b \in Node /\ Other(k, c) \in Node /\ main \in Node
  BY <1>2, <1>3, ChanFields, MainNode DEF Other, Touches
<1>8. s.req[c.g].main = main
  BY <1>7
<1> HIDE DEF o, c, main
<1>9. \A p \in Node : Tk(u, p, g).round = Tk(s, p, g).round /\ Read(Tk(u, p, g), c) = Read(Tk(s, p, g), c)
  BY <1>2, <1>5 DEF Read, Over
<1>10. Tk(s, main, g).pc = "ack" => Tk(u, main, g) = Tk(s, main, g)
  BY <1>2, <1>5, <1>7
<1>11. SoundKept(s, u, k, w)
  BY <1>2, <1>3, <1>4, <1>5, <1>6, <1>7, <1>8, <1>9, <1>10 DEF SoundKept, Rounding, Over, c
<1> QED
  BY <1>3, <1>11, StillSound

LEMMA ClosingNew ==
  ASSUME NEW s, Mesh(s), NEW u, NEW n \in Node, NEW g \in Sign, NEW t, NEW act, NEW new,
         Closing(s, u, n, g, t, act, new), NEW k \in Node, NEW v \in new[k]
  PROVE  /\ Sound(u, k, v) /\ Fresh(s, k, v)
         /\ \A w \in new[k] : Alone(v, w)
<1> DEFINE o == Tk(s, n, g)
           q == s.req[g]
<1>1. HasClosed(s, u, n, g, t, act, new)
  BY ClosingFacts
<1>2. /\ Called(s, g) /\ o.pc = "sleep"
      /\ \A d \in Ran(o.opened) : d \in Chan /\ d.a = n /\ d.g = g /\ Link(s, d)
      /\ t.pc = "sleep2" /\ t.round = Rounds
      /\ u.req = s.req /\ Tk(u, n, g) = t
      /\ \A p \in Node, h \in Sign : Tk(u, p, h) = IF p = n /\ h = g THEN t ELSE Tk(s, p, h)
  BY <1>1 DEF HasClosed
<1>3. \A w \in new[k] : \E d \in Ran(o.opened) : d.b = k /\ w = Msg(d, "eof")
  BY DEF Closing
<1>4. PICK d \in Ran(o.opened) : d.b = k /\ v = Msg(d, "eof")
  BY <1>3
<1>5. d \in Chan /\ d.a = n /\ d.g = g /\ Link(s, d) /\ d.a # d.b
  BY <1>2, ChanFields
<1>6. v \in Message /\ v.c = d /\ v.kind = "eof"
  BY <1>4, <1>5, Plain DEF Kinds
<1>7. \A p \in q.nodes : p \in Node /\ Tk(s, p, g).round = Rounds
  BY <1>2, AllRounds, Request DEF Over
<1>8. Sound(u, k, v)
  <2>1. Link(u, d) /\ u.req[d.g] = q
    BY <1>2, <1>5 DEF Link, Called
  <2>2. \A p \in q.nodes : Tk(u, p, g).round = Rounds
    BY <1>2, <1>7
  <2> HIDE DEF q, o
  <2> QED
    BY <1>2, <1>4, <1>5, <1>6, <2>1, <2>2 DEF Sound
<1>9. ASSUME NEW m \in s.mail[k] PROVE May(m, v)
  <2>1. Sound(s, k, m) /\ m \in Message
    BY AtMail
  <2>2. m.c = d => m.kind # "eof"
    BY <1>2, <1>4, <1>5, <2>1 DEF Sound
  <2>3. m.c = d => Rank(m) < Rank(v)
    <3>1. Rank(v) = 3 + Rounds
      BY <1>6 DEF Rank
    <3>2. m.kind # "eof" => Rank(m) \in {0, 1, 2} \/ Rank(m) = 2 + m.round
      BY <2>1 DEF Rank, Message, Kinds
    <3>3. m.round \in 0..Rounds
      BY <2>1 DEF Message
    <3> QED
      BY <2>2, <3>1, <3>2, <3>3, BoundAssumption
  <2> QED
    BY <1>6, <2>3 DEF May
<1>10. ASSUME NEW w \in new[k] PROVE Alone(v, w)
  <2>1. PICK e \in Ran(o.opened) : e.b = k /\ w = Msg(e, "eof")
    BY <1>3
  <2> QED
    BY <1>4, <2>1 DEF Alone, Msg
<1> QED
  BY <1>8, <1>9, <1>10 DEF Fresh

LEMMA ClosingLink ==
  ASSUME NEW s, Mesh(s), NEW u, NEW n \in Node, NEW g \in Sign, NEW t, NEW act, NEW new,
         Closing(s, u, n, g, t, act, new), NEW d \in Chan, Touches(d, n, g)
  PROVE  LinkJ(u, d)
<1> DEFINE o == Tk(s, n, g)
           q == s.req[g]
<1>1. HasClosed(s, u, n, g, t, act, new)
  BY ClosingFacts
<1>2. /\ o.pc = "sleep"
      /\ \A e \in Chan : Link(s, e) /\ e.a = n /\ e.g = g => e \in Ran(o.opened)
      /\ t.pc = "sleep2" /\ Late(o, t) /\ Step(s, u, n, g, t)
      /\ u.req = s.req /\ Tk(u, n, g) = t
      /\ \A k \in Node, h \in Sign : Tk(u, k, h) = IF k = n /\ h = g THEN t ELSE Tk(s, k, h)
      /\ \A e \in Chan : u.resp[e] = s.resp[e]
      /\ \A k \in Node : u.mail[k] = s.mail[k] \cup new[k]
  BY <1>1 DEF HasClosed
<1>3. \A e \in Ran(o.opened) : s.resp[e] # "closed" => Msg(e, "eof") \in new[e.b]
  BY DEF Closing
<1>4. d.g = g /\ d.a \in Node /\ d.b \in Node /\ d.a # d.b /\ (d.a = n \/ d.b = n)
  BY ChanFields DEF Touches
<1>5. CASE ~Link(s, d)
  BY <1>2, <1>5, NotLinked
<1>6. CASE Link(s, d)
  <2>1. /\ Opened(u, d) <=> Opened(s, d)
        /\ Waited(u, d) <=> Waited(s, d)
        /\ \A k \in {d.a, d.b} : Read(Tk(u, k, d.g), d) = Read(Tk(s, k, d.g), d)
        /\ \A k \in {d.a, d.b} : Tk(u, k, d.g).round = Tk(s, k, d.g).round
    BY <1>2, <1>6, LateLink
  <2>o. o = Tk(s, n, g)
    OBVIOUS
  <2> HIDE DEF o, q
  <2>2. LinkJ(s, d) /\ ChannelJ(s, d) /\ LevelJ(s, d) /\ SharesJ(s, d)
    BY <1>6, AtLink
  <2>3. MailKept(s, u, d)
    BY <1>2, <1>4 DEF MailKept
  <2>4. SameRounds(s, u, d)
    BY <2>1 DEF SameRounds
  <2>5. CASE d.b = n
    <3>1. Tk(s, d.b, d.g) = o /\ Tk(u, d.b, d.g) = t /\ Tk(u, d.a, d.g) = Tk(s, d.a, d.g)
      BY <1>2, <1>4, <2>o, <2>5
    <3>2. UpSame(s, u, d)
      BY <1>2, UpAll
    <3>3. SameEnds(s, u, d)
      BY <1>2, <2>1, <3>1, <3>2 DEF SameEnds, UpSame
    <3> QED
      BY <2>2, <2>3, <2>4, <3>3, LinkKept
  <2>6. CASE d.a = n
    <3>1. Tk(s, d.a, d.g) = o /\ Tk(u, d.a, d.g) = t /\ Tk(u, d.b, d.g) = Tk(s, d.b, d.g)
      BY <1>2, <1>4, <2>o, <2>6
    <3>2. /\ Link(u, d) /\ u.req[d.g].main = s.req[d.g].main /\ u.resp[d] = s.resp[d]
          /\ Up(u, d.b, d.g) = Up(s, d.b, d.g)
      BY <1>2, <1>6 DEF Link, Called, Up
    <3>3. SharesJ(u, d)
      BY <2>2, <2>3, <2>4, SharesKept
    <3>4. LevelJ(u, d)
      BY <1>2, <1>4, <2>1, <2>2, <3>2 DEF LevelJ
    <3>5. EofJ(u, d)
      <4>1. d \in Ran(o.opened)
        BY <1>2, <1>4, <1>6, <2>6
      <4>2. u.resp[d] = "hold" => Msg(d, "eof") \in u.mail[d.b]
        BY <1>2, <1>3, <1>4, <3>2, <4>1
      <4>3. Msg(d, "eof").c = d /\ Msg(d, "eof").kind = "eof"
        BY DEF Msg
      <4> QED
        BY <4>2, <4>3 DEF EofJ
    <3>6. ChannelJ(u, d)
      <4>1. d.a # s.req[d.g].main /\ u.resp[d] = "hold" => u.resp[Up(u, d.b, d.g)] \notin {"none", "level"}
        <5> SUFFICES ASSUME d.a # s.req[d.g].main, u.resp[d] = "hold"
                     PROVE  u.resp[Up(u, d.b, d.g)] \notin {"none", "level"}
          OBVIOUS
        <5>1. Up(s, d.b, d.g) \in Chan
          BY <1>6, UpChannel
        <5>2. s.resp[Up(s, d.b, d.g)] \notin {"none", "level"}
          BY <1>6, <2>2, <3>2 DEF ChannelJ
        <5> QED
          BY <1>2, <3>2, <5>1, <5>2
      <4> QED
        BY <1>2, <1>6, <2>1, <2>2, <3>1, <3>2, <4>1 DEF ChannelJ
    <3> QED
      BY <3>2, <3>3, <3>4, <3>5, <3>6 DEF LinkJ
  <2> QED
    BY <1>4, <2>5, <2>6
<1> QED
  BY <1>5, <1>6

LEMMA ClosingAct ==
  ASSUME NEW s, Mesh(s), NEW u, NEW n \in Node, NEW g \in Sign, NEW t, NEW act, NEW new,
         Closing(s, u, n, g, t, act, new)
  PROVE  MoveAct(u, n, act)
<1> DEFINE o == Tk(s, n, g)
<1>1. HasClosed(s, u, n, g, t, act, new)
  BY ClosingFacts
<1>2. /\ o.pc = "sleep" /\ t.pc = "sleep2"
      /\ \A d \in Ran(o.opened) : d \in Chan /\ d.a = n /\ d.g = g
      /\ \A k \in Node, h \in Sign : Tk(u, k, h) = IF k = n /\ h = g THEN t ELSE Tk(s, k, h)
      /\ \A d \in Chan : u.resp[d] = s.resp[d]
  BY <1>1 DEF HasClosed
<1>3. Dictionary(n, act) /\ Ran(act) = Ran(s.act[n]) \ Ran(o.opened)
  BY DEF Closing
<1>4. ASSUME NEW e \in Chan PROVE Holds(u, n, e) <=> Holds(s, n, e) /\ e \notin Ran(o.opened)
  <2>0. e.g \in Sign /\ e.a # e.b
    BY ChanFields
  <2>1. CASE e.g = g
    <3>1. Tk(u, n, e.g) = t /\ Tk(s, n, e.g) = o
      BY <1>2, <2>1
    <3>2. e.b = n => e \notin Ran(o.opened)
      BY <1>2, <2>0
    <3> HIDE DEF o
    <3> QED
      BY <1>2, <3>1, <3>2 DEF Holds
  <2>2. CASE e.g # g
    <3>1. Tk(u, n, e.g) = Tk(s, n, e.g) /\ e \notin Ran(o.opened)
      BY <1>2, <2>0, <2>2
    <3> HIDE DEF o
    <3> QED
      BY <1>2, <3>1 DEF Holds
  <2> QED
    BY <2>1, <2>2
<1> QED
  BY <1>3, <1>4, AtDictionary DEF MoveAct

LEMMA ClosingMoves ==
  ASSUME NEW s, Mesh(s), NEW u, NEW n \in Node, NEW g \in Sign, NEW t, NEW act, NEW new,
         Closing(s, u, n, g, t, act, new)
  PROVE  Mesh(u) /\ \A k \in Node : \A v \in new[k] : Fresh(s, k, v)
<1> DEFINE o == Tk(s, n, g)
           q == s.req[g]
<1>1. HasClosed(s, u, n, g, t, act, new)
  BY ClosingFacts
<1>2. /\ Called(s, g) /\ ~Settled(s, g) /\ o.pc = "sleep" /\ o.round = Rounds
      /\ t \in Task /\ t.pc = "sleep2" /\ t.opened = o.opened /\ t.from = o.from /\ t.round = Rounds
      /\ Late(o, t)
      /\ Moves(s, u, n, g, t, act, NoChan, "none", Silent, new)
      /\ Step(s, u, n, g, t)
      /\ \A k \in Node : u.mail[k] = s.mail[k] \cup new[k]
  BY <1>1 DEF HasClosed
<1>o. o = Tk(s, n, g)
  OBVIOUS
<1>3. \A k \in Node : \A v \in new[k] :
       /\ Sound(u, k, v) /\ Fresh(s, k, v)
       /\ \A w \in new[k] : Alone(v, w)
  BY ClosingNew
<1>4. \A k \in Node : \A m \in s.mail[k] : Touches(m.c, n, g) => Sound(u, k, m)
  BY ClosingOld
<1>5. \A d \in Chan : Touches(d, n, g) => LinkJ(u, d)
  BY ClosingLink
<1>6. MoveAct(u, n, act)
  BY ClosingAct
<1> HIDE DEF o, q
<1>7. MoveMail(s, u, n, g, Silent, new)
  BY <1>3, <1>4 DEF MoveMail
<1>8. StageJ(u, g) /\ AckJ(u, g)
  <2>1. o.pc \in Rounding /\ t.pc \in Rounding
    BY <1>2 DEF Late
  <2>2. \A k \in Node : \A m \in s.mail[k] : m \in u.mail[k]
    BY <1>2
  <2> QED
    BY <1>2, <1>o, <2>1, <2>2, OverSteady
<1>9. MoveTask(s, u, n, g, t, act)
  <2>1. /\ TaskJ(q, n, g, t) /\ ConnectJ(q, n, g, t)
        /\ ReachJ(q, n, t) /\ ShareJ(t, act) /\ MainJ(q, g, t)
    BY <1>2, <1>o, LateTask DEF q
  <2> QED
    BY <1>2, <1>8, <2>1 DEF MoveTask, q
<1>10. Mesh(u)
  BY <1>2, <1>5, <1>6, <1>7, <1>9, MoveMesh
<1> QED
  BY <1>3, <1>10

-----------------------------------------------------------------------------
(* A command is sent.                                                      *)

(* A SIGN command that names m and then the peers is sent to m, when those *)
(* before it are settled.                                                  *)
Making(s, u, g, m, peers, t) ==
  /\ s.req[g].main = None
  /\ \A h \in Sign : Called(s, h) => h < g /\ Settled(s, h)
  /\ m \in Node /\ peers \in Seq(Node) /\ peers # <<>> /\ Injective(peers) /\ m \notin Ran(peers)
  /\ t = [Idle EXCEPT !.pc = "connect", !.list = peers]
  /\ u.req = [s.req EXCEPT ![g] = [main |-> m, peers |-> peers, nodes |-> {m} \cup Ran(peers)]]
  /\ \A k \in Node, h \in Sign : Tk(u, k, h) = IF k = m /\ h = g THEN t ELSE Tk(s, k, h)
  /\ \A k \in Node : u.act[k] = IF k = m THEN <<>> ELSE s.act[k]
  /\ \A c \in Chan : u.resp[c] = s.resp[c]
  /\ \A k \in Node : u.mail[k] = s.mail[k]

(* While nothing is under way, no node holds a channel and no task runs.   *)
LEMMA AllSettled ==
  ASSUME NEW s, Mesh(s), \A h \in Sign : Called(s, h) => Settled(s, h)
  PROVE  /\ \A n \in Node, h \in Sign : Tk(s, n, h).pc \in {"idle", "done"}
         /\ \A n \in Node : s.act[n] = <<>>
         /\ \A n \in Node : \A e \in Chan : ~Holds(s, n, e)
         /\ \A k \in Node : \A w \in s.mail[k] : w.kind = "eof" /\ Called(s, w.c.g)
<1>1. ASSUME NEW n \in Node, NEW h \in Sign PROVE Tk(s, n, h).pc \in {"idle", "done"}
  <2>1. Tk(s, n, h).pc # "idle" => Called(s, h)
    BY AtTask
  <2> QED
    BY <2>1 DEF Settled
<1>2. ASSUME NEW n \in Node, NEW e \in Chan PROVE ~Holds(s, n, e)
  BY HeldActive, ChanFields
<1>3. ASSUME NEW n \in Node PROVE s.act[n] = <<>>
  <2>1. s.act[n] \in Seq(Chan) /\ \A e \in Chan : e \notin Ran(s.act[n])
    BY <1>2, AtDictionary DEF Dictionary
  <2>2. Ran(s.act[n]) = {}
    BY <2>1, RanType
  <2>3. Len(s.act[n]) \in Nat /\ \A i \in 1..Len(s.act[n]) : FALSE
    BY <2>1, <2>2 DEF Ran
  <2>4. Len(s.act[n]) = 0
    BY <2>3
  <2> QED
    BY <2>1, <2>4
<1>4. ASSUME NEW k \in Node, NEW w \in s.mail[k] PROVE w.kind = "eof" /\ Called(s, w.c.g)
  <2>1. Link(s, w.c) /\ w.c \in Chan
    BY AtMail
  <2>2. Called(s, w.c.g) /\ w.c.g \in Sign
    BY <2>1, ChanFields DEF Link
  <2> QED
    BY <2>2, SettledEof
<1> QED
  BY <1>1, <1>2, <1>3, <1>4

MadeFacts(s, u, g, m, peers, t) ==
  LET q == [main |-> m, peers |-> peers, nodes |-> {m} \cup Ran(peers)]
  IN  /\ u.req[g] = q /\ \A h \in Sign : h # g => u.req[h] = s.req[h]
      /\ u.req \in Requests /\ CommandJ(q) /\ m # None /\ m \in Node
      /\ t \in Task /\ t.pc = "connect" /\ t.wait = NoChan /\ t.list = peers /\ t.from = NoChan
      /\ t.opened = <<>> /\ t.round = 0 /\ t.asked = 0
      /\ \A b : Before(q, m, b) <=> b \in Ran(peers)
      /\ \A n \in Node : Tk(s, n, g).pc = "idle"
      /\ \A n \in Node : n # m => Tk(u, n, g) = Tk(s, n, g)
      /\ Tk(u, m, g) = t
      /\ \A n \in Node, h \in Sign : h # g => Tk(u, n, h) = Tk(s, n, h)
      /\ \A n \in Node, h \in Sign : Tk(s, n, h).pc \in {"idle", "done"}
      /\ \A n \in Node : s.act[n] = <<>> /\ u.act[n] = <<>>
      /\ \A n \in Node : \A e \in Chan : ~Holds(s, n, e)
      /\ \A k \in Node : \A w \in s.mail[k] : w.kind = "eof" /\ w.c.g # g
      /\ \A c \in Chan : c.g = g => s.resp[c] = "none"

LEMMA MakingFacts ==
  ASSUME NEW s, Mesh(s), NEW u, NEW g \in Sign, NEW m, NEW peers, NEW t,
         Making(s, u, g, m, peers, t)
  PROVE  MadeFacts(s, u, g, m, peers, t)
<1> DEFINE q == [main |-> m, peers |-> peers, nodes |-> {m} \cup Ran(peers)]
<1>1. /\ s.req[g].main = None
      /\ m \in Node /\ peers \in Seq(Node) /\ peers # <<>> /\ Injective(peers) /\ m \notin Ran(peers)
      /\ t = [Idle EXCEPT !.pc = "connect", !.list = peers]
      /\ u.req = [s.req EXCEPT ![g] = q]
  BY DEF Making
<1>2. /\ \A k \in Node, h \in Sign : Tk(u, k, h) = IF k = m /\ h = g THEN t ELSE Tk(s, k, h)
      /\ \A k \in Node : u.act[k] = IF k = m THEN <<>> ELSE s.act[k]
      /\ \A h \in Sign : Called(s, h) => Settled(s, h)
  BY DEF Making
<1>3. s.req \in Requests
  BY DEF Mesh, CommandsJ
<1>4. q \in [main : Node \cup {None}, peers : Seq(Node), nodes : SUBSET Node] /\ m # None
  BY <1>1, RanType, NoneAssumption
<1>5. u.req \in Requests /\ u.req[g] = q /\ \A h \in Sign : h # g => u.req[h] = s.req[h]
  BY <1>1, <1>3, <1>4 DEF Requests
<1>6. CommandJ(q)
  BY <1>1 DEF CommandJ
<1>7. t = [pc |-> "connect", wait |-> NoChan, from |-> NoChan, list |-> peers,
         opened |-> <<>>, asked |-> 0, round |-> 0, members |-> <<>>,
         at |-> 0, rebound |-> FALSE]
  BY <1>1 DEF Idle
<1>8. /\ t \in Task /\ t.pc = "connect" /\ t.wait = NoChan /\ t.list = peers /\ t.from = NoChan
      /\ t.opened = <<>> /\ t.round = 0 /\ t.asked = 0
  <2>1. peers \in Seq(Node) /\ 0 \in 0..Rounds
    BY <1>1, BoundAssumption
  <2>2. NoChan \in Chan \cup {NoChan} /\ <<>> \in Seq(Chan)
    OBVIOUS
  <2>3. t \in Task
    BY ONLY <1>7, <2>1, <2>2 DEF Task
  <2> QED
    BY <1>7, <2>3
<1>9. \A b : Before(q, m, b) <=> b \in Ran(peers)
  <2>1. q.main = m /\ q.peers = peers
    OBVIOUS
  <2>2. \A i \in 1..Len(peers) : peers[i] # m
    BY <1>1 DEF Ran
  <2> QED
    BY <2>1, <2>2 DEF Before
<1> HIDE DEF q
<1>10. ~Called(s, g)
  BY <1>1 DEF Called
<1>11. \A n \in Node : Tk(s, n, g).pc = "idle"
  BY <1>10, AtTask
<1>12. \A c \in Chan : c.g = g => s.resp[c] = "none"
  BY <1>10, AtLink DEF ChannelJ, Link
<1>13. /\ \A n \in Node, h \in Sign : Tk(s, n, h).pc \in {"idle", "done"}
       /\ \A n \in Node : s.act[n] = <<>>
       /\ \A n \in Node : \A e \in Chan : ~Holds(s, n, e)
       /\ \A k \in Node : \A w \in s.mail[k] : w.kind = "eof" /\ Called(s, w.c.g)
  BY <1>2, AllSettled
<1>14. \A k \in Node : \A w \in s.mail[k] : w.kind = "eof" /\ w.c.g # g
  BY <1>10, <1>13
<1>15. \A n \in Node : u.act[n] = <<>>
  BY <1>2, <1>13
<1>16. /\ \A n \in Node : n # m => Tk(u, n, g) = Tk(s, n, g)
       /\ Tk(u, m, g) = t
       /\ \A n \in Node, h \in Sign : h # g => Tk(u, n, h) = Tk(s, n, h)
  BY <1>1, <1>2
<1> QED
  BY <1>1, <1>4, <1>5, <1>6, <1>8, <1>9, <1>11, <1>12, <1>13, <1>14, <1>15, <1>16 DEF MadeFacts, q

LEMMA MakingMoves ==
  ASSUME NEW s, Mesh(s), NEW u, NEW g \in Sign, NEW m, NEW peers, NEW t,
         Making(s, u, g, m, peers, t)
  PROVE  Mesh(u)
<1> DEFINE q == [main |-> m, peers |-> peers, nodes |-> {m} \cup Ran(peers)]
<1>0. MadeFacts(s, u, g, m, peers, t)
  BY MakingFacts
<1>1. /\ u.req[g] = q /\ \A h \in Sign : h # g => u.req[h] = s.req[h]
      /\ u.req \in Requests /\ CommandJ(q) /\ m # None /\ m \in Node
  BY <1>0 DEF MadeFacts
<1>2. /\ t \in Task /\ t.pc = "connect" /\ t.wait = NoChan /\ t.list = peers /\ t.from = NoChan
      /\ t.opened = <<>> /\ t.round = 0 /\ t.asked = 0
      /\ \A b : Before(q, m, b) <=> b \in Ran(peers)
  BY <1>0 DEF MadeFacts
<1>3. /\ \A n \in Node : Tk(s, n, g).pc = "idle"
      /\ \A n \in Node : n # m => Tk(u, n, g) = Tk(s, n, g)
      /\ Tk(u, m, g) = t
      /\ \A n \in Node, h \in Sign : h # g => Tk(u, n, h) = Tk(s, n, h)
      /\ \A n \in Node, h \in Sign : Tk(s, n, h).pc \in {"idle", "done"}
  BY <1>0 DEF MadeFacts
<1>4. /\ \A n \in Node : s.act[n] = <<>> /\ u.act[n] = <<>>
      /\ \A n \in Node : \A e \in Chan : ~Holds(s, n, e)
      /\ \A k \in Node : \A w \in s.mail[k] : w.kind = "eof" /\ w.c.g # g
      /\ \A c \in Chan : c.g = g => s.resp[c] = "none"
  BY <1>0 DEF MadeFacts
<1>5. /\ \A c \in Chan : u.resp[c] = s.resp[c]
      /\ \A k \in Node : u.mail[k] = s.mail[k]
      /\ \A h \in Sign : Called(s, h) => h < g /\ Settled(s, h)
      /\ peers \in Seq(Node) /\ Injective(peers)
  BY DEF Making
<1>q. q.main = m /\ q.peers = peers /\ q.nodes = {m} \cup Ran(peers)
  OBVIOUS
<1> HIDE DEF q
<1>6. \A h \in Sign : h # g => (Called(u, h) <=> Called(s, h))
  BY <1>1 DEF Called
<1>7. CommandsJ(u)
  <2>1. \A h \in Sign : CommandJ(u.req[h])
    BY <1>1 DEF Mesh, CommandsJ
  <2>2. \A h \in Sign : h # g /\ Settled(s, h) => Settled(u, h)
    BY <1>3, <1>5 DEF Settled
  <2>3. \A h, i \in Sign : Called(u, h) /\ Called(u, i) /\ i < h => Settled(u, i)
    <3> SUFFICES ASSUME NEW h \in Sign, NEW i \in Sign, Called(u, h), Called(u, i), i < h
                 PROVE  Settled(u, i)
      OBVIOUS
    <3>1. i # g
      <4> SUFFICES ASSUME i = g PROVE FALSE
        OBVIOUS
      <4>1. h # g /\ h \in Nat /\ g \in Nat
        BY BoundAssumption DEF Sign
      <4>2. h < g
        BY <1>5, <1>6, <4>1
      <4> QED
        BY <4>1, <4>2
    <3> QED
      BY <1>5, <1>6, <2>2, <3>1
  <2> QED
    BY <1>1, <2>1, <2>3 DEF CommandsJ
<1>8. TasksJ(u)
  <2>1. ASSUME NEW n \in Node, NEW h \in Sign
        PROVE  /\ TaskJ(u.req[h], n, h, Tk(u, n, h))
               /\ ConnectJ(u.req[h], n, h, Tk(u, n, h))
               /\ ReachJ(u.req[h], n, Tk(u, n, h))
               /\ ShareJ(Tk(u, n, h), u.act[n])
    <3>1. CASE h = g /\ n = m
      <4>1. TaskJ(q, m, g, t)
        BY <1>1, <1>2, <1>q DEF TaskJ, Over, Ran
      <4>2. ConnectJ(q, m, g, t)
        BY <1>2, <1>5 DEF ConnectJ, Reached
      <4>3. ReachJ(q, m, t) /\ ShareJ(t, u.act[n])
        BY <1>2 DEF ReachJ, ShareJ
      <4> QED
        BY <1>1, <1>3, <3>1, <4>1, <4>2, <4>3
    <3>2. CASE h = g /\ n # m
      <4>1. TaskJ(s.req[g], n, g, Tk(s, n, g)) /\ Tk(s, n, g).pc = "idle"
        BY <1>3, AtTask
      <4>2. TaskJ(q, n, g, Tk(s, n, g))
        BY <4>1 DEF TaskJ
      <4>3. ConnectJ(q, n, g, Tk(s, n, g)) /\ ReachJ(q, n, Tk(s, n, g)) /\ ShareJ(Tk(s, n, g), u.act[n])
        BY <4>1 DEF ConnectJ, ReachJ, ShareJ
      <4> QED
        BY <1>1, <1>3, <3>2, <4>2, <4>3
    <3>3. CASE h # g
      <4>1. /\ TaskJ(s.req[h], n, h, Tk(s, n, h)) /\ ConnectJ(s.req[h], n, h, Tk(s, n, h))
            /\ ReachJ(s.req[h], n, Tk(s, n, h)) /\ ShareJ(Tk(s, n, h), s.act[n])
        BY AtTask
      <4>2. u.req[h] = s.req[h] /\ Tk(u, n, h) = Tk(s, n, h) /\ u.act[n] = s.act[n]
        BY <1>1, <1>3, <1>4, <3>3
      <4> QED
        BY <4>1, <4>2
    <3> QED
      BY <3>1, <3>2, <3>3
  <2>2. ASSUME NEW h \in Sign, Called(u, h)
        PROVE  MainJ(u.req[h], h, Tk(u, u.req[h].main, h)) /\ StageJ(u, h)
    <3>1. CASE h = g
      <4>1. Len(t.opened) = 0 /\ Len(peers) \in Nat /\ Tk(u, u.req[g].main, g) = t
        BY <1>1, <1>2, <1>3, <1>5, <1>q
      <4>2. MainJ(q, g, t)
        <5>1. \A i \in 1..Len(t.opened) : FALSE
          BY <4>1
        <5>2. 0 + 0 = 0 /\ 0 + Len(t.list) = Len(q.peers) /\ \A i \in 1..Len(t.list) : 0 + i = i
          BY <1>2, <1>q, <4>1
        <5> QED
          BY <1>2, <1>q, <4>1, <5>1, <5>2 DEF MainJ
      <4>3. \A b \in Ran(peers) : Tk(u, b, g).pc = "idle"
        <5>1. Ran(peers) \subseteq Node /\ m \notin Ran(peers)
          BY <1>1, <1>5, <1>q, RanType DEF CommandJ
        <5> QED
          BY <1>3, <5>1
      <4>4. StageJ(u, g)
        BY <1>1, <1>2, <1>q, <4>1, <4>3 DEF StageJ, Rounding, Over
      <4> QED
        BY <1>1, <3>1, <4>1, <4>2, <4>4
    <3>2. CASE h # g
      <4>1. u.req[h] = s.req[h] /\ Called(s, h)
        BY <1>1, <1>6, <2>2, <3>2
      <4>2. MainJ(s.req[h], h, Tk(s, s.req[h].main, h)) /\ StageJ(s, h)
        BY <4>1 DEF Mesh, TasksJ
      <4>3. s.req[h].main \in Node /\ Ran(s.req[h].peers) \subseteq Node
            /\ \A i \in 1..Len(s.req[h].peers) : s.req[h].peers[i] \in Node
        BY <4>1, Request
      <4>4. \A b \in Node : Tk(u, b, h) = Tk(s, b, h)
        BY <1>3, <3>2
      <4>5. StageJ(u, h)
        BY <4>1, <4>2, <4>3, <4>4 DEF StageJ
      <4> QED
        BY <4>1, <4>2, <4>3, <4>4, <4>5
    <3> QED
      BY <3>1, <3>2
  <2> QED
    BY <2>1, <2>2 DEF TasksJ
<1>9. DictionariesJ(u)
  <2>1. ASSUME NEW n \in Node, NEW e \in Chan PROVE ~Holds(u, n, e)
    <3>1. ~Holds(s, n, e) /\ u.resp[e] = s.resp[e] /\ e.g \in Sign
      BY <1>4, <1>5, ChanFields
    <3>2. Tk(u, n, e.g) = Tk(s, n, e.g) \/ Tk(u, n, e.g).opened = <<>>
      BY <1>2, <1>3, <3>1
    <3> QED
      BY <3>1, <3>2 DEF Holds, Ran
  <2>2. \A n \in Node : u.act[n] = <<>> /\ Dictionary(n, <<>>) /\ Ran(<<>>) = {}
    BY <1>4 DEF Dictionary, Ran
  <2> QED
    BY <2>1, <2>2 DEF DictionariesJ
<1>10. MailJ(u)
  <2> SUFFICES ASSUME NEW k \in Node, NEW w \in s.mail[k]
               PROVE  Sound(u, k, w) /\ \A v \in s.mail[k] : Alone(w, v)
    BY <1>5 DEF MailJ
  <2>1. /\ Sound(s, k, w) /\ w \in Message /\ w.c \in Chan /\ Link(s, w.c) /\ k \in {w.c.a, w.c.b}
        /\ \A v \in s.mail[k] : Alone(w, v)
    BY AtMail
  <2>2. w.kind = "eof" /\ w.c.g # g /\ w.c.g \in Sign /\ Called(s, w.c.g) /\ w.c.a \in Node
    BY <1>4, <2>1, ChanFields DEF Link
  <2>3. u.req[w.c.g] = s.req[w.c.g] /\ \A n \in Node : Tk(u, n, w.c.g) = Tk(s, n, w.c.g)
    BY <1>1, <1>3, <2>2
  <2>4. \A n \in s.req[w.c.g].nodes : n \in Node
    BY <2>2, Request
  <2>5. Link(u, w.c)
    BY <2>1, <2>3 DEF Link, Called
  <2>6. u.resp[w.c] = s.resp[w.c]
    BY <1>5, <2>1
  <2> QED
    BY <2>1, <2>2, <2>3, <2>4, <2>5, <2>6 DEF Sound
<1>11. ASSUME NEW c \in Chan PROVE LinkJ(u, c)
  <2>0. c.a \in Node /\ c.b \in Node /\ c.g \in Sign /\ c.a # c.b /\ u.resp[c] = s.resp[c]
    BY <1>5, ChanFields
  <2>1. CASE c.g = g
    <3>1. s.resp[c] = "none" /\ u.resp[c] = "none"
      BY <1>4, <2>0, <2>1
    <3>2. \A n \in Node : Tk(s, n, g).opened = <<>> /\ Tk(s, n, g).round = 0 /\ Tk(s, n, g).pc = "idle"
      <4> TAKE n \in Node
      <4>1. TaskJ(s.req[g], n, g, Tk(s, n, g)) /\ Tk(s, n, g).pc = "idle"
        BY <1>3, AtTask
      <4> QED
        BY ONLY <4>1 DEF TaskJ
    <3>3. \A n \in Node : Tk(u, n, g).opened = <<>> /\ Tk(u, n, g).round = 0
                          /\ Tk(u, n, g).pc \in {"idle", "connect"}
      BY <1>2, <1>3, <3>2
    <3>4. ~Opened(u, c)
      BY <2>0, <2>1, <3>3 DEF Opened, Reached, Rounding, Over
    <3>5. ASSUME Link(u, c) PROVE c.b # q.main /\ Tk(u, c.b, c.g).pc = "idle"
      <4>1. Before(q, c.a, c.b)
        BY <1>1, <2>1, <3>5 DEF Link
      <4>2. c.b # m
        BY <1>1, <1>5, <1>q, <4>1, BeforeIs
      <4> QED
        BY <1>3, <1>q, <2>0, <2>1, <4>2
    <3>6. ChannelJ(u, c)
      BY <1>1, <2>1, <3>1, <3>4, <3>5 DEF ChannelJ, States, Waiting
    <3>7. SharesJ(u, c)
      <4>1. \A k \in {c.a, c.b} : Other(k, c) \in Node /\ k \in Node
        BY <2>0 DEF Other
      <4>2. \A k \in Node : Read(Tk(u, k, g), c) = 0 /\ Tk(u, k, g).round = 0
        BY <3>3 DEF Read, Over
      <4>3. \A i \in 1..Rounds : ~(i <= 0)
        BY BoundAssumption
      <4> QED
        BY <2>1, <4>1, <4>2, <4>3 DEF SharesJ
    <3> QED
      BY <3>1, <3>6, <3>7 DEF LinkJ, LevelJ, EofJ
  <2>2. CASE c.g # g
    <3>1. \A n \in Node : Tk(u, n, c.g) = Tk(s, n, c.g)
      BY <1>3, <2>0, <2>2
    <3>2. u.req[c.g] = s.req[c.g]
      BY <1>1, <2>0, <2>2
    <3>3. /\ Link(u, c) <=> Link(s, c)
          /\ Up(u, c.b, c.g) = Up(s, c.b, c.g)
          /\ Opened(u, c) <=> Opened(s, c)
          /\ Waited(u, c) <=> Waited(s, c)
      BY <2>0, <3>1, <3>2 DEF Link, Called, Up, Opened, Waited
    <3>4. Link(s, c) /\ c.a # s.req[c.g].main => u.resp[Up(s, c.b, c.g)] = s.resp[Up(s, c.b, c.g)]
      BY <1>5, UpChannel
    <3>5. LinkJ(s, c)
      BY AtLink
    <3>6. ChannelJ(u, c)
      BY <2>0, <3>1, <3>2, <3>3, <3>4, <3>5 DEF LinkJ, ChannelJ
    <3>7. ASSUME Link(s, c) PROVE LevelJ(u, c) /\ SharesJ(u, c) /\ EofJ(u, c)
      <4>1. LevelJ(s, c) /\ SharesJ(s, c) /\ EofJ(s, c)
        BY <3>7, AtLink
      <4>2. \A k \in {c.a, c.b} : Other(k, c) \in Node /\ k \in Node
        BY <2>0 DEF Other
      <4>3. SharesJ(u, c)
        BY <1>5, <3>1, <4>1, <4>2 DEF SharesJ
      <4>4. LevelJ(u, c) /\ EofJ(u, c)
        BY <1>5, <2>0, <3>1, <3>3, <4>1 DEF LevelJ, EofJ
      <4> QED
        BY <4>3, <4>4
    <3> QED
      BY <3>3, <3>6, <3>7 DEF LinkJ
  <2> QED
    BY <2>1, <2>2
<1>12. ASSUME NEW h \in Sign, Called(u, h) PROVE AckJ(u, h)
  <2>1. Tk(u, u.req[h].main, h).pc # "ack"
    <3>1. CASE h = g
      BY <1>1, <1>2, <1>3, <1>q, <3>1
    <3>2. CASE h # g
      <4>1. u.req[h] = s.req[h] /\ Called(s, h)
        BY <1>1, <1>6, <1>12, <3>2
      <4>2. s.req[h].main \in Node
        BY <4>1, MainNode
      <4>3. Tk(s, s.req[h].main, h).pc \in {"idle", "done"}
        BY <1>3, <4>2
      <4> QED
        BY <1>3, <3>2, <4>1, <4>2, <4>3
    <3> QED
      BY <3>1, <3>2
  <2> QED
    BY <2>1 DEF AckJ
<1> QED
  BY <1>7, <1>8, <1>9, <1>10, <1>11, <1>12 DEF Mesh

-----------------------------------------------------------------------------
(* Boxes of messages in order.                                             *)

(* The messages of a box are in an order they may be in.                   *)
AllMay == {p \in Message \X Message : May(p[1], p[2])}

InOrder(box) == box \in Boxes /\ \A k \in Node : Ordered(box[k], AllMay)

LEMMA NotBefore ==
  ASSUME NEW box, InOrder(box), NEW k \in Node, NEW i \in 1..Len(box[k]), NEW j \in 1..Len(box[k])
  PROVE  /\ i < j => May(box[k][i], box[k][j])
         /\ box[k][i] \in Message
         /\ box[k][i] = box[k][j] => i = j
<1>1. box[k] \in Seq(Message) /\ Len(box[k]) \in Nat /\ box[k][i] \in Message /\ box[k][j] \in Message
  BY DEF InOrder, Boxes
<1>2. \A a, b \in 1..Len(box[k]) : a < b => May(box[k][a], box[k][b])
  BY <1>1 DEF InOrder, Ordered, AllMay
<1>3. \A u \in Message : ~May(u, u)
  <2> TAKE u \in Message
  <2>1. Rank(u) \in Nat
    BY RankIs
  <2> QED
    BY <2>1 DEF May
<1>4. i < j \/ j < i \/ i = j
  BY <1>1
<1> QED
  BY <1>1, <1>2, <1>3, <1>4

LEMMA TakenMail ==
  ASSUME InOrder(inbox), NEW n \in Node, NEW i \in 1..Len(inbox[n])
  PROVE  /\ InOrder(Take(n, i))
         /\ \A k \in Node : Ran(Take(n, i)[k]) = Ran(inbox[k]) \ Only(n, inbox[n][i])[k]
<1>1. inbox \in Boxes /\ inbox[n] \in Seq(Message) /\ \A k \in Node : Ordered(inbox[k], AllMay)
  BY DEF InOrder, Boxes
<1>2. /\ Take(n, i) \in Boxes
      /\ Take(n, i)[n] = Removed(inbox[n], i)
      /\ \A k \in Node : k # n => Take(n, i)[k] = inbox[k]
  BY <1>1, Taken
<1>3. InOrder(Take(n, i))
  BY <1>1, <1>2, TakenOrdered DEF InOrder
<1>4. Injective(inbox[n])
  BY NotBefore DEF Injective
<1>5. Ran(Removed(inbox[n], i)) = Ran(inbox[n]) \ {inbox[n][i]}
  <2> DEFINE s == inbox[n]
             X == Message
  <2>1. s \in Seq(X) /\ i \in 1..Len(s) /\ Injective(s)
    BY <1>1, <1>4
  <2> HIDE DEF s, X
  <2>2. /\ Ran(Removed(s, i)) \subseteq Ran(s)
        /\ \A x \in Ran(s) : x # s[i] => x \in Ran(Removed(s, i))
        /\ s[i] \notin Ran(Removed(s, i))
    BY ONLY <2>1, RanRemoved
  <2> QED
    BY <2>2 DEF s
<1>6. ASSUME NEW k \in Node
      PROVE  Ran(Take(n, i)[k]) = Ran(inbox[k]) \ Only(n, inbox[n][i])[k]
  <2>1. Only(n, inbox[n][i])[k] = IF k = n THEN {inbox[n][i]} ELSE {}
    BY DEF Only
  <2> QED
    BY <1>2, <1>5, <2>1
<1> QED
  BY <1>3, <1>6

LEMMA SentMail ==
  ASSUME NEW box, NEW out, InOrder(box), InOrder(out),
         \A k \in Node : \A v \in Ran(out[k]) : \A m \in Ran(box[k]) : May(m, v)
  PROVE  /\ InOrder(box ++ out)
         /\ \A k \in Node : Ran((box ++ out)[k]) = Ran(box[k]) \cup Ran(out[k])
<1>1. box \in Boxes /\ out \in Boxes
  BY DEF InOrder
<1>2. /\ box ++ out \in Boxes
      /\ \A k \in Node : Ran((box ++ out)[k]) = Ran(box[k]) \cup Ran(out[k])
  BY <1>1, After
<1>3. ASSUME NEW k \in Node PROVE Ordered((box ++ out)[k], AllMay)
  <2>1. box[k] \in Seq(Message) /\ out[k] \in Seq(Message)
    BY <1>1 DEF Boxes
  <2>2. Ran(box[k]) \subseteq Message /\ Ran(out[k]) \subseteq Message
    BY <2>1, RanType
  <2>3. \A x \in Ran(box[k]), y \in Ran(out[k]) : <<x, y>> \in AllMay
    BY <2>2 DEF AllMay
  <2>4. Ordered(box[k], AllMay) /\ Ordered(out[k], AllMay)
    BY DEF InOrder
  <2> QED
    BY <1>1, <2>3, <2>4, AfterOrdered
<1> QED
  BY <1>2, <1>3 DEF InOrder

LEMMA PostMail ==
  ASSUME NEW to \in Node, NEW m \in Message, ~Closed(to, m.c)
  PROVE  /\ InOrder(Post(to, m))
         /\ \A k \in Node : Ran(Post(to, m)[k]) = Only(to, m)[k]
<1>1. /\ Post(to, m) \in Boxes
      /\ \A k \in Node : \A u \in Ran(Post(to, m)[k]) : k = to /\ u = m
      /\ m \in Ran(Post(to, m)[to])
      /\ \A k \in Node : Ordered(Post(to, m)[k], AllMay)
  BY Posted
<1>2. ASSUME NEW k \in Node PROVE Ran(Post(to, m)[k]) = Only(to, m)[k]
  <2>1. Only(to, m)[k] = IF k = to THEN {m} ELSE {}
    BY DEF Only
  <2>2. CASE k = to
    BY <1>1, <2>1, <2>2
  <2>3. CASE k # to
    BY <1>1, <2>1, <2>3
  <2> QED
    BY <2>2, <2>3
<1> QED
  BY <1>1, <1>2 DEF InOrder

LEMMA PostClosed ==
  ASSUME NEW to, NEW m, Closed(to, m.c)
  PROVE  Post(to, m) = Nothing
BY DEF Post, Nothing

LEMMA NothingMail ==
  /\ InOrder(Nothing)
  /\ \A k \in Node : Ran(Nothing[k]) = Silent[k]
<1>1. Nothing \in Boxes /\ \A k \in Node : Ran(Nothing[k]) = {} /\ Nothing[k] = <<>>
  BY NothingSent DEF Nothing
<1>2. \A k \in Node : Ordered(Nothing[k], AllMay)
  BY <1>1 DEF Ordered
<1> QED
  BY <1>1, <1>2 DEF InOrder, Silent

LEMMA ConcatEmpty ==
  ASSUME NEW X, NEW s \in Seq(X)
  PROVE  s \o <<>> = s /\ <<>> \o s = s
OBVIOUS

LEMMA AfterNothing ==
  ASSUME NEW box \in Boxes
  PROVE  box ++ Nothing = box /\ Nothing ++ box = box
<1>1. \A k \in Node : box[k] \in Seq(Message) /\ Nothing[k] = <<>>
  BY DEF Boxes, Nothing
<1>2. ASSUME NEW k \in Node
      PROVE  box[k] \o Nothing[k] = box[k] /\ Nothing[k] \o box[k] = box[k]
  <2>1. PICK b : b = box[k]
    OBVIOUS
  <2>2. b \in Seq(Message)
    BY <1>1, <2>1
  <2>3. b \o <<>> = b /\ <<>> \o b = b
    BY ONLY <2>2, ConcatEmpty
  <2> QED
    BY <1>1, <2>1, <2>3
<1>3. box = [k \in Node |-> box[k]]
  BY DEF Boxes
<1> QED
  BY <1>2, <1>3 DEF ++

LEMMA ConcatAssoc ==
  ASSUME NEW X, NEW a \in Seq(X), NEW b \in Seq(X), NEW c \in Seq(X)
  PROVE  (a \o b) \o c = a \o (b \o c)
<1> DEFINE l == (a \o b) \o c
           r == a \o (b \o c)
<1>1. l \in Seq(X) /\ r \in Seq(X) /\ Len(l) = Len(r)
  OBVIOUS
<1>2. \A i \in 1..Len(l) : l[i] = r[i]
  OBVIOUS
<1> HIDE DEF l, r
<1>3. l = r
  BY <1>1, <1>2
<1> QED
  BY <1>3 DEF l, r

LEMMA AfterAssoc ==
  ASSUME NEW a \in Boxes, NEW b \in Boxes, NEW c \in Boxes
  PROVE  (a ++ b) ++ c = a ++ (b ++ c)
<1>1. \A k \in Node : a[k] \in Seq(Message) /\ b[k] \in Seq(Message) /\ c[k] \in Seq(Message)
  BY DEF Boxes
<1>2. ASSUME NEW k \in Node PROVE (a[k] \o b[k]) \o c[k] = a[k] \o (b[k] \o c[k])
  <2>1. PICK x, y, z : x = a[k] /\ y = b[k] /\ z = c[k]
    OBVIOUS
  <2>2. x \in Seq(Message) /\ y \in Seq(Message) /\ z \in Seq(Message)
    BY <1>1, <2>1
  <2>3. (x \o y) \o z = x \o (y \o z)
    BY ONLY <2>2, ConcatAssoc
  <2> QED
    BY <2>1, <2>3
<1>3. \A k \in Node : (a ++ b)[k] = a[k] \o b[k] /\ (b ++ c)[k] = b[k] \o c[k]
  BY DEF ++
<1> QED
  BY <1>2, <1>3 DEF ++

LEMMA EachMail ==
  ASSUME NEW n \in Node, NEW chans, Dictionary(n, chans), NEW kind \in Kinds, NEW r \in 0..Rounds
  PROVE  /\ InOrder(PostEach(n, chans, kind, r))
         /\ \A k \in Node : Ran(PostEach(n, chans, kind, r)[k]) =
              {[Msg(d, kind) EXCEPT !.round = r] :
                 d \in {e \in Ran(chans) : Other(n, e) = k /\ ~Closed(k, e)}}
<1> DEFINE P == PostEach(n, chans, kind, r)
           M(d) == [Msg(d, kind) EXCEPT !.round = r]
<1>1. chans \in Seq(Chan)
  BY DEF Dictionary
<1>2. P \in Boxes /\ \A k \in Node : Ordered(P[k], AllMay)
  BY <1>1, PostedEach
<1>3. ASSUME NEW k \in Node
      PROVE  Ran(P[k]) = {M(d) : d \in {e \in Ran(chans) : Other(n, e) = k /\ ~Closed(k, e)}}
  <2>1. P[k] = IF Has(n, chans, k) /\ ~Closed(k, At(n, chans, k))
                 THEN <<M(At(n, chans, k))>> ELSE <<>>
    BY DEF PostEach
  <2>2. \A x : Ran(<<x>>) = {x}
    BY DEF Ran
  <2>3. Ran(<<>>) = {}
    BY DEF Ran
  <2> HIDE DEF M, P
  <2>4. CASE Has(n, chans, k)
    <3>1. PICK i \in 1..Len(chans) : At(n, chans, k) = chans[i] /\ Other(n, chans[i]) = k
      BY <2>4, Key
    <3>2. \A e \in Ran(chans) : Other(n, e) = k => e = chans[i]
      BY <3>1 DEF Dictionary, Ran
    <3>3. chans[i] \in Ran(chans)
      BY DEF Ran
    <3>4. PICK e : e = chans[i]
      OBVIOUS
    <3>5. /\ e \in Ran(chans) /\ Other(n, e) = k /\ At(n, chans, k) = e
          /\ \A d \in Ran(chans) : Other(n, d) = k => d = e
      BY <3>1, <3>2, <3>3, <3>4
    <3> QED
      BY <2>1, <2>2, <2>3, <2>4, <3>5
  <2>5. CASE ~Has(n, chans, k)
    <3>1. \A e \in Ran(chans) : Other(n, e) # k
      BY <2>5, HasRan
    <3> QED
      BY <2>1, <2>3, <2>5, <3>1
  <2> QED
    BY <2>4, <2>5
<1> QED
  BY <1>2, <1>3 DEF InOrder

LEMMA DropNothing ==
  ASSUME NEW n, NEW d \in Dropped(n, <<>>)
  PROVE  d = Nothing
<1>1. \A k : ~Has(n, <<>>, k)
  BY DEF Has
<1>2. Eofs(n, <<>>) = Nothing
  BY <1>1 DEF Eofs, PostEach, Nothing
<1> QED
  BY <1>2 DEF Dropped

-----------------------------------------------------------------------------
(* What a node that reads a message knows.                                 *)

(* s is how the variables are.                                             *)
Seen(s) ==
  /\ s.req = request
  /\ \A k \in Node, h \in Sign : Tk(s, k, h) = task[<<k, h>>]
  /\ \A k \in Node : s.act[k] = active[k]
  /\ \A d \in Chan : s.resp[d] = resp[d]
  /\ \A k \in Node : s.mail[k] = Ran(inbox[k])

LEMMA SeenNow == Seen(Now)
BY DEF Seen, Now, Tk

(* The message a node reads is the first of its channel.                   *)
FirstIn(s, n, m) ==
  m \in s.mail[n] /\ \A v \in s.mail[n] : v.c = m.c => v = m \/ Rank(m) < Rank(v)

LEMMA ReadFirst ==
  ASSUME NEW s, Seen(s), InOrder(inbox), NEW n \in Node, NEW i \in 1..Len(inbox[n]),
         Readable(n, i)
  PROVE  FirstIn(s, n, inbox[n][i])
<1>1. inbox[n][i] \in s.mail[n]
  BY DEF Seen, Ran
<1>2. ASSUME NEW v \in s.mail[n], v.c = inbox[n][i].c
      PROVE  v = inbox[n][i] \/ Rank(inbox[n][i]) < Rank(v)
  <2>1. PICK j \in 1..Len(inbox[n]) : v = inbox[n][j]
    BY DEF Seen, Ran
  <2>2. Len(inbox[n]) \in Nat
    BY DEF InOrder, Boxes
  <2>3. ~(j < i)
    BY <1>2, <2>1, <2>2 DEF Readable
  <2>4. i < j \/ i = j
    BY <2>2, <2>3
  <2>5. i < j => May(inbox[n][i], inbox[n][j])
    BY NotBefore
  <2> QED
    BY <1>2, <2>1, <2>4, <2>5 DEF May
<1> QED
  BY <1>1, <1>2 DEF FirstIn

(* Is someone at n waiting for v?                                          *)
AwaitedIn(s, n, v) ==
  \/ \E g \in Sign : Tk(s, n, g).wait = v.c
  \/ n = v.c.b /\ \/ s.resp[v.c] \in {"none", "level", "payload"}
                  \/ s.resp[v.c] = "hold" /\ v.kind = "eof"

LEMMA AwaitedSeen ==
  ASSUME NEW s, Seen(s), NEW n \in Node, NEW v, v.c \in Chan
  PROVE  AwaitedIn(s, n, v) <=> Awaited(n, v)
BY DEF Seen, Awaited, AwaitedIn

(* No message that could be read is before the one that is.                *)
Turn1(s, n, m) ==
  /\ FirstIn(s, n, m)
  /\ \A v \in s.mail[n] :
       AwaitedIn(s, n, v) /\ (\A w \in s.mail[n] : w.c = v.c => w = v \/ ~May(w, v))
         => v = m \/ May(m, v)

LEMMA ReadBefore ==
  ASSUME NEW s, Seen(s), InOrder(inbox), "order" \in Timing,
         NEW n \in Node, NEW i \in 1..Len(inbox[n]), Next1(n, i),
         NEW v \in s.mail[n], v.c \in Chan, AwaitedIn(s, n, v),
         \A w \in s.mail[n] : w.c = v.c => w = v \/ ~May(w, v)
  PROVE  v = inbox[n][i] \/ May(inbox[n][i], v)
<1>1. PICK j \in 1..Len(inbox[n]) : v = inbox[n][j]
  BY DEF Seen, Ran
<1>2. Len(inbox[n]) \in Nat
  BY DEF InOrder, Boxes
<1>3. ASSUME NEW l \in 1..(j - 1) PROVE inbox[n][l].c # v.c
  <2>1. l \in 1..Len(inbox[n]) /\ l < j
    BY <1>2
  <2>2. May(inbox[n][l], inbox[n][j]) /\ inbox[n][l] # inbox[n][j]
    BY <2>1, NotBefore
  <2>3. inbox[n][l] \in s.mail[n]
    BY <2>1 DEF Seen, Ran
  <2> QED
    BY <1>1, <2>2, <2>3
<1>4. Readable(n, j)
  <2>1. Awaited(n, inbox[n][j])
    BY <1>1, AwaitedSeen
  <2> QED
    BY <1>1, <1>3, <2>1 DEF Readable
<1>5. ~(j < i)
  <2>1. \A l \in 1..(i - 1) : ~Readable(n, l)
    BY DEF Next1
  <2>2. j < i => j \in 1..(i - 1)
    BY <1>2
  <2> QED
    BY <1>4, <2>1, <2>2
<1>6. i < j \/ i = j
  BY <1>2, <1>5
<1>7. i < j => May(inbox[n][i], inbox[n][j])
  BY NotBefore
<1> QED
  BY <1>1, <1>6, <1>7

LEMMA ReadTurn ==
  ASSUME NEW s, Mesh(s), Seen(s), InOrder(inbox), "order" \in Timing,
         NEW n \in Node, NEW i \in 1..Len(inbox[n]), Next1(n, i)
  PROVE  Turn1(s, n, inbox[n][i])
<1>1. FirstIn(s, n, inbox[n][i])
  BY ReadFirst DEF Next1
<1>2. \A v \in s.mail[n] : v.c \in Chan
  BY AtMail
<1> QED
  BY <1>1, <1>2, ReadBefore DEF Turn1

-----------------------------------------------------------------------------
(* The kinds of the messages that are read.                                *)

(* The node that connects gets the x coordinate.                           *)
LEMMA ConnectKind ==
  ASSUME NEW s, Mesh(s), NEW n \in Node, NEW g \in Sign, Tk(s, n, g).pc = "connect",
         NEW m \in s.mail[n], m.c = Tk(s, n, g).wait
  PROVE  m.kind = "x" /\ m.c.a = n /\ m.c.g = g /\ m.c \in Chan /\ Link(s, m.c)
         /\ ~Opened(s, m.c) /\ ~Settled(s, g)
<1> DEFINE c == m.c
<1>1. Sound(s, n, m) /\ c \in Chan /\ Link(s, c)
  BY AtMail
<1>2. c # NoChan
  BY <1>1, NotAChannel
<1>3. ConnectJ(s.req[g], n, g, Tk(s, n, g)) /\ ~Settled(s, g)
  BY AtTask
<1>4. c.a = n /\ c.g = g
  BY <1>2, <1>3 DEF ConnectJ
<1>5. Waited(s, c)
  BY <1>4 DEF Waited
<1>6. ~Opened(s, c)
  BY <1>1, <1>5, NotBoth
<1>7. m.kind \in {"hello", "x"}
  BY <1>6, NotOpened
<1>8. c.b # n
  BY <1>1, <1>4, ChanFields
<1> QED
  BY <1>1, <1>3, <1>4, <1>6, <1>7, <1>8 DEF Sound

(* A node has no channel to another that it is not linked to.              *)
LEMMA NotHeld ==
  ASSUME NEW s, Mesh(s), NEW n \in Node, NEW c \in Chan, Link(s, c), n \in {c.a, c.b},
         ~Settled(s, c.g), NEW d \in Ran(s.act[n]), Other(n, d) = Other(n, c)
  PROVE  d = c
<1>1. Dictionary(n, s.act[n]) /\ Ran(s.act[n]) \subseteq Chan
  <2>1. Dictionary(n, s.act[n])
    BY AtDictionary
  <2> QED
    BY <2>1, RanType DEF Dictionary
<1>2. d \in Chan /\ Holds(s, n, d)
  BY <1>1, AtDictionary
<1>3. Link(s, d) /\ ~Settled(s, d.g) /\ Called(s, d.g) /\ n \in {d.a, d.b}
  BY <1>2, HeldActive
<1>4. d.g = c.g
  <2>1. d.g \in Sign /\ c.g \in Sign /\ Called(s, c.g)
    BY <1>2, ChanFields DEF Link
  <2> QED
    BY <1>3, <2>1, OneActive
<1>5. {d.a, d.b} = {c.a, c.b}
  BY <1>2, <1>3, ChanFields DEF Other
<1> QED
  BY <1>2, <1>3, <1>4, <1>5, OneLink

(* The main node gets the acknowledgement it waits for.                    *)
LEMMA AckKind ==
  ASSUME NEW s, Mesh(s), NEW n \in Node, NEW g \in Sign, Tk(s, n, g).pc = "ack",
         NEW m, FirstIn(s, n, m), m.c = Tk(s, n, g).wait
  PROVE  m.kind = "ack" /\ m.c \in Chan /\ Link(s, m.c)
<1> DEFINE c == m.c
           t == Tk(s, n, g)
           q == s.req[g]
<1>1. m \in s.mail[n]
  BY DEF FirstIn
<1>2. Sound(s, n, m) /\ c \in Chan /\ Link(s, c) /\ m \in Message /\ n \in {c.a, c.b}
  BY <1>1, AtMail
<1>3. c # NoChan
  BY <1>2, NotAChannel
<1>4. TaskJ(q, n, g, t) /\ MainJ(q, g, t) /\ AckJ(s, g) /\ Called(s, g) /\ n = q.main
  BY AtTask DEF TaskJ
<1>5. t.pc = "ack" /\ t.wait = c /\ t.round = 0
  BY <1>4 DEF TaskJ
<1> HIDE DEF t
<1>6. c.a = n /\ c.g = g
  BY <1>3, <1>4, <1>5 DEF MainJ
<1>7. c.b # n /\ c.b \in Node /\ s.req[c.g].main = n
  BY <1>2, <1>4, <1>6, ChanFields
<1>8. m.kind \in Kinds
  BY <1>2 DEF Message
<1>9. m.kind \in {"x", "ack", "share", "eof"}
  BY <1>2, <1>7, <1>8 DEF Sound, Kinds
<1>10. m.kind # "x"
  <2>1. ~Waited(s, c)
    BY <1>5, <1>6 DEF Waited, t
  <2> QED
    BY <1>2, <2>1 DEF Sound
<1>11. m.kind # "eof"
  <2> SUFFICES ASSUME m.kind = "eof" PROVE FALSE
    OBVIOUS
  <2>1. n \in s.req[c.g].nodes
    BY <1>4, <1>6, Request
  <2>2. t.round = Rounds
    BY <1>1, <1>6, <2>1, EofAll DEF t
  <2> QED
    BY <1>5, <2>2, BoundAssumption
<1>12. m.kind # "share"
  <2> SUFFICES ASSUME m.kind = "share" PROVE FALSE
    OBVIOUS
  <2>1. Other(n, c) = c.b
    BY <1>6 DEF Other
  <2>2. Tk(s, c.b, g).pc \in Rounding /\ m.round \in 1..Rounds
    BY <1>1, <1>6, <2>1, ShareFrom
  <2>3. PICK v \in s.mail[n] : v.c = c /\ v.kind = "ack"
    BY <1>3, <1>4, <1>5, <2>2 DEF AckJ, t
  <2>4. Rank(m) < Rank(v)
    BY <2>3 DEF FirstIn
  <2>5. Rank(v) = 2 /\ Rank(m) = 2 + m.round
    BY <2>3 DEF Rank
  <2> QED
    BY <2>2, <2>4, <2>5, BoundAssumption
<1> QED
  BY <1>2, <1>9, <1>10, <1>11, <1>12

(* In a round, there are only shares and ends of file on the channels.     *)
LEMMA RoundKinds ==
  ASSUME NEW s, Mesh(s), NEW n \in Node, NEW g \in Sign, Tk(s, n, g).pc = "share",
         NEW m \in s.mail[n], m.c \in Ran(s.act[n])
  PROVE  m.kind \in {"share", "eof"} /\ Link(s, m.c) /\ Touches(m.c, n, g)
<1> DEFINE c == m.c
<1>1. Sound(s, n, m) /\ c \in Chan /\ Link(s, c) /\ m \in Message /\ n \in {c.a, c.b}
  BY AtMail
<1>2. Holds(s, n, c)
  BY <1>1, AtDictionary
<1>3. Opened(s, c)
  BY <1>1, <1>2, HeldActive
<1>4. ~Waited(s, c)
  BY <1>1, <1>3, NotBoth
<1>5. Link(s, c) /\ Touches(c, n, g)
  <2>1. Through(Tk(s, n, g))
    BY DEF Through
  <2> QED
    BY <1>1, <2>1, Neighbours
<1>6. m.kind \in Kinds /\ c.a # c.b
  BY <1>1, ChanFields DEF Message
<1>7. m.kind \notin {"hello", "x"}
  BY <1>1, <1>4 DEF Sound
<1>8. m.kind \notin {"level0", "level1"}
  BY <1>1, <1>2, <1>6 DEF Sound, Holds
<1>9. m.kind # "payload"
  BY <1>1, <1>5, <1>6 DEF Sound, Touches
<1>10. m.kind # "ack"
  BY <1>1, <1>5 DEF Sound, Touches
<1> QED
  BY <1>5, <1>6, <1>7, <1>8, <1>9, <1>10 DEF Kinds

(* The share that a node in a round waits for is the first of its channel. *)
LEMMA RoundWaits ==
  ASSUME NEW s, Mesh(s), NEW n \in Node, NEW g \in Sign, Tk(s, n, g).pc = "share",
         NEW c, c = Tk(s, n, g).wait, c # NoChan
  PROVE  /\ c \in Chan /\ c \in Ran(s.act[n]) /\ Link(s, c) /\ Touches(c, n, g)
         /\ Tk(s, n, g).round \in 1..Rounds
         /\ Read(Tk(s, n, g), c) = Tk(s, n, g).round - 1
         /\ Tk(s, n, g).round <= Tk(s, Other(n, c), g).round =>
              \E v \in s.mail[n] : /\ v.c = c /\ v.kind = "share" /\ v.round = Tk(s, n, g).round
                                   /\ FirstIn(s, n, v)
<1> DEFINE o == Tk(s, n, g)
           act == s.act[n]
<1>1. o.pc = "share" /\ o.wait = c /\ ShareJ(o, act)
  BY AtTask
<1>2. Dictionary(n, act) /\ act \in Seq(Chan) /\ Len(act) \in Nat
  BY AtDictionary DEF Dictionary
<1>3. /\ o.round \in 1..Rounds /\ o.members = act /\ o.at \in 1..(Len(act) + 1)
      /\ o.wait = IF o.at <= Len(act) THEN act[o.at] ELSE NoChan
  BY <1>1 DEF ShareJ
<1>t. Through(o)
  BY DEF Through
<1> HIDE DEF o, act
<1>4. o.at \in 1..Len(act) /\ act[o.at] = c
  BY <1>1, <1>2, <1>3
<1>5. c \in Ran(act) /\ c \in Chan
  BY <1>2, <1>4 DEF Ran
<1>6. Link(s, c) /\ Touches(c, n, g)
  BY <1>5, <1>t, Neighbours DEF act, o
<1>7. \A i, j \in 1..Len(act) : act[i] = act[j] => i = j
  BY <1>2 DEF Dictionary
<1>8. Read(o, c) = o.round - 1
  <2>1. ~\E i \in 1..Len(act) : i < o.at /\ act[i] = c
    BY <1>2, <1>4, <1>7
  <2> QED
    BY <1>1, <1>3, <2>1 DEF Read, Over
<1>9. ASSUME o.round <= Tk(s, Other(n, c), g).round
      PROVE  \E v \in s.mail[n] : v.c = c /\ v.kind = "share" /\ v.round = o.round /\ FirstIn(s, n, v)
  <2>1. SharesJ(s, c) /\ c.g = g /\ n \in {c.a, c.b}
    BY <1>5, <1>6, AtLink DEF Touches
  <2>2. o.round - 1 < o.round
    BY <1>3
  <2>3. PICK v \in s.mail[n] : v.c = c /\ v.kind = "share" /\ v.round = o.round
    BY <1>3, <1>8, <1>9, <2>1, <2>2 DEF SharesJ, o
  <2>4. ASSUME NEW w \in s.mail[n], w.c = c PROVE w = v \/ Rank(v) < Rank(w)
    <3>1. w.kind \in {"share", "eof"}
      BY <1>1, <1>5, <2>4, RoundKinds DEF act, o
    <3>2. Rank(v) = 2 + o.round
      BY <2>3 DEF Rank
    <3>3. CASE w.kind = "eof"
      <4>1. Rank(w) = 3 + Rounds
        BY <3>3 DEF Rank
      <4> QED
        BY <1>3, <3>2, <4>1, BoundAssumption
    <3>4. CASE w.kind = "share"
      <4>1. Rank(w) = 2 + w.round
        BY <3>4 DEF Rank
      <4>2. w.round \in 1..Rounds /\ Read(Tk(s, n, w.c.g), w.c) < w.round
        BY <3>4, ShareFrom
      <4>3. o.round - 1 < w.round
        BY <1>8, <2>1, <2>4, <4>2 DEF o
      <4>4. w.round = o.round => w = v
        <5>1. Alone(w, v)
          BY AtMail
        <5> QED
          BY <2>3, <2>4, <3>4, <5>1 DEF Alone
      <4>5. w.round = o.round \/ o.round < w.round
        BY <1>3, <4>2, <4>3, BoundAssumption
      <4> QED
        BY <1>3, <3>2, <4>1, <4>2, <4>4, <4>5, BoundAssumption
    <3> QED
      BY <3>1, <3>3, <3>4
  <2>5. FirstIn(s, n, v)
    BY <2>3, <2>4 DEF FirstIn
  <2> QED
    BY <2>3, <2>5
<1> QED
  BY <1>3, <1>5, <1>6, <1>8, <1>9 DEF o, act

(* It is the message that the node gets.                                   *)
LEMMA ShareKind ==
  ASSUME NEW s, Mesh(s), NEW n \in Node, NEW g \in Sign, Tk(s, n, g).pc = "share",
         NEW m, FirstIn(s, n, m), m.c = Tk(s, n, g).wait
  PROVE  m.kind = "share" /\ m.round = Tk(s, n, g).round
<1> DEFINE o == Tk(s, n, g)
           c == m.c
<1>1. m \in s.mail[n]
  BY DEF FirstIn
<1>2. c \in Chan /\ c # NoChan /\ m \in Message
  BY <1>1, AtMail, NotAChannel
<1>3. /\ c \in Ran(s.act[n]) /\ Link(s, c) /\ Touches(c, n, g)
      /\ o.round \in 1..Rounds /\ Read(o, c) = o.round - 1
      /\ o.round <= Tk(s, Other(n, c), g).round =>
           \E v \in s.mail[n] : v.c = c /\ v.kind = "share" /\ v.round = o.round /\ FirstIn(s, n, v)
  BY <1>2, RoundWaits
<1>4. m.kind \in {"share", "eof"} /\ c.g = g /\ n \in {c.a, c.b}
  BY <1>1, <1>3, RoundKinds DEF Touches
<1>o. o = Tk(s, n, g)
  OBVIOUS
<1> HIDE DEF o
<1>5. o.round <= Tk(s, Other(n, c), g).round
  <2>1. CASE m.kind = "share"
    <3>1. m.round \in 1..Rounds /\ Read(o, c) < m.round /\ m.round <= Tk(s, Other(n, c), g).round
      BY <1>1, <1>4, <1>o, <2>1, ShareFrom
    <3>2. Tk(s, Other(n, c), g).round \in 0..Rounds
      BY <1>2, <1>4, ChanFields, ReadIs DEF Other
    <3> QED
      BY <1>3, <3>1, <3>2, BoundAssumption
  <2>2. CASE m.kind = "eof"
    <3>1. Other(n, c) \in s.req[g].nodes
      BY <1>2, <1>3, <1>4, LinkIs, Request DEF Other
    <3>2. Tk(s, Other(n, c), g).round = Rounds
      BY <1>1, <1>4, <2>2, <3>1, EofAll
    <3> QED
      BY <1>3, <3>2, BoundAssumption
  <2> QED
    BY <1>4, <2>1, <2>2
<1>6. PICK v \in s.mail[n] : v.c = c /\ v.kind = "share" /\ v.round = o.round /\ FirstIn(s, n, v)
  BY <1>3, <1>5
<1>7. m = v
  <2>1. v = m \/ (Rank(m) < Rank(v) /\ Rank(v) < Rank(m))
    BY <1>1, <1>6 DEF FirstIn
  <2>2. v \in Message
    BY <1>6, AtMail
  <2>3. Rank(v) \in Nat /\ Rank(m) \in Nat
    BY <1>2, <2>2, RankIs
  <2> QED
    BY <2>1, <2>3
<1> QED
  BY <1>6, <1>7, <1>o

(* A channel that waits for its level gets it.                             *)
LEMMA LevelKind ==
  ASSUME NEW s, Mesh(s), NEW c \in Chan, s.resp[c] = "level",
         NEW m, FirstIn(s, c.b, m), m.c = c
  PROVE  m.kind \in {"level0", "level1"} /\ Opened(s, c) /\ Link(s, c)
<1>0. c.a \in Node /\ c.b \in Node /\ c.a # c.b
  BY ChanFields
<1>1. m \in s.mail[c.b]
  BY DEF FirstIn
<1>2. Sound(s, c.b, m) /\ Link(s, c) /\ m \in Message
  BY <1>0, <1>1, AtMail
<1>3. m.kind \notin {"hello", "x"}
  BY <1>0, <1>2 DEF Sound
<1>4. Opened(s, c)
  BY <1>0, <1>1, <1>3, NotOpened
<1>5. PICK v \in s.mail[c.b] : v.c = c /\ v.kind \in {"level0", "level1"}
  BY <1>2, <1>4, AtLink DEF LevelJ
<1>6. v = m \/ Rank(m) < Rank(v)
  BY <1>5 DEF FirstIn
<1>7. Rank(v) = 1
  BY <1>5 DEF Rank
<1>8. Rank(m) < 1 => m.kind \in {"hello", "x"}
  <2>1. m.round \in Nat /\ m.kind \in Kinds
    BY <1>2, BoundAssumption DEF Message
  <2> QED
    BY <2>1, BoundAssumption DEF Rank, Kinds
<1> QED
  BY <1>2, <1>3, <1>4, <1>5, <1>6, <1>7, <1>8

(* A message of level 0 that is not read could be, if it is not the first. *)
LEMMA TopReadable ==
  ASSUME NEW s, Mesh(s), NEW k \in Node, NEW v \in s.mail[k], v.kind \in {"level0", "level1"},
         NEW w \in s.mail[k], w.c = v.c
  PROVE  w = v \/ ~May(w, v)
<1> SUFFICES ASSUME w # v, May(w, v) PROVE FALSE
  OBVIOUS
<1>1. /\ Sound(s, k, v) /\ Sound(s, k, w) /\ w \in Message /\ v.c \in Chan
      /\ Alone(w, v)
  BY AtMail
<1>2. v.c.a # v.c.b
  BY <1>1, ChanFields
<1>3. s.resp[v.c] = "level" /\ k = v.c.b
  BY <1>1 DEF Sound
<1>4. w.kind \notin {"hello", "x"}
  BY <1>1, <1>2, <1>3 DEF Sound
<1>5. Rank(v) = 1
  BY DEF Rank
<1>6. Rank(w) < 1
  BY <1>5 DEF May
<1>7. w.round \in Nat /\ w.kind \in Kinds
  BY <1>1, BoundAssumption DEF Message
<1> QED
  BY <1>4, <1>6, <1>7, BoundAssumption DEF Rank, Kinds

(* What is known of a command.                                             *)
CommandIs(s, g, q) ==
  /\ q = s.req[g] /\ Called(s, g)
  /\ CommandJ(q) /\ q.main # None /\ q.main \in Node /\ q.peers \in Seq(Node)
  /\ Injective(q.peers) /\ Ran(q.peers) \subseteq Node
  /\ q.nodes = {q.main} \cup Ran(q.peers) /\ q.main \notin Ran(q.peers)
  /\ MainJ(q, g, Tk(s, q.main, g)) /\ StageJ(s, g)

LEMMA LinkCommand ==
  ASSUME NEW s, Mesh(s), NEW g \in Sign, NEW c \in Chan, Link(s, c), c.g = g
  PROVE  \E q : /\ CommandIs(s, g, q)
                /\ c.a \in Node /\ c.b \in Node /\ c.a # c.b
                /\ c.a \in q.nodes /\ c.b \in Ran(q.peers) /\ c.b # q.main
                /\ Before(q, c.a, c.b)
                /\ c.a # q.main => c.a \in Ran(q.peers)
<1>1. PICK q : q = s.req[g]
  OBVIOUS
<1>2. /\ c.a \in q.nodes /\ c.b \in Ran(q.peers) /\ c.b # q.main /\ Called(s, g)
      /\ Before(q, c.a, c.b) /\ c.a # c.b /\ c.a \in Node /\ c.b \in Node
  BY <1>1, LinkIs, ChanFields
<1>3. /\ CommandJ(q) /\ q.main # None /\ q.main \in Node /\ q.peers \in Seq(Node)
      /\ Ran(q.peers) \subseteq Node /\ q.nodes = {q.main} \cup Ran(q.peers)
      /\ q.main \notin Ran(q.peers)
  BY <1>1, <1>2, Request
<1>4. Injective(q.peers)
  BY <1>3 DEF CommandJ
<1>5. MainJ(q, g, Tk(s, q.main, g)) /\ StageJ(s, g)
  BY <1>1, <1>2 DEF Mesh, TasksJ
<1>6. CommandIs(s, g, q)
  BY <1>1, <1>2, <1>3, <1>4, <1>5 DEF CommandIs
<1> QED
  BY <1>2, <1>3, <1>6

(* When a level 1 is read, the level 0 of the command has been.            *)
LEMMA TopOpened ==
  ASSUME NEW s, Mesh(s), NEW g \in Sign, NEW c \in Chan, Link(s, c), c.g = g,
         NEW q, CommandIs(s, g, q), c.a # q.main, c.a \in Ran(q.peers), c.b \in Ran(q.peers),
         Opened(s, c), NEW up \in Chan, up = Up(s, c.b, g)
  PROVE  Link(s, up) /\ Opened(s, up) /\ up.a = q.main /\ up.b = c.b /\ up.g = g
<1>0. c.a \in Node /\ c.b \in Node
  BY ChanFields
<1>1. up.a = q.main /\ up.b = c.b /\ up.g = g
  BY DEF Up, CommandIs
<1>2. q = s.req[g] /\ Called(s, g) /\ q.main \in Node /\ MainJ(q, g, Tk(s, q.main, g)) /\ StageJ(s, g)
  BY DEF CommandIs
<1>3. Before(q, q.main, c.b)
  BY DEF Before
<1>4. Link(s, up)
  BY <1>1, <1>2, <1>3 DEF Link
<1>5. Tk(s, c.a, g).pc # "idle"
  <2>1. TaskJ(q, c.a, g, Tk(s, c.a, g))
    BY <1>0, <1>2, AtTask
  <2>2. PICK o : o = Tk(s, c.a, g)
    OBVIOUS
  <2>3. c.b \in Reached(o) \/ o.pc \in Rounding
    BY <2>2 DEF Opened
  <2>4. o.pc = "idle" => o.opened = <<>>
    BY <2>1, <2>2 DEF TaskJ
  <2>5. Reached(o) # {} => o.opened # <<>>
    BY DEF Reached
  <2> QED
    BY <2>2, <2>3, <2>4, <2>5 DEF Rounding, Over
<1>6. PICK p : p = Tk(s, q.main, g)
  OBVIOUS
<1>7. p.pc # "connect"
  BY <1>2, <1>5, <1>6 DEF StageJ
<1>8. p.pc # "idle" /\ p.pc # "failed" /\ p \in Task /\ ReachJ(q, q.main, p)
  <2>1. TaskJ(q, q.main, g, p) /\ ReachJ(q, q.main, p) /\ p \in Task
    BY <1>2, <1>6, AtTask
  <2>2. p.pc # "idle"
    BY <1>2, <1>6 DEF MainJ
  <2> QED
    BY <2>1, <2>2 DEF TaskJ
<1>9. p.pc = "ack" => c.b \in Reached(p)
  BY <1>0, <1>3, <1>8 DEF ReachJ
<1>10. p.pc \in Rounding \/ p.pc = "ack"
  BY <1>7, <1>8 DEF Task, Ended, Rounding, Over
<1>11. Opened(s, up)
  BY <1>1, <1>6, <1>9, <1>10 DEF Opened
<1> QED
  BY <1>1, <1>4, <1>11

LEMMA TopRead ==
  ASSUME NEW s, Mesh(s), NEW n \in Node, NEW g \in Sign, NEW c \in Chan, c.b = n, c.g = g,
         NEW m, Turn1(s, n, m), m.c = c, m.kind = "level1"
  PROVE  s.resp[Up(s, n, g)] \notin {"none", "level"}
<1>1. FirstIn(s, n, m) /\ m \in s.mail[n]
  BY DEF Turn1, FirstIn
<1>2. Sound(s, n, m) /\ Link(s, c)
  BY <1>1, AtMail
<1>3. c.a # s.req[g].main /\ Opened(s, c)
  BY <1>2 DEF Sound
<1>4. PICK q : /\ CommandIs(s, g, q)
               /\ c.b \in Ran(q.peers)
               /\ c.a # q.main => c.a \in Ran(q.peers)
  BY <1>2, LinkCommand
<1>5. q = s.req[g]
  BY <1>4 DEF CommandIs
<1>6. Up(s, n, g) \in Chan
  BY <1>2, <1>3, UpChannel
<1>7. PICK up \in Chan : up = Up(s, n, g)
  BY <1>6
<1>8. Link(s, up) /\ Opened(s, up) /\ up.a = q.main /\ up.b = n /\ up.g = g
  BY <1>2, <1>3, <1>4, <1>5, <1>7, TopOpened
<1> SUFFICES ASSUME s.resp[up] \in {"none", "level"} PROVE FALSE
  BY <1>7
<1>9. ChannelJ(s, up) /\ LevelJ(s, up)
  BY <1>8, AtLink
<1>10. s.resp[up] = "level"
  BY <1>8, <1>9 DEF ChannelJ
<1>11. PICK v \in s.mail[n] : v.c = up /\ v.kind \in {"level0", "level1"}
  BY <1>8, <1>9, <1>10 DEF LevelJ
<1>12. v.kind = "level0"
  <2>1. Sound(s, n, v)
    BY AtMail
  <2> QED
    BY <1>5, <1>8, <1>11, <2>1 DEF Sound
<1>13. AwaitedIn(s, n, v)
  BY <1>8, <1>10, <1>11 DEF AwaitedIn
<1>14. \A w \in s.mail[n] : w.c = v.c => w = v \/ ~May(w, v)
  BY <1>11, TopReadable
<1>15. v = m \/ May(m, v)
  BY <1>13, <1>14 DEF Turn1
<1>16. v # m
  BY <1>12
<1> QED
  BY <1>12, <1>15, <1>16 DEF May

(* A channel that waits for the payload gets it, when the nodes before     *)
(* have given their channels a level, and this was read.                   *)
LEMMA PayloadKind ==
  ASSUME NEW s, Mesh(s), NEW n \in Node, NEW g \in Sign, NEW c \in Chan, c.b = n, c.g = g,
         s.resp[c] = "payload", NEW m \in s.mail[n], m.c = c
  PROVE  /\ m.kind = "payload" /\ Link(s, c) /\ c.a = s.req[g].main
         /\ Tk(s, n, g).pc = "idle" /\ Opened(s, c) /\ Called(s, g) /\ ~Settled(s, g)
<1>1. Sound(s, n, m) /\ Link(s, c) /\ m \in Message
  BY AtMail
<1>2. ChannelJ(s, c)
  BY AtLink
<1>3. c.a = s.req[g].main /\ Tk(s, n, g).pc = "idle" /\ Opened(s, c)
  BY <1>1, <1>2 DEF ChannelJ, Waiting
<1>4. ~Settled(s, g)
  BY DEF Settled
<1>5. PICK q : /\ CommandIs(s, g, q) /\ c.a \in Node /\ c.a # c.b
               /\ c.b \in Ran(q.peers)
  BY <1>1, LinkCommand
<1>6. Called(s, g) /\ q = s.req[g] /\ StageJ(s, g) /\ n \in s.req[g].nodes
  BY <1>5 DEF CommandIs
<1>7. m.kind \in Kinds
  BY <1>1 DEF Message
<1>8. m.kind \notin {"hello", "x", "level0", "level1", "ack"}
  <2>1. m.kind # "hello" /\ m.kind # "level0" /\ m.kind # "level1"
    BY <1>1 DEF Sound
  <2>2. m.kind # "x" /\ m.kind # "ack"
    BY <1>1, <1>5 DEF Sound
  <2> QED
    BY <2>1, <2>2
<1>9. Tk(s, n, g).round = 0
  <2>1. TaskJ(s.req[g], n, g, Tk(s, n, g))
    BY AtTask
  <2>2. PICK o : o = Tk(s, n, g)
    OBVIOUS
  <2> QED
    BY <1>3, <2>1, <2>2 DEF TaskJ
<1>10. m.kind # "eof"
  <2> SUFFICES ASSUME m.kind = "eof" PROVE FALSE
    OBVIOUS
  <2>1. Tk(s, n, g).round = Rounds
    BY <1>6, EofAll
  <2> QED
    BY <1>9, <2>1, BoundAssumption
<1>11. m.kind # "share"
  <2> SUFFICES ASSUME m.kind = "share" PROVE FALSE
    OBVIOUS
  <2>1. Other(n, c) = c.a
    BY <1>5 DEF Other
  <2>2. Tk(s, c.a, g).pc \in Rounding
    BY <2>1, ShareFrom
  <2>3. Tk(s, n, g).pc \in Rounding
    BY <1>3, <1>5, <1>6, <2>2 DEF StageJ
  <2> QED
    BY <1>3, <2>3 DEF Rounding, Over
<1> QED
  BY <1>1, <1>3, <1>4, <1>6, <1>7, <1>8, <1>10, <1>11 DEF Kinds

(* The nodes before the one that is asked have begun.                      *)
LEMMA BeforeBegun ==
  ASSUME NEW s, Mesh(s), NEW g \in Sign, NEW q, CommandIs(s, g, q),
         Tk(s, q.main, g).pc = "ack", NEW n, Tk(s, q.main, g).wait = [a |-> q.main, b |-> n, g |-> g],
         NEW b \in Ran(q.peers), Before(q, b, n)
  PROVE  Tk(s, b, g).pc \in Rounding
<1>1. PICK o : o = Tk(s, q.main, g)
  OBVIOUS
<1>2. MainJ(q, g, o) /\ StageJ(s, g) /\ q = s.req[g] /\ q.main \in Node
      /\ CommandJ(q) /\ q.main # None /\ q.peers \in Seq(Node) /\ Injective(q.peers)
  BY <1>1 DEF CommandIs
<1>3. o.wait # NoChan
  BY <1>1, <1>2, NoneAssumption DEF NoChan
<1>4. o.asked \in 1..Len(q.peers) /\ n = q.peers[o.asked]
  BY <1>1, <1>2, <1>3 DEF MainJ
<1>5. PICK k \in 1..Len(q.peers) : q.peers[k] = b
  BY DEF Ran
<1>6. PICK j \in 1..Len(q.peers) : k < j /\ q.peers[j] = n
  <2>1. Before(q, q.peers[k], n)
    BY <1>5
  <2> QED
    BY ONLY <1>2, <2>1, k \in 1..Len(q.peers), BeforeAt
<1>7. j = o.asked
  BY <1>2, <1>4, <1>6 DEF Injective
<1> QED
  BY <1>1, <1>2, <1>5, <1>6, <1>7 DEF StageJ

LEMMA BelowHeld ==
  ASSUME NEW s, Mesh(s), NEW n \in Node, NEW g \in Sign, NEW c \in Chan, c.b = n, c.g = g,
         NEW m, Turn1(s, n, m), m.c = c, s.resp[c] = "payload",
         NEW d \in Chan, Link(s, d), d.b = n, d.g = g, d # c
  PROVE  s.resp[d] = "hold"
<1>1. m \in s.mail[n]
  BY DEF Turn1, FirstIn
<1>2. /\ m.kind = "payload" /\ Link(s, c) /\ c.a = s.req[g].main
      /\ Tk(s, n, g).pc = "idle"
  BY <1>1, PayloadKind
<1>3. PICK q : /\ CommandIs(s, g, q) /\ d.a \in Node /\ d.a # d.b
               /\ Before(q, d.a, d.b)
               /\ d.a # q.main => d.a \in Ran(q.peers)
  BY LinkCommand
<1>4. q = s.req[g]
  BY <1>3 DEF CommandIs
<1>5. d.a # q.main
  BY <1>2, <1>4 DEF Chan
<1>6. Sound(s, n, m)
  BY <1>1, AtMail
<1>7. Tk(s, q.main, g).pc = "ack" /\ Tk(s, q.main, g).wait = c /\ c = [a |-> q.main, b |-> n, g |-> g]
  BY <1>2, <1>4, <1>6 DEF Sound, Chan
<1>8. Tk(s, d.a, g).pc \in Rounding
  BY <1>3, <1>5, <1>7, BeforeBegun
<1>9. Opened(s, d) /\ ChannelJ(s, d) /\ LevelJ(s, d) /\ SharesJ(s, d)
  BY <1>8, AtLink DEF Opened
<1>10. s.resp[d] \in {"level", "hold", "closed"}
  BY <1>4, <1>5, <1>9 DEF ChannelJ
<1>11. s.resp[d] # "closed"
  <2> SUFFICES ASSUME s.resp[d] = "closed" PROVE FALSE
    OBVIOUS
  <2>1. Tk(s, d.a, g).pc \in {"sleep2", "done"}
    BY <1>4, <1>5, <1>9 DEF ChannelJ
  <2>2. Read(Tk(s, d.a, g), d) = Rounds
    BY <2>1 DEF Read, Over
  <2>3. Other(d.a, d) = n
    BY DEF Other
  <2>4. Read(Tk(s, d.a, g), d) <= Tk(s, n, g).round
    BY <1>9, <2>3 DEF SharesJ
  <2>5. Tk(s, n, g).round = 0
    <3>1. TaskJ(s.req[g], n, g, Tk(s, n, g))
      BY AtTask
    <3>2. PICK o : o = Tk(s, n, g)
      OBVIOUS
    <3> QED
      BY <1>2, <3>1, <3>2 DEF TaskJ
  <2>6. Rounds <= 0
    BY <2>2, <2>4, <2>5
  <2> QED
    BY ONLY <2>6, BoundAssumption
<1>12. s.resp[d] # "level"
  <2> SUFFICES ASSUME s.resp[d] = "level" PROVE FALSE
    OBVIOUS
  <2>1. PICK v \in s.mail[n] : v.c = d /\ v.kind \in {"level0", "level1"}
    BY <1>9 DEF LevelJ
  <2>2. v.kind = "level1"
    <3>1. Sound(s, n, v)
      BY AtMail
    <3> QED
      BY <1>4, <1>5, <2>1, <3>1 DEF Sound
  <2>3. AwaitedIn(s, n, v)
    BY <2>1 DEF AwaitedIn
  <2>4. \A w \in s.mail[n] : w.c = v.c => w = v \/ ~May(w, v)
    BY <2>1, TopReadable
  <2>5. v = m \/ May(m, v)
    BY <2>3, <2>4 DEF Turn1
  <2> QED
    BY <1>2, <2>2, <2>5 DEF May
<1> QED
  BY <1>10, <1>11, <1>12

(* An end of file is read by a node that is not in a round any more.       *)
LEMMA EofAfter ==
  ASSUME NEW s, Mesh(s), NEW n \in Node, NEW g \in Sign,
         Tk(s, n, g).pc = "share" => Tk(s, n, g).wait # NoChan,
         NEW m, Turn1(s, n, m), m.c.g = g, m.kind = "eof"
  PROVE  Tk(s, n, g).pc # "share"
<1> SUFFICES ASSUME Tk(s, n, g).pc = "share" PROVE FALSE
  OBVIOUS
<1>1. m \in s.mail[n]
  BY DEF Turn1, FirstIn
<1>2. PICK w : w = Tk(s, n, g).wait
  OBVIOUS
<1>3. PICK r : r = Tk(s, n, g).round
  OBVIOUS
<1>4. /\ w \in Chan /\ Link(s, w) /\ Touches(w, n, g) /\ r \in 1..Rounds
      /\ r <= Tk(s, Other(n, w), g).round =>
              \E v \in s.mail[n] : v.c = w /\ v.kind = "share" /\ v.round = r /\ FirstIn(s, n, v)
  BY <1>2, <1>3, RoundWaits
<1>5. w.g = g /\ Other(n, w) \in s.req[g].nodes
  <2>1. w.g = g /\ n \in {w.a, w.b}
    BY <1>4 DEF Touches
  <2>2. PICK q : CommandIs(s, g, q) /\ w.a \in q.nodes /\ w.b \in Ran(q.peers)
    BY <1>4, <2>1, LinkCommand
  <2> QED
    BY <2>1, <2>2 DEF CommandIs, Other
<1>6. Tk(s, Other(n, w), g).round = Rounds
  BY <1>1, <1>5, EofAll
<1>7. r <= Rounds
  BY <1>4, BoundAssumption
<1>8. PICK v \in s.mail[n] : v.c = w /\ v.kind = "share" /\ FirstIn(s, n, v)
  BY <1>4, <1>6, <1>7
<1>9. AwaitedIn(s, n, v)
  BY <1>2, <1>8 DEF AwaitedIn
<1>10. \A x \in s.mail[n] : x.c = v.c => x = v \/ ~May(x, v)
  <2> SUFFICES ASSUME NEW x \in s.mail[n], x.c = v.c, x # v, May(x, v) PROVE FALSE
    OBVIOUS
  <2>1. Rank(v) < Rank(x) /\ Rank(x) < Rank(v)
    BY <1>8 DEF FirstIn, May
  <2>2. x \in Message /\ v \in Message
    BY AtMail
  <2>3. Rank(v) \in Nat /\ Rank(x) \in Nat
    BY <2>2, RankIs
  <2> QED
    BY ONLY <2>1, <2>3
<1>11. v = m \/ May(m, v)
  BY <1>9, <1>10 DEF Turn1
<1> QED
  BY <1>5, <1>8, <1>11 DEF May

(* When no task runs and nothing can be read, every command is settled.    *)
LEMMA QuietSettled ==
  ASSUME NEW s, Mesh(s),
         \A k \in Node, h \in Sign : Tk(s, k, h).pc \in {"idle", "done"},
         \A k \in Node : \A v \in s.mail[k] : AwaitedIn(s, k, v) =>
           \E w \in s.mail[k] : w.c = v.c /\ w # v /\ May(w, v),
         NEW g \in Sign, Called(s, g)
  PROVE  Settled(s, g)
<1> SUFFICES ASSUME NEW c \in Chan, c.g = g, s.resp[c] \notin {"none", "closed"} PROVE FALSE
  BY DEF Settled
<1>1. ChannelJ(s, c) /\ Link(s, c)
  BY AtLink DEF ChannelJ
<1>2. PICK q : /\ CommandIs(s, g, q)
               /\ c.a \in Node /\ c.b \in Node /\ c.a # c.b
               /\ c.a \in q.nodes /\ c.b \in Ran(q.peers)
  BY <1>1, LinkCommand
<1>3. q = s.req[g] /\ q.main \in Node /\ MainJ(q, g, Tk(s, q.main, g)) /\ StageJ(s, g)
      /\ q.nodes = {q.main} \cup Ran(q.peers)
  BY <1>2 DEF CommandIs
<1>4. Tk(s, q.main, g).pc = "done"
  BY <1>3 DEF MainJ
<1>5. \A b \in Ran(q.peers) : Tk(s, b, g).pc \in Rounding
  BY <1>3, <1>4 DEF StageJ, Rounding, Over
<1>6. Tk(s, c.b, g).pc = "done"
  BY <1>2, <1>5 DEF Rounding, Over
<1>7. Tk(s, c.a, g).pc = "done"
  BY <1>2, <1>3, <1>4, <1>5 DEF Rounding, Over
<1>8. c.a # q.main
  BY <1>1, <1>3, <1>6 DEF ChannelJ
<1>9. s.resp[c] = "hold"
  BY <1>1, <1>3, <1>6, <1>8 DEF ChannelJ
<1>10. PICK v \in s.mail[c.b] : v.c = c /\ v.kind = "eof"
  BY <1>1, <1>7, <1>9, AtLink DEF EofJ
<1>11. AwaitedIn(s, c.b, v)
  BY <1>9, <1>10 DEF AwaitedIn
<1>12. PICK w \in s.mail[c.b] : w.c = c /\ w # v /\ May(w, v)
  BY <1>2, <1>10, <1>11
<1>13. Sound(s, c.b, w) /\ w \in Message /\ Alone(w, v)
  BY <1>2, <1>10, <1>12, AtMail
<1>14. w.kind \in Kinds
  BY <1>13 DEF Message
<1>15. w.kind # "eof"
  BY <1>10, <1>12, <1>13 DEF Alone
<1>16. w.kind \notin {"hello", "x", "level0", "level1"}
  <2>1. w.kind # "x"
    BY <1>2, <1>12, <1>13 DEF Sound
  <2> QED
    BY <1>9, <1>12, <1>13, <2>1 DEF Sound
<1>17. w.kind \notin {"payload", "ack"}
  BY <1>3, <1>4, <1>12, <1>13 DEF Sound
<1>18. w.kind # "share"
  <2> SUFFICES ASSUME w.kind = "share" PROVE FALSE
    OBVIOUS
  <2>1. w.round \in 1..Rounds /\ Read(Tk(s, c.b, g), c) < w.round
    BY <1>2, <1>12, ShareFrom
  <2>2. Read(Tk(s, c.b, g), c) = Rounds
    BY <1>6 DEF Read, Over
  <2>3. Rounds < w.round
    BY <2>1, <2>2
  <2> QED
    BY ONLY <2>1, <2>3, BoundAssumption
<1> QED
  BY <1>14, <1>15, <1>16, <1>17, <1>18 DEF Kinds

(* So it is when nothing goes on at the nodes.                             *)
LEMMA RestSettled ==
  ASSUME NEW s, Mesh(s), Seen(s), InOrder(inbox), ~Busy, NEW g \in Sign, Called(s, g)
  PROVE  Settled(s, g)
<1>1. ASSUME NEW k \in Node, NEW h \in Sign PROVE Tk(s, k, h).pc \in {"idle", "done"}
  <2>1. PICK t : t = Tk(s, k, h)
    OBVIOUS
  <2>2. task[<<k, h>>] = t
    BY <2>1 DEF Seen
  <2>3. ~Running(k, h)
    BY DEF Busy
  <2>4. TaskJ(s.req[h], k, h, t)
    BY <2>1, AtTask
  <2> QED
    BY <2>1, <2>2, <2>3, <2>4 DEF Running, Ended, TaskJ
<1>2. ASSUME NEW k \in Node, NEW v \in s.mail[k], AwaitedIn(s, k, v)
      PROVE  \E w \in s.mail[k] : w.c = v.c /\ w # v /\ May(w, v)
  <2>1. PICK j \in 1..Len(inbox[k]) : v = inbox[k][j]
    BY DEF Seen, Ran
  <2>2. Len(inbox[k]) \in Nat
    BY DEF InOrder, Boxes
  <2>3. Awaited(k, inbox[k][j])
    BY <1>2, <2>1, AtMail, AwaitedSeen
  <2>4. ~Readable(k, j)
    BY DEF Busy
  <2>5. PICK l \in 1..(j - 1) : inbox[k][l].c = v.c
    BY <2>1, <2>3, <2>4 DEF Readable
  <2>6. l \in 1..Len(inbox[k]) /\ l < j
    BY <2>2
  <2>7. May(inbox[k][l], inbox[k][j]) /\ inbox[k][l] # inbox[k][j]
    BY <2>6, NotBefore
  <2>8. inbox[k][l] \in s.mail[k]
    BY <2>6 DEF Seen, Ran
  <2> QED
    BY <2>1, <2>5, <2>7, <2>8
<1> QED
  BY <1>1, <1>2, QuietSettled

-----------------------------------------------------------------------------
(* An end that is closed gets nothing; that to which a step sends is not.  *)
ClosedIn(s, k, c) ==
  \/ k = c.b /\ s.resp[c] = "closed"
  \/ k = c.a /\ Tk(s, k, c.g).pc \in {"sleep2", "done"}

LEMMA OpenEnd ==
  ASSUME NEW u, Mesh(u), NEW k \in Node, NEW v \in u.mail[k],
         v.kind \in {"hello", "x", "level0", "level1", "payload", "ack"}
  PROVE  ~ClosedIn(u, k, v.c)
<1>1. Sound(u, k, v) /\ v.c \in Chan /\ Link(u, v.c)
  BY AtMail
<1>2. PICK c \in Chan : c = v.c
  BY <1>1
<1>3. c.a # c.b /\ c.b \in Node /\ c.g \in Sign /\ ChannelJ(u, c)
  BY AtLink
<1>4. CASE v.kind \in {"hello", "level0", "level1"}
  BY <1>1, <1>2, <1>3, <1>4 DEF Sound, ClosedIn
<1>5. CASE v.kind = "x"
  BY <1>1, <1>2, <1>3, <1>5 DEF Sound, ClosedIn, Waited
<1>6. CASE v.kind = "payload"
  <2>1. c.a = u.req[c.g].main /\ Tk(u, c.b, c.g).pc = "idle" /\ k = c.b
    BY <1>1, <1>2, <1>6 DEF Sound
  <2>2. u.resp[c] # "closed"
    BY <1>1, <1>2, <1>3, <2>1 DEF ChannelJ
  <2> QED
    BY <1>2, <1>3, <2>1, <2>2 DEF ClosedIn
<1>7. CASE v.kind = "ack"
  <2>1. c.a = u.req[c.g].main /\ Tk(u, c.a, c.g).pc = "ack" /\ k = c.a
    BY <1>1, <1>2, <1>7 DEF Sound
  <2> QED
    BY <1>2, <1>3, <2>1 DEF ClosedIn
<1> QED
  BY <1>4, <1>5, <1>6, <1>7

(* Between two states no end closes.                                       *)
OpenSame(s, u, k, c) == ClosedIn(s, k, c) => ClosedIn(u, k, c)

LEMMA MoveOpen ==
  ASSUME NEW s, NEW u, NEW n \in Node, NEW g \in Sign, NEW t, NEW act, NEW x, NEW r,
         NEW gone, NEW new, Move(s, u, n, g, t, act, x, r, gone, new),
         Tk(s, n, g).pc \in {"sleep2", "done"} => t.pc \in {"sleep2", "done"},
         x \in Chan => s.resp[x] # "closed" \/ r = "closed",
         NEW k \in Node, NEW c \in Chan
  PROVE  OpenSame(s, u, k, c)
<1>1. c.g \in Sign
  BY ChanFields
<1>2. Tk(u, k, c.g) = IF k = n /\ c.g = g THEN t ELSE Tk(s, k, c.g)
  BY <1>1 DEF Move
<1>3. u.resp[c] = IF c = x THEN r ELSE s.resp[c]
  BY DEF Move
<1> QED
  BY <1>2, <1>3 DEF OpenSame, ClosedIn

LEMMA OpenSent ==
  ASSUME NEW s, NEW u, Mesh(u), NEW k \in Node, NEW v \in u.mail[k], NEW c \in Chan, v.c = c,
         v.kind \in {"hello", "x", "level0", "level1", "payload", "ack"}, OpenSame(s, u, k, c)
  PROVE  ~ClosedIn(s, k, c)
BY OpenEnd DEF OpenSame

-----------------------------------------------------------------------------
(* The invariant of the variables, and how a step keeps it.                *)

(* The invariant, when no node stops.                                      *)
Joint == down = {} /\ Mesh(Now) /\ InOrder(inbox)

(* s: the state that a step of n for g has reached, all but gone of whose  *)
(* messages are in box.                                                    *)
Standing(s, n, g, box, gone) ==
  /\ Mesh(s) /\ down = {} /\ s.req = request
  /\ \A k \in Node, h \in Sign : ~(k = n /\ h = g) => Tk(s, k, h) = task[<<k, h>>]
  /\ \A k \in Node : k # n => s.act[k] = active[k]
  /\ InOrder(box) /\ \A k \in Node : s.mail[k] \ gone[k] = Ran(box[k])
  /\ task[<<n, g>>].pc \notin {"sleep2", "done"}
  /\ \A d \in Chan : resp[d] = "closed" => s.resp[d] = "closed"

LEMMA StandClosed ==
  ASSUME NEW s, NEW n, NEW g, NEW box, NEW gone, Standing(s, n, g, box, gone),
         NEW k \in Node, NEW c \in Chan, ~ClosedIn(s, k, c)
  PROVE  ~Closed(k, c)
<1>1. c.g \in Sign
  BY ChanFields
<1>2. /\ down = {}
      /\ ~(k = n /\ c.g = g) => Tk(s, k, c.g) = task[<<k, c.g>>]
      /\ task[<<n, g>>].pc \notin {"sleep2", "done"}
      /\ resp[c] = "closed" => s.resp[c] = "closed"
  BY <1>1 DEF Standing
<1> QED
  BY <1>2 DEF Closed, ClosedIn

LEMMA AwaitIs ==
  ASSUME Types, NEW n \in Node, NEW g \in Sign, NEW t, NEW act, NEW b, NEW o,
         Await(n, g, t, act, b, o)
  PROVE  /\ \A k \in Node, h \in Sign :
              task'[<<k, h>>] = IF k = n /\ h = g THEN t ELSE task[<<k, h>>]
         /\ \A k \in Node : active'[k] = IF k = n THEN act ELSE active[k]
         /\ \A d \in Chan : resp'[d] = IF d = t.from THEN "sign" ELSE resp[d]
         /\ inbox' = b ++ o
<1>1. task \in [Node \X Sign -> Task] /\ active \in [Node -> Seq(Chan)] /\ resp \in [Chan -> States]
  BY DEF Types
<1>2. ASSUME NEW k \in Node, NEW h \in Sign
      PROVE  task'[<<k, h>>] = IF k = n /\ h = g THEN t ELSE task[<<k, h>>]
  <2>1. <<k, h>> \in Node \X Sign /\ (<<k, h>> = <<n, g>> <=> k = n /\ h = g)
    OBVIOUS
  <2>2. task' = [task EXCEPT ![<<n, g>>] = t]
    BY DEF Await
  <2> QED
    BY <1>1, <2>1, <2>2
<1>3. \A k \in Node : active'[k] = IF k = n THEN act ELSE active[k]
  BY <1>1 DEF Await
<1>4. \A d \in Chan : resp'[d] = IF d = t.from THEN "sign" ELSE resp[d]
  BY <1>1, NotAChannel DEF Await
<1> QED
  BY <1>2, <1>3, <1>4 DEF Await

(* The end of the step: out is what it sends last, to box.                 *)
Ending(s, n, g, t, act, box, gone, out) ==
  /\ Standing(s, n, g, box, gone)
  /\ \A d \in Chan : s.resp[d] = IF d = t.from THEN "sign" ELSE resp[d]
  /\ \E b, o : Await(n, g, t, act, b, o) /\ b ++ o = box ++ out
  /\ request' = request /\ down' = down

Sent(s, box, gone, out) ==
  /\ inbox' = box ++ out /\ InOrder(box) /\ down = {} /\ down' = {}
  /\ \A k \in Node : s.mail[k] \ gone[k] = Ran(box[k])

LEMMA EndSent ==
  ASSUME NEW n, NEW g, NEW s, NEW t, NEW act, NEW box, NEW gone, NEW out,
         Ending(s, n, g, t, act, box, gone, out)
  PROVE  Sent(s, box, gone, out)
<1>1. PICK b, o : Await(n, g, t, act, b, o) /\ b ++ o = box ++ out
  BY DEF Ending
<1>2. inbox' = box ++ out
  BY <1>1 DEF Await
<1>3. InOrder(box) /\ down = {} /\ down' = down /\ \A k \in Node : s.mail[k] \ gone[k] = Ran(box[k])
  BY DEF Ending, Standing
<1> QED
  BY <1>2, <1>3 DEF Sent

LEMMA EndMove ==
  ASSUME Types, NEW n \in Node, NEW g \in Sign, NEW s, NEW t, NEW act, NEW box, NEW gone, NEW out,
         Ending(s, n, g, t, act, box, gone, out), InOrder(out),
         NEW new, \A k \in Node : new[k] = Ran(out[k]), NEW u, u = Now'
  PROVE  Move(s, u, n, g, t, act, NoChan, "none", gone, new)
<1>1. PICK b, o : Await(n, g, t, act, b, o) /\ b ++ o = box ++ out
  BY DEF Ending
<1>2. /\ \A k \in Node, h \in Sign :
           task'[<<k, h>>] = IF k = n /\ h = g THEN t ELSE task[<<k, h>>]
      /\ \A k \in Node : active'[k] = IF k = n THEN act ELSE active[k]
      /\ \A d \in Chan : resp'[d] = IF d = t.from THEN "sign" ELSE resp[d]
      /\ inbox' = box ++ out
  BY <1>1, AwaitIs
<1>3. /\ u.req = request' /\ u.task = task' /\ u.resp = resp' /\ u.act = active'
      /\ u.mail = [k \in Node |-> Ran(inbox'[k])]
  BY DEF Now
<1>4. /\ s.req = request /\ request' = request
      /\ \A k \in Node, h \in Sign : ~(k = n /\ h = g) => Tk(s, k, h) = task[<<k, h>>]
      /\ \A k \in Node : k # n => s.act[k] = active[k]
      /\ InOrder(box) /\ \A k \in Node : s.mail[k] \ gone[k] = Ran(box[k])
      /\ \A d \in Chan : s.resp[d] = IF d = t.from THEN "sign" ELSE resp[d]
  BY DEF Ending, Standing
<1>5. u.req = s.req
  BY <1>3, <1>4
<1>6. \A k \in Node, h \in Sign : Tk(u, k, h) = IF k = n /\ h = g THEN t ELSE Tk(s, k, h)
  <2>1. ASSUME NEW k \in Node, NEW h \in Sign
        PROVE  Tk(u, k, h) = IF k = n /\ h = g THEN t ELSE Tk(s, k, h)
    <3>1. Tk(u, k, h) = task'[<<k, h>>]
      BY <1>3 DEF Tk
    <3>2. task'[<<k, h>>] = IF k = n /\ h = g THEN t ELSE task[<<k, h>>]
      BY <1>2
    <3>3. ~(k = n /\ h = g) => Tk(s, k, h) = task[<<k, h>>]
      BY <1>4
    <3> QED
      BY ONLY <3>1, <3>2, <3>3
  <2> QED
    BY <2>1
<1>7. \A k \in Node : u.act[k] = IF k = n THEN act ELSE s.act[k]
  BY <1>2, <1>3, <1>4
<1>8. \A d \in Chan : u.resp[d] = IF d = NoChan THEN "none" ELSE s.resp[d]
  BY <1>2, <1>3, <1>4, NotAChannel
<1>9. \A k \in Node : u.mail[k] = (s.mail[k] \ gone[k]) \cup new[k]
  <2>1. box \in Boxes /\ out \in Boxes
    BY <1>4 DEF InOrder
  <2>2. \A k \in Node : Ran((box ++ out)[k]) = Ran(box[k]) \cup Ran(out[k])
    BY <2>1, After
  <2> QED
    BY <1>2, <1>3, <1>4, <2>2
<1> QED
  BY <1>5, <1>6, <1>7, <1>8, <1>9 DEF Move

LEMMA EndJoint ==
  ASSUME NEW s, NEW box, NEW gone, NEW out, Sent(s, box, gone, out), InOrder(out),
         NEW new, \A k \in Node : new[k] = Ran(out[k]), NEW u, u = Now', Mesh(u),
         \A k \in Node : \A v \in new[k] : Fresh(s, k, v)
  PROVE  Joint'
<1>3. inbox' = box ++ out /\ InOrder(box) /\ down' = {} /\ \A k \in Node : s.mail[k] \ gone[k] = Ran(box[k])
  BY DEF Sent
<1>4. \A k \in Node : \A v \in Ran(out[k]) : \A m \in Ran(box[k]) : May(m, v)
  BY <1>3 DEF Fresh
<1>5. InOrder(inbox')
  BY <1>3, <1>4, SentMail
<1>6. Mesh(Now)'
  OBVIOUS
<1>7. InOrder(inbox)'
  BY <1>5 DEF InOrder
<1> QED
  BY <1>3, <1>6, <1>7 DEF Joint

-----------------------------------------------------------------------------
(* The ways a step ends.                                                   *)

LEMMA OnlyIs ==
  ASSUME NEW to \in Node, NEW m
  PROVE  /\ m \in Only(to, m)[to]
         /\ \A k \in Node : \A v \in Only(to, m)[k] : k = to /\ v = m
         /\ \A k \in Node : Silent[k] = {}
BY DEF Only, Silent

LEMMA HelloIs ==
  ASSUME NEW s, Mesh(s), NEW u, NEW n \in Node, NEW g \in Sign, NEW t, NEW c,
         Hello(s, u, n, g, t, c)
  PROVE  c \in Chan /\ c.b \in Node /\ t.pc = "connect"
<1>1. LET o == Tk(s, n, g)
          q == s.req[g]
      IN  /\ c \in Chan /\ c.a = n /\ c.g = g /\ c.b \in Node /\ c.b # n
          /\ Link(s, c) /\ c # NoChan
          /\ c.b \notin Reached(o) /\ c.b \notin Ran(t.list)
          /\ Ran(o.list) = Ran(t.list) \cup {c.b} /\ t.list \in Seq(Node)
          /\ Injective(t.list) /\ Len(o.list) = Len(t.list) + 1
          /\ \A i \in 1..Len(t.list) : t.list[i] = o.list[i + 1]
          /\ c.b = o.list[1] /\ Len(o.list) \in Nat /\ Len(t.list) \in Nat
          /\ t \in Task /\ t.pc = "connect" /\ t.wait = c /\ t.opened = o.opened
          /\ t.from = o.from /\ t.round = o.round /\ t.asked = o.asked
          /\ Called(s, g) /\ ~Settled(s, g)
  BY HelloFacts
<1> QED
  BY <1>1

Greeted(o, c, k) == [o EXCEPT !.wait = c, !.list = k]

LEMMA EndHello ==
  ASSUME Types, NEW n \in Node, NEW g \in Sign, NEW s, NEW t, NEW act, NEW box, NEW c, NEW o,
         o = Tk(s, n, g), o.pc = "connect", o.wait = NoChan, o.list # <<>>,
         c = [a |-> n, b |-> Head(o.list), g |-> g],
         t = Greeted(o, c, Tail(o.list)),
         s.act[n] = act, Ending(s, n, g, t, act, box, Silent, Post(c.b, Msg(c, "hello")))
  PROVE  Joint'
<1> DEFINE m == Msg(c, "hello")
           out == Post(c.b, m)
<1>1. Mesh(s) /\ Standing(s, n, g, box, Silent)
  BY DEF Ending, Standing
<1>2. PICK u0 : Move(s, u0, n, g, t, act, NoChan, "none", Silent, Only(c.b, m))
  BY MoveExists
<1>3. Hello(s, u0, n, g, t, c)
  BY <1>1, <1>2 DEF Hello, Greeted
<1>4. Mesh(u0) /\ Fresh(s, c.b, m) /\ c \in Chan /\ c.b \in Node /\ t.pc = "connect"
  <2>1. Mesh(u0) /\ Fresh(s, c.b, Msg(c, "hello"))
    BY <1>1, <1>3, HelloMoves
  <2>2. c \in Chan /\ c.b \in Node /\ t.pc = "connect"
    BY <1>1, <1>3, HelloIs
  <2> QED
    BY <2>1, <2>2
<1>5. m \in Message /\ m.c = c /\ m.kind = "hello"
  BY <1>4, Plain DEF Kinds
<1> HIDE DEF m
<1>6. m \in u0.mail[c.b]
  BY <1>2, <1>4, OnlyIs DEF Move
<1>7. OpenSame(s, u0, c.b, c)
  BY <1>2, <1>4, NotAChannel, MoveOpen
<1>8. ~ClosedIn(s, c.b, c)
  BY <1>4, <1>5, <1>6, <1>7, OpenSent
<1>9. ~Closed(c.b, m.c)
  BY <1>1, <1>4, <1>5, <1>8, StandClosed
<1>10. InOrder(out) /\ \A k \in Node : Ran(out[k]) = Only(c.b, m)[k]
  BY <1>4, <1>5, <1>9, PostMail
<1>11. Ending(s, n, g, t, act, box, Silent, out)
  BY DEF m
<1> HIDE DEF out
<1>12. PICK u : u = Now'
  OBVIOUS
<1>13. Move(s, u, n, g, t, act, NoChan, "none", Silent, Only(c.b, m))
  BY <1>10, <1>11, <1>12, EndMove
<1>14. Hello(s, u, n, g, t, c)
  BY <1>1, <1>13 DEF Hello, Greeted, m
<1>15. Mesh(u)
  BY <1>1, <1>14, HelloMoves
<1>16. \A k \in Node : \A v \in Only(c.b, m)[k] : Fresh(s, k, v)
  BY <1>4, OnlyIs
<1>17. Sent(s, box, Silent, out)
  BY <1>11, EndSent
<1> QED
  BY <1>10, <1>12, <1>15, <1>16, <1>17, EndJoint

-----------------------------------------------------------------------------
(* Steps that ask a peer or begin a round.                                 *)

LEMMA AskIs ==
  ASSUME NEW s, Mesh(s), NEW u, NEW n \in Node, NEW g \in Sign, NEW t, NEW c, NEW v,
         AskNext(s, u, n, g, t, c, v)
  PROVE  /\ c \in Chan /\ c.b \in Node /\ t.pc = "ack" /\ Tk(s, n, g).pc \in {"connect", "ack"}
         /\ v \in Message /\ v.c = c /\ v.kind = "payload"
<1>1. LET o == Tk(s, n, g)
          q == s.req[g]
          k == o.asked + 1
      IN  /\ Called(s, g) /\ ~Settled(s, g) /\ o.pc \in {"connect", "ack"}
          /\ o.wait = NoChan /\ n = q.main
          /\ Len(o.opened) = Len(q.peers) /\ k \in 1..Len(q.peers)
          /\ o.opened \in Seq(Chan) /\ k \in Nat /\ Len(q.peers) \in Nat
          /\ \A i \in 1..Len(q.peers) : o.opened[i] = Up(s, q.peers[i], g)
          /\ \A b \in Node : Before(q, n, b) <=> b \in Reached(o)
          /\ c \in Chan /\ c.a = n /\ c.g = g /\ c.b = q.peers[k] /\ c.b \in Node
          /\ Link(s, c) /\ c # NoChan /\ Opened(s, c)
          /\ \A i \in 1..Len(q.peers) :
               /\ i < k => Tk(s, q.peers[i], g).pc \in Rounding
               /\ i >= k => Tk(s, q.peers[i], g).pc = "idle"
          /\ t \in Task /\ t.pc = "ack" /\ t.wait = c /\ t.asked = k
          /\ t.opened = o.opened /\ t.from = o.from /\ t.round = o.round
          /\ v \in Message /\ v.c = c /\ v.kind = "payload"
          /\ Injective(v.nodes) /\ \A b \in Node : b \in Ran(v.nodes) <=> Before(q, c.b, b)
  BY AskFacts
<1> QED
  BY <1>1

Asking(s, n, g, t, c, v) ==
  LET o == Tk(s, n, g)
      k == o.asked + 1
  IN  /\ n = s.req[g].main /\ o.wait = NoChan
      /\ \/ o.pc = "connect" /\ o.list = <<>>
         \/ o.pc = "ack" /\ o.asked < Len(o.opened)
      /\ c = o.opened[k]
      /\ t = [o EXCEPT !.pc = "ack", !.wait = c, !.asked = k]
      /\ v = [Msg(c, "payload") EXCEPT !.nodes = Rest(o, k)]

LEMMA EndAsk ==
  ASSUME Types, NEW n \in Node, NEW g \in Sign, NEW s, NEW t, NEW act, NEW box, NEW c, NEW v,
         Asking(s, n, g, t, c, v), s.act[n] = act, Ending(s, n, g, t, act, box, Silent, Post(c.b, v))
  PROVE  Joint'
<1>1. Mesh(s) /\ Standing(s, n, g, box, Silent)
  BY DEF Ending, Standing
<1>2. PICK u0 : Move(s, u0, n, g, t, act, NoChan, "none", Silent, Only(c.b, v))
  BY MoveExists
<1>3. AskNext(s, u0, n, g, t, c, v)
  BY <1>2 DEF AskNext, Asking
<1>4. Mesh(u0) /\ Fresh(s, c.b, v) /\ c \in Chan /\ c.b \in Node /\ t.pc = "ack"
      /\ Tk(s, n, g).pc \in {"connect", "ack"} /\ v \in Message /\ v.c = c /\ v.kind = "payload"
  <2>1. Mesh(u0) /\ Fresh(s, c.b, v)
    BY <1>1, <1>3, AskMoves
  <2>2. c \in Chan /\ c.b \in Node /\ t.pc = "ack" /\ Tk(s, n, g).pc \in {"connect", "ack"}
        /\ v \in Message /\ v.c = c /\ v.kind = "payload"
    BY <1>1, <1>3, AskIs
  <2> QED
    BY <2>1, <2>2
<1>6. v \in u0.mail[c.b]
  BY <1>2, <1>4, OnlyIs DEF Move
<1>7. OpenSame(s, u0, c.b, c)
  BY <1>2, <1>4, NotAChannel, MoveOpen
<1>8. ~ClosedIn(s, c.b, c)
  BY <1>4, <1>6, <1>7, OpenSent
<1>9. ~Closed(c.b, v.c)
  BY <1>1, <1>4, <1>8, StandClosed
<1>10. PICK out : out = Post(c.b, v) /\ InOrder(out) /\ \A k \in Node : Ran(out[k]) = Only(c.b, v)[k]
  BY <1>4, <1>9, PostMail
<1>11. Ending(s, n, g, t, act, box, Silent, out)
  BY <1>10
<1>12. PICK u : u = Now'
  OBVIOUS
<1>13. Move(s, u, n, g, t, act, NoChan, "none", Silent, Only(c.b, v))
  BY <1>10, <1>11, <1>12, EndMove
<1>14. AskNext(s, u, n, g, t, c, v)
  BY <1>13 DEF AskNext, Asking
<1>15. Mesh(u)
  BY <1>1, <1>14, AskMoves
<1>16. \A k \in Node : \A w \in Only(c.b, v)[k] : Fresh(s, k, w)
  BY <1>4, OnlyIs
<1>17. Sent(s, box, Silent, out)
  BY <1>11, EndSent
<1> QED
  BY <1>10, <1>12, <1>15, <1>16, <1>17, EndJoint

(* The channels of a node that begins a round are open at the other end.   *)
LEMMA BeginOpen ==
  ASSUME NEW s, Mesh(s), NEW n \in Node, NEW g \in Sign, NEW t, NEW r, Begun(s, n, g, t, r),
         NEW d \in Ran(s.act[n])
  PROVE  d \in Chan /\ ~ClosedIn(s, Other(n, d), d)
<1>1. /\ n \in s.req[g].nodes /\ r \in 1..Rounds /\ Tk(s, n, g).round = r - 1
      /\ s.act[n] \in Seq(Chan)
      /\ \A e \in Chan : e \in Ran(s.act[n]) <=> Link(s, e) /\ Touches(e, n, g)
  BY DEF Begun
<1>2. d \in Chan
  BY <1>1 DEF Ran
<1>3. Link(s, d) /\ d.g = g
  BY <1>1, <1>2 DEF Touches
<1>4. d.a \in Node /\ d.b \in Node /\ ChannelJ(s, d)
  BY <1>2, AtLink
<1>5. \A k \in Node : Tk(s, k, g).pc \notin Over
  <2>1. Tk(s, n, g).round # Rounds
    BY <1>1, BoundAssumption
  <2> QED
    BY <1>1, <2>1, AllRounds
<1>6. Tk(s, d.a, g).pc \notin {"sleep2", "done"} /\ Tk(s, d.b, g).pc # "done"
  BY <1>4, <1>5 DEF Over
<1>7. s.resp[d] # "closed"
  BY <1>3, <1>4, <1>6 DEF ChannelJ
<1> QED
  BY <1>2, <1>3, <1>6, <1>7 DEF ClosedIn

LEMMA BeginUp ==
  ASSUME NEW s, Mesh(s), NEW n \in Node, NEW g \in Sign, NEW t, NEW r, Begun(s, n, g, t, r),
         Tk(s, n, g).pc = "connect", NEW c, c = Tk(s, n, g).from
  PROVE  /\ c \in Chan /\ c.a \in Node /\ c.a = s.req[g].main /\ ~ClosedIn(s, c.a, c)
         /\ c = Up(s, n, g)
<1>1. n # s.req[g].main /\ c = Up(s, n, g)
  BY DEF Begun
<1>2. /\ Tk(s, s.req[g].main, g).pc = "ack" /\ c \in Chan /\ Link(s, c)
  BY <1>1, PeerTurn
<1>3. c.a = s.req[g].main /\ c.b = n /\ c.g = g
  BY <1>1 DEF Up
<1>4. c.a \in Node
  BY <1>2, ChanFields
<1> QED
  BY <1>1, <1>2, <1>3, <1>4 DEF ClosedIn

Beginning(s, n, g, t, r) ==
  LET o == Tk(s, n, g)
      act == s.act[n]
  IN  /\ BeginReady(s, n, g, r) /\ act # <<>>
      /\ t = [o EXCEPT !.pc = "share", !.wait = act[1], !.round = r, !.members = act,
                       !.at = 1, !.rebound = FALSE]

LEMMA BeginningIs ==
  ASSUME NEW s, Mesh(s), NEW n \in Node, NEW g \in Sign, NEW t, NEW r, Beginning(s, n, g, t, r)
  PROVE  Begun(s, n, g, t, r)
<1>1. PICK u : Move(s, u, n, g, t, s.act[n], NoChan, "none", Silent, BeginSends(s, n, g, r))
  BY MoveExists
<1>2. Begin(s, u, n, g, t, r)
  BY <1>1 DEF Begin, Beginning
<1> QED
  BY <1>2, BeginFacts

SharesAre(n, act, r, out) ==
  /\ InOrder(out)
  /\ \A k \in Node : Ran(out[k]) = {ShareMsg(d, r) : d \in {e \in Ran(act) : Other(n, e) = k}}

LEMMA SharesMail ==
  ASSUME NEW s, NEW n \in Node, NEW g \in Sign, NEW box, NEW gone, Standing(s, n, g, box, gone),
         NEW t, NEW r, Begun(s, n, g, t, r), NEW act, act = s.act[n]
  PROVE  SharesAre(n, act, r, Shares(n, act, r))
<1>1. Mesh(s)
  BY DEF Standing
<1>2. Dictionary(n, act) /\ r \in 1..Rounds
  BY <1>1, AtDictionary DEF Begun
<1>3. r \in 0..Rounds /\ "share" \in Kinds
  BY <1>2, BoundAssumption DEF Kinds
<1>4. ASSUME NEW k \in Node, NEW e \in Ran(act), Other(n, e) = k
      PROVE  ~Closed(k, e)
  <2>1. e \in Chan /\ ~ClosedIn(s, k, e)
    BY <1>1, <1>4, BeginOpen
  <2> QED
    BY <2>1, StandClosed
<1>5. /\ InOrder(PostEach(n, act, "share", r))
      /\ \A k \in Node : Ran(PostEach(n, act, "share", r)[k]) =
           {[Msg(d, "share") EXCEPT !.round = r] :
              d \in {e \in Ran(act) : Other(n, e) = k /\ ~Closed(k, e)}}
  BY <1>2, <1>3, EachMail
<1>6. \A k \in Node : {e \in Ran(act) : Other(n, e) = k /\ ~Closed(k, e)}
                        = {e \in Ran(act) : Other(n, e) = k}
  BY <1>4
<1> QED
  BY <1>5, <1>6 DEF Shares, ShareMsg, SharesAre

(* What a node sends when it begins a round.                               *)
BeginOut(s, n, g, act, r) ==
  IF Tk(s, n, g).pc = "connect"
    THEN Post(Tk(s, n, g).from.a, Msg(Tk(s, n, g).from, "ack")) ++ Shares(n, act, r)
    ELSE Shares(n, act, r)

LEMMA AckFirst ==
  ASSUME NEW c, NEW d, NEW r \in 1..Rounds
  PROVE  May(Msg(c, "ack"), ShareMsg(d, r))
<1>1. Rounds \in Nat /\ r \in Nat /\ r >= 1
  BY BoundAssumption
<1>2. Msg(c, "ack").kind = "ack" /\ ShareMsg(d, r).kind = "share" /\ ShareMsg(d, r).round = r
  BY DEF Msg, ShareMsg
<1>3. Rank(Msg(c, "ack")) = 2 /\ Rank(ShareMsg(d, r)) = 2 + r
  BY <1>2 DEF Rank
<1> QED
  BY <1>1, <1>2, <1>3 DEF May

LEMMA BeginMailIs ==
  ASSUME NEW s, NEW n \in Node, NEW g \in Sign, NEW box, NEW gone, Standing(s, n, g, box, gone),
         NEW t, NEW r, Begun(s, n, g, t, r), NEW act, act = s.act[n]
  PROVE  /\ InOrder(BeginOut(s, n, g, act, r))
         /\ \A k \in Node : Ran(BeginOut(s, n, g, act, r)[k]) = BeginSends(s, n, g, r)[k]
<1> DEFINE sh(k) == {ShareMsg(d, r) : d \in {e \in Ran(act) : Other(n, e) = k}}
<1>1. Mesh(s) /\ r \in 1..Rounds
  BY DEF Standing, Begun
<1>2. PICK S : /\ S = Shares(n, act, r) /\ InOrder(S)
               /\ \A k \in Node : Ran(S[k]) = sh(k)
  <2>1. SharesAre(n, act, r, Shares(n, act, r))
    BY SharesMail
  <2> QED
    BY <2>1 DEF SharesAre
<1>3. PICK c : c = Tk(s, n, g).from
  OBVIOUS
<1>4. \A k \in Node : BeginSends(s, n, g, r)[k] =
        sh(k) \cup {w \in {Msg(c, "ack")} : Tk(s, n, g).pc = "connect" /\ k = c.a}
  BY <1>3 DEF BeginSends
<1>5. CASE Tk(s, n, g).pc # "connect"
  <2>1. BeginOut(s, n, g, act, r) = S
    BY <1>2, <1>5 DEF BeginOut
  <2>2. \A k \in Node : Ran(S[k]) = BeginSends(s, n, g, r)[k]
    <3>1. TAKE k \in Node
    <3>2. Ran(S[k]) = sh(k)
      BY <1>2
    <3>3. BeginSends(s, n, g, r)[k] = sh(k) \cup {}
      BY <1>4, <1>5
    <3> HIDE DEF sh
    <3> QED
      BY ONLY <3>2, <3>3
  <2> QED
    BY <1>2, <2>1, <2>2
<1>6. CASE Tk(s, n, g).pc = "connect"
  <2>1. c \in Chan /\ c.a \in Node /\ ~ClosedIn(s, c.a, c)
    BY <1>1, <1>3, <1>6, BeginUp
  <2>2. ~Closed(c.a, c)
    BY <2>1, StandClosed
  <2>3. PICK m : m = Msg(c, "ack") /\ m \in Message /\ m.c = c
    BY <2>1, Plain DEF Kinds
  <2>4. PICK P : /\ P = Post(c.a, m) /\ InOrder(P)
                 /\ \A k \in Node : Ran(P[k]) = Only(c.a, m)[k]
    BY <2>1, <2>2, <2>3, PostMail
  <2>5. \A k \in Node : Ran(P[k]) = {w \in {m} : k = c.a}
    BY <2>4 DEF Only
  <2>6. \A k \in Node : \A v \in Ran(S[k]) : \A w \in Ran(P[k]) : May(w, v)
    <3>1. \A k \in Node : \A w \in Ran(P[k]) : w = Msg(c, "ack")
      BY <2>3, <2>5
    <3>2. \A k \in Node : \A v \in Ran(S[k]) : \E d : v = ShareMsg(d, r)
      BY <1>2
    <3> QED
      BY <1>1, <3>1, <3>2, AckFirst
  <2>7. InOrder(P ++ S) /\ \A k \in Node : Ran((P ++ S)[k]) = Ran(P[k]) \cup Ran(S[k])
    BY <1>2, <2>4, <2>6, SentMail
  <2>8. BeginOut(s, n, g, act, r) = P ++ S
    BY <1>2, <1>3, <1>6, <2>3, <2>4 DEF BeginOut
  <2>9. \A k \in Node : Ran((P ++ S)[k]) = BeginSends(s, n, g, r)[k]
    <3>1. TAKE k \in Node
    <3>2. Ran((P ++ S)[k]) = {w \in {m} : k = c.a} \cup sh(k)
      BY <1>2, <2>5, <2>7
    <3>3. BeginSends(s, n, g, r)[k] = sh(k) \cup {w \in {m} : k = c.a}
      BY <1>4, <1>6, <2>3
    <3> HIDE DEF sh
    <3> QED
      BY ONLY <3>2, <3>3
  <2> QED
    BY <2>7, <2>8, <2>9
<1> QED
  BY <1>5, <1>6

LEMMA EndBegin ==
  ASSUME Types, NEW n \in Node, NEW g \in Sign, NEW s, NEW t, NEW act, NEW box, NEW r,
         Beginning(s, n, g, t, r), s.act[n] = act,
         Ending(s, n, g, t, act, box, Silent, BeginOut(s, n, g, act, r))
  PROVE  Joint'
<1>1. Mesh(s) /\ Standing(s, n, g, box, Silent)
  BY DEF Ending, Standing
<1>2. Begun(s, n, g, t, r)
  BY <1>1, BeginningIs
<1>3. PICK new : new = BeginSends(s, n, g, r)
  OBVIOUS
<1>10. PICK out : /\ out = BeginOut(s, n, g, act, r) /\ InOrder(out)
                  /\ \A k \in Node : Ran(out[k]) = new[k]
  BY <1>1, <1>2, <1>3, BeginMailIs
<1>11. Ending(s, n, g, t, act, box, Silent, out)
  BY <1>10
<1>12. PICK u : u = Now'
  OBVIOUS
<1>13. Move(s, u, n, g, t, act, NoChan, "none", Silent, new)
  BY <1>10, <1>11, <1>12, EndMove
<1>14. Begin(s, u, n, g, t, r)
  BY <1>3, <1>13 DEF Begin, Beginning
<1>15. Mesh(u) /\ \A k \in Node : \A v \in new[k] : Fresh(s, k, v)
  BY <1>1, <1>3, <1>14, BeginMoves
<1>17. Sent(s, box, Silent, out)
  BY <1>11, EndSent
<1> QED
  BY <1>10, <1>12, <1>15, <1>17, EndJoint

(* Ends without a message.                                                 *)
LEMMA EndSilent ==
  ASSUME Types, NEW n \in Node, NEW g \in Sign, NEW s, NEW t, NEW act, NEW box, NEW gone,
         Ending(s, n, g, t, act, box, gone, Nothing),
         \A u : Move(s, u, n, g, t, act, NoChan, "none", gone, Silent) => Mesh(u)
  PROVE  Joint'
<1>1. InOrder(Nothing) /\ \A k \in Node : Silent[k] = Ran(Nothing[k])
  BY NothingMail
<1>2. PICK out : out = Nothing
  OBVIOUS
<1>3. Ending(s, n, g, t, act, box, gone, out) /\ InOrder(out) /\ \A k \in Node : Silent[k] = Ran(out[k])
  BY <1>1, <1>2
<1>4. PICK u : u = Now'
  OBVIOUS
<1>5. Move(s, u, n, g, t, act, NoChan, "none", gone, Silent)
  BY <1>3, <1>4, EndMove
<1>6. Mesh(u)
  BY <1>5
<1>7. Sent(s, box, gone, out)
  BY <1>3, EndSent
<1>8. \A k \in Node : \A v \in Silent[k] : Fresh(s, k, v)
  BY DEF Silent
<1> QED
  BY <1>3, <1>4, <1>6, <1>7, <1>8, EndJoint

-----------------------------------------------------------------------------
(* From a node that is ready to what it does next.                         *)

(* A peer that runs has answered on the channel of the main node.          *)
LEMMA FromSign ==
  ASSUME NEW s, Mesh(s), NEW n \in Node, NEW g \in Sign, Tk(s, n, g).pc \notin {"idle", "done"},
         NEW c, c = Tk(s, n, g).from
  PROVE  /\ c = IF n = s.req[g].main THEN NoChan ELSE Up(s, n, g)
         /\ c # NoChan => c \in Chan /\ c.a = s.req[g].main /\ c.b = n /\ s.resp[c] = "sign"
         /\ n = s.req[g].main <=> c = NoChan
<1>1. PICK q, t : q = s.req[g] /\ t = Tk(s, n, g)
  OBVIOUS
<1>2. TaskJ(q, n, g, t) /\ Called(s, g) /\ n \in q.nodes
  BY <1>1, AtTask
<1>3. /\ q.main \in Node /\ q.nodes = {q.main} \cup Ran(q.peers) /\ q.main \notin Ran(q.peers)
  BY <1>1, <1>2, Request
<1>4. c = IF n = q.main THEN NoChan ELSE [a |-> q.main, b |-> n, g |-> g]
  BY <1>1, <1>2 DEF TaskJ
<1>5. CASE n = q.main
  BY <1>1, <1>4, <1>5
<1>6. CASE n # q.main
  <2>1. c = [a |-> q.main, b |-> n, g |-> g]
    BY <1>4, <1>6
  <2>2. c \in Chan /\ c.a = q.main /\ c.b = n /\ c.g = g /\ c = Up(s, n, g)
    BY <1>1, <1>3, <1>6, <2>1 DEF Chan, Up
  <2>3. Link(s, c)
    BY <1>1, <1>2, <1>3, <1>6, <2>2 DEF Link, Before
  <2>4. ChannelJ(s, c)
    BY <2>2, AtLink
  <2>5. /\ s.resp[c] \in States \ {"failed"} /\ s.resp[c] # "hold"
        /\ s.resp[c] \notin Waiting /\ s.resp[c] # "closed"
    BY <1>1, <2>2, <2>3, <2>4 DEF ChannelJ
  <2>6. s.resp[c] = "sign"
    BY ONLY <2>5 DEF States, Waiting
  <2> QED
    BY <1>1, <1>6, <2>2, <2>6, NotAChannel
<1> QED
  BY <1>5, <1>6

(* A node that is connected has a channel.                                 *)
LEMMA SomeChannel ==
  ASSUME NEW s, Mesh(s), NEW n \in Node, NEW g \in Sign, Through(Tk(s, n, g))
  PROVE  s.act[n] # <<>>
<1>1. PICK q : q = s.req[g]
  OBVIOUS
<1>2. Called(s, g) /\ n \in q.nodes
  BY <1>1, AtTask DEF Through
<1>3. /\ q.main \in Node /\ q.nodes = {q.main} \cup Ran(q.peers) /\ q.main \notin Ran(q.peers)
      /\ CommandJ(q) /\ q.main # None /\ Ran(q.peers) \subseteq Node /\ q.peers \in Seq(Node)
  BY <1>1, <1>2, Request
<1>4. q.peers # <<>>
  BY <1>3 DEF CommandJ
<1>5. q.peers[1] \in Ran(q.peers)
  BY <1>3, <1>4 DEF Ran
<1>6. PICK b \in Ran(q.peers) : n = q.main \/ n = b
  BY <1>2, <1>3, <1>5
<1>7. PICK c : c = [a |-> q.main, b |-> b, g |-> g]
  OBVIOUS
<1>8. c \in Chan /\ c.a = q.main /\ c.b = b /\ c.g = g
  BY <1>3, <1>6, <1>7 DEF Chan
<1>9. Link(s, c) /\ Touches(c, n, g)
  BY <1>1, <1>2, <1>6, <1>8 DEF Link, Before, Touches
<1>10. c \in Ran(s.act[n])
  BY <1>8, <1>9, Neighbours
<1> QED
  BY <1>10 DEF Ran

LEMMA ReadyThrough ==
  ASSUME NEW s, NEW n, NEW g, NEW r, BeginReady(s, n, g, r)
  PROVE  Through(Tk(s, n, g))
BY DEF BeginReady, Through

(* A step of n for g has got to s, where it has the task t and its         *)
(* dictionary is act: out is what it sent before.                          *)
Virtual(t, o) == \E p, i : o = [t EXCEPT !.pc = p, !.wait = NoChan, !.at = i]

Going(s, n, g, t, act, box, out) ==
  /\ Standing(s, n, g, box ++ out, Silent) /\ box \in Boxes /\ out \in Boxes
  /\ s.act[n] = act /\ t \in Task /\ Virtual(t, Tk(s, n, g))
  /\ \A d \in Chan : s.resp[d] = IF d = t.from THEN "sign" ELSE resp[d]
  /\ request' = request /\ down' = down

LEMMA GoingEnds ==
  ASSUME NEW s, NEW n, NEW g, NEW t, NEW act, NEW box, NEW out, Going(s, n, g, t, act, box, out),
         NEW u, u.from = t.from, NEW x \in Boxes, NEW b, NEW w,
         Await(n, g, u, act, b, w), b ++ w = box ++ (out ++ x)
  PROVE  Ending(s, n, g, u, act, box ++ out, Silent, x)
<1>1. box ++ (out ++ x) = (box ++ out) ++ x
  BY AfterAssoc DEF Going
<1> QED
  BY <1>1 DEF Ending, Going

(* The tasks that a step gets to, from t or from what it is meanwhile.     *)
LEMMA SameTask ==
  ASSUME NEW t \in Task, NEW o, Virtual(t, o)
  PROVE  /\ \E p, i : o = [pc |-> p, wait |-> NoChan, from |-> t.from, list |-> t.list,
                           opened |-> t.opened, asked |-> t.asked, round |-> t.round,
                           members |-> t.members, at |-> i, rebound |-> t.rebound]
         /\ o.from = t.from /\ o.list = t.list /\ o.opened = t.opened /\ o.asked = t.asked
         /\ o.round = t.round /\ o.members = t.members /\ o.wait = NoChan
<1>1. PICK p, i : o = [t EXCEPT !.pc = p, !.wait = NoChan, !.at = i]
  BY DEF Virtual
<1>3. o = [pc |-> p, wait |-> NoChan, from |-> t.from, list |-> t.list,
           opened |-> t.opened, asked |-> t.asked, round |-> t.round,
           members |-> t.members, at |-> i, rebound |-> t.rebound]
  BY <1>1 DEF Task
<1>4. /\ o.from = t.from /\ o.list = t.list /\ o.opened = t.opened /\ o.asked = t.asked
      /\ o.round = t.round /\ o.members = t.members /\ o.wait = NoChan
  BY ONLY <1>3
<1> QED
  BY <1>3, <1>4

Greeting(t, c, k) == [t EXCEPT !.pc = "connect", !.wait = c, !.list = k]

LEMMA HelloSame ==
  ASSUME NEW t \in Task, NEW o, Virtual(t, o), o.pc = "connect", o.at = t.at, NEW c, NEW k
  PROVE  Greeting(t, c, k) = Greeted(o, c, k) /\ Greeted(o, c, k).from = t.from
<1> PICK x : x = [t EXCEPT !.pc = "connect", !.wait = c, !.list = k]
  OBVIOUS
<1> PICK y : y = [o EXCEPT !.wait = c, !.list = k]
  OBVIOUS
<1>1. PICK p, i :
        o = [pc |-> p, wait |-> NoChan, from |-> t.from, list |-> t.list,
             opened |-> t.opened, asked |-> t.asked, round |-> t.round,
             members |-> t.members, at |-> i, rebound |-> t.rebound]
  BY SameTask
<1>2. x = [pc |-> "connect", wait |-> c, from |-> t.from, list |-> k,
           opened |-> t.opened, asked |-> t.asked, round |-> t.round,
           members |-> t.members, at |-> t.at, rebound |-> t.rebound]
  BY DEF Task
<1>3. y = [pc |-> p, wait |-> c, from |-> t.from, list |-> k,
           opened |-> t.opened, asked |-> t.asked, round |-> t.round,
           members |-> t.members, at |-> i, rebound |-> t.rebound]
  BY <1>1
<1>4. p = "connect" /\ i = t.at
  BY <1>1
<1>8. x = y
  BY ONLY <1>2, <1>3, <1>4
<1>9. x = y /\ y.from = t.from
  <2>1. y.from = t.from
    BY ONLY <1>3
  <2> QED
    BY ONLY <1>8, <2>1
<1> QED
  BY <1>9 DEF Greeting, Greeted

Turned(t, c, k) == [t EXCEPT !.pc = "ack", !.wait = c, !.asked = k]

LEMMA AskSame ==
  ASSUME NEW t \in Task, NEW o, Virtual(t, o), o.at = t.at, NEW c, NEW k
  PROVE  Turned(t, c, k) = Turned(o, c, k) /\ Turned(o, c, k).from = t.from
<1> PICK x : x = [t EXCEPT !.pc = "ack", !.wait = c, !.asked = k]
  OBVIOUS
<1> PICK y : y = [o EXCEPT !.pc = "ack", !.wait = c, !.asked = k]
  OBVIOUS
<1>1. PICK p, i :
        o = [pc |-> p, wait |-> NoChan, from |-> t.from, list |-> t.list,
             opened |-> t.opened, asked |-> t.asked, round |-> t.round,
             members |-> t.members, at |-> i, rebound |-> t.rebound]
  BY SameTask
<1>2. x = [pc |-> "ack", wait |-> c, from |-> t.from, list |-> t.list,
           opened |-> t.opened, asked |-> k, round |-> t.round,
           members |-> t.members, at |-> t.at, rebound |-> t.rebound]
  BY DEF Task
<1>3. y = [pc |-> "ack", wait |-> c, from |-> t.from, list |-> t.list,
           opened |-> t.opened, asked |-> k, round |-> t.round,
           members |-> t.members, at |-> i, rebound |-> t.rebound]
  BY <1>1
<1>4. i = t.at
  BY <1>1
<1>8. x = y
  BY ONLY <1>2, <1>3, <1>4
<1>9. x = y /\ y.from = t.from
  <2>1. y.from = t.from
    BY ONLY <1>3
  <2> QED
    BY ONLY <1>8, <2>1
<1> QED
  BY <1>9 DEF Turned

Sharing(t, c, r, m) ==
  [t EXCEPT !.pc = "share", !.wait = c, !.round = r, !.members = m, !.at = 1, !.rebound = FALSE]

LEMMA BeginSame ==
  ASSUME NEW t \in Task, NEW o, Virtual(t, o), NEW c, NEW r, NEW m
  PROVE  Sharing(t, c, r, m) = Sharing(o, c, r, m) /\ Sharing(o, c, r, m).from = t.from
<1> PICK x : x = [t EXCEPT !.pc = "share", !.wait = c, !.round = r, !.members = m, !.at = 1,
                           !.rebound = FALSE]
  OBVIOUS
<1> PICK y : y = [o EXCEPT !.pc = "share", !.wait = c, !.round = r, !.members = m, !.at = 1,
                           !.rebound = FALSE]
  OBVIOUS
<1>1. PICK p, i :
        o = [pc |-> p, wait |-> NoChan, from |-> t.from, list |-> t.list,
             opened |-> t.opened, asked |-> t.asked, round |-> t.round,
             members |-> t.members, at |-> i, rebound |-> t.rebound]
  BY SameTask
<1>4. x = [pc |-> "share", wait |-> c, from |-> t.from, list |-> t.list,
           opened |-> t.opened, asked |-> t.asked, round |-> r,
           members |-> m, at |-> 1, rebound |-> FALSE]
  BY DEF Task
<1>5. y = [pc |-> "share", wait |-> c, from |-> t.from, list |-> t.list,
           opened |-> t.opened, asked |-> t.asked, round |-> r,
           members |-> m, at |-> 1, rebound |-> FALSE]
  BY <1>1
<1>8. x = y
  BY ONLY <1>4, <1>5
<1>9. x = y /\ y.from = t.from
  <2>1. y.from = t.from
    BY ONLY <1>5
  <2> QED
    BY ONLY <1>8, <2>1
<1> QED
  BY <1>9 DEF Sharing

LEMMA GoBegin ==
  ASSUME Types, NEW n \in Node, NEW g \in Sign, NEW s, NEW t, NEW act, NEW box, NEW out,
         Going(s, n, g, t, act, box, out), NEW r, BeginReady(s, n, g, r), NEW w,
         w = IF Tk(s, n, g).pc = "connect" THEN out ++ Post(t.from.a, Msg(t.from, "ack")) ELSE out,
         BeginRound(n, g, t, act, box, w, r)
  PROVE  Joint'
<1>1. /\ Standing(s, n, g, box ++ out, Silent) /\ Mesh(s) /\ box \in Boxes /\ out \in Boxes
      /\ act = s.act[n] /\ t \in Task /\ Virtual(t, Tk(s, n, g))
  BY DEF Going, Standing
<1>2. act # <<>>
  BY <1>1, ReadyThrough, SomeChannel
<1>3. PICK x : x = Sharing(t, act[1], r, act) /\ Await(n, g, x, act, box, w ++ Shares(n, act, r))
  BY <1>2 DEF BeginRound, Sharing
<1>4. PICK o : o = Tk(s, n, g)
  OBVIOUS
<1>5. PICK y : y = Sharing(o, act[1], r, act)
  OBVIOUS
<1>6. x = y /\ y.from = t.from
  BY <1>1, <1>3, <1>4, <1>5, BeginSame
<1>7. Beginning(s, n, g, y, r)
  BY <1>1, <1>2, <1>4, <1>5 DEF Beginning, Sharing
<1>8. Begun(s, n, g, y, r)
  BY <1>1, <1>7, BeginningIs
<1>9. PICK B : B = BeginOut(s, n, g, act, r) /\ B \in Boxes
  <2>1. InOrder(BeginOut(s, n, g, act, r))
    BY <1>1, <1>8, BeginMailIs
  <2> QED
    BY <2>1 DEF InOrder
<1>10. PICK S : S = Shares(n, act, r) /\ S \in Boxes
  <2>1. SharesAre(n, act, r, Shares(n, act, r))
    BY <1>1, <1>8, SharesMail
  <2> QED
    BY <2>1 DEF SharesAre, InOrder
<1>11. w ++ S = out ++ B
  <2>1. CASE Tk(s, n, g).pc = "connect"
    <3>1. PICK c : c = Tk(s, n, g).from /\ c = t.from
      BY <1>1, SameTask
    <3>2. c \in Chan
      BY <1>1, <1>8, <2>1, <3>1, BeginUp
    <3>3. PICK P : P = Post(c.a, Msg(c, "ack")) /\ P \in Boxes
      <4>1. Msg(c, "ack") \in Message
        BY <3>2, Plain DEF Kinds
      <4> QED
        BY <4>1, Posted
    <3>4. w = out ++ P /\ B = P ++ S
      BY <1>9, <1>10, <2>1, <3>1, <3>3 DEF BeginOut
    <3>5. (out ++ P) ++ S = out ++ (P ++ S)
      BY <1>1, <1>10, <3>3, AfterAssoc
    <3> QED
      BY <3>4, <3>5
  <2>2. CASE Tk(s, n, g).pc # "connect"
    BY <1>9, <1>10, <2>2 DEF BeginOut
  <2> QED
    BY <2>1, <2>2
<1>12. Await(n, g, y, act, box, w ++ S) /\ box ++ (w ++ S) = box ++ (out ++ B) /\ y.from = t.from
  BY <1>3, <1>6, <1>10, <1>11
<1>13. Ending(s, n, g, y, act, box ++ out, Silent, B)
  BY <1>9, <1>12, GoingEnds
<1> QED
  BY <1>1, <1>7, <1>9, <1>13, EndBegin

LEMMA GoAsk ==
  ASSUME Types, NEW n \in Node, NEW g \in Sign, NEW s, NEW t, NEW act, NEW box, NEW out,
         Going(s, n, g, t, act, box, out), n = s.req[g].main, Tk(s, n, g).at = t.at,
         \/ Tk(s, n, g).pc = "connect" /\ Tk(s, n, g).list = <<>>
         \/ Tk(s, n, g).pc = "ack" /\ Tk(s, n, g).asked < Len(Tk(s, n, g).opened),
         Ask(n, g, t, act, box, out)
  PROVE  Joint'
<1>1. /\ Standing(s, n, g, box ++ out, Silent) /\ Mesh(s) /\ box \in Boxes /\ out \in Boxes
      /\ act = s.act[n] /\ t \in Task /\ Virtual(t, Tk(s, n, g))
  BY DEF Going, Standing
<1>2. PICK o : o = Tk(s, n, g)
  OBVIOUS
<1>3. /\ o.opened = t.opened /\ o.asked = t.asked /\ o.wait = NoChan
  BY <1>1, <1>2, SameTask
<1>4. PICK k : k = o.asked + 1 /\ k = t.asked + 1
  BY <1>3
<1>5. PICK c : c = o.opened[k] /\ c = t.opened[k]
  BY <1>3
<1>6. PICK y : y = Turned(o, c, k)
  OBVIOUS
<1>7. PICK v : v = [Msg(c, "payload") EXCEPT !.nodes = Rest(o, k)]
  OBVIOUS
<1>8. Asking(s, n, g, y, c, v)
  BY <1>2, <1>3, <1>4, <1>5, <1>6, <1>7 DEF Asking, Turned
<1>9. PICK u0 : AskNext(s, u0, n, g, y, c, v)
  <2>1. PICK u0 : Move(s, u0, n, g, y, s.act[n], NoChan, "none", Silent, Only(c.b, v))
    BY MoveExists
  <2>2. AskNext(s, u0, n, g, y, c, v)
    BY <1>8, <2>1 DEF Asking, AskNext
  <2> QED
    BY <2>2
<1>10. /\ Called(s, g) /\ c \in Chan /\ Link(s, c) /\ Opened(s, c) /\ c.a = n /\ c.b # n
       /\ v \in Message /\ v.c = c /\ k \in 1..Len(o.opened) /\ c \in Ran(act)
  <2>1. Called(s, g) /\ c \in Chan /\ Link(s, c) /\ c.a = n /\ c.g = g /\ v \in Message /\ v.c = c
        /\ k \in 1..Len(o.opened)
    <3>1. LET oo == Tk(s, n, g)
              q == s.req[g]
              kk == oo.asked + 1
          IN  /\ Called(s, g) /\ ~Settled(s, g) /\ oo.pc \in {"connect", "ack"}
              /\ oo.wait = NoChan /\ n = q.main
              /\ Len(oo.opened) = Len(q.peers) /\ kk \in 1..Len(q.peers)
              /\ oo.opened \in Seq(Chan) /\ kk \in Nat /\ Len(q.peers) \in Nat
              /\ \A i \in 1..Len(q.peers) : oo.opened[i] = Up(s, q.peers[i], g)
              /\ \A b \in Node : Before(q, n, b) <=> b \in Reached(oo)
              /\ c \in Chan /\ c.a = n /\ c.g = g /\ c.b = q.peers[kk] /\ c.b \in Node
              /\ Link(s, c) /\ c # NoChan /\ Opened(s, c)
              /\ \A i \in 1..Len(q.peers) :
                   /\ i < kk => Tk(s, q.peers[i], g).pc \in Rounding
                   /\ i >= kk => Tk(s, q.peers[i], g).pc = "idle"
              /\ y \in Task /\ y.pc = "ack" /\ y.wait = c /\ y.asked = kk
              /\ y.opened = oo.opened /\ y.from = oo.from /\ y.round = oo.round
              /\ v \in Message /\ v.c = c /\ v.kind = "payload"
              /\ Injective(v.nodes) /\ \A b \in Node : b \in Ran(v.nodes) <=> Before(q, c.b, b)
      <4>1. Mesh(s) /\ AskNext(s, u0, n, g, y, c, v) /\ n \in Node /\ g \in Sign
        BY <1>1, <1>9
      <4> QED
        BY ONLY <4>1, AskFacts
    <3> QED
      BY <1>2, <1>4, <3>1
  <2>2. c.b # n
    BY <2>1, ChanFields
  <2>3. Opened(s, c)
    <3>1. c.b \in Reached(o)
      BY <1>5, <2>1 DEF Reached
    <3> QED
      BY <1>2, <2>1, <3>1 DEF Opened
  <2>4. Through(Tk(s, n, g))
    BY <1>2, <1>3 DEF Through
  <2>5. c \in Ran(act)
    BY <1>1, <2>1, <2>4, Neighbours DEF Touches
  <2> QED
    BY <2>1, <2>2, <2>3, <2>5
<1>11. Has(n, act, c.b) /\ At(n, act, c.b) = c
  <2>1. Other(n, c) = c.b
    BY <1>10 DEF Other
  <2>2. Has(n, act, c.b)
    BY <1>10, <2>1, HasRan
  <2>3. PICK i \in 1..Len(act) : At(n, act, c.b) = act[i] /\ Other(n, act[i]) = c.b
    BY <2>2, Key
  <2>4. PICK j \in 1..Len(act) : act[j] = c
    BY <1>10 DEF Ran
  <2>5. Dictionary(n, act)
    BY <1>1, AtDictionary
  <2> QED
    BY <2>1, <2>2, <2>3, <2>4, <2>5 DEF Dictionary
<1>12. PICK x : /\ x = Turned(t, c, k)
                /\ Await(n, g, x, act, box, out ++ Post(c.b, v))
  <2>1. v = [Msg(c, "payload") EXCEPT !.nodes = [i \in 1..(Len(t.opened) - k) |-> t.opened[k + i].b]]
    BY <1>3, <1>7 DEF Rest
  <2> QED
    BY <1>4, <1>5, <1>11, <2>1 DEF Ask, Turned
<1>13. x = y /\ y.from = t.from
  BY <1>1, <1>2, <1>6, <1>12, AskSame
<1>14. Post(c.b, v) \in Boxes
  BY <1>10, Posted
<1>15. PICK P : P = Post(c.b, v)
  OBVIOUS
<1>16. Await(n, g, y, act, box, out ++ P) /\ P \in Boxes /\ y.from = t.from
  BY <1>12, <1>13, <1>14, <1>15
<1>17. Ending(s, n, g, y, act, box ++ out, Silent, P)
  BY <1>16, GoingEnds
<1> QED
  BY <1>1, <1>8, <1>15, <1>17, EndAsk

LEMMA GoHello ==
  ASSUME Types, NEW n \in Node, NEW g \in Sign, NEW s, NEW t, NEW act, NEW box, NEW out,
         Going(s, n, g, t, act, box, out), Tk(s, n, g).at = t.at, Tk(s, n, g).pc = "connect",
         t.list # <<>>, NEW c, c = [a |-> n, b |-> Head(t.list), g |-> g],
         Await(n, g, Greeting(t, c, Tail(t.list)), act, box, out ++ Post(c.b, Msg(c, "hello")))
  PROVE  Joint'
<1>1. /\ Standing(s, n, g, box ++ out, Silent) /\ Mesh(s) /\ box \in Boxes /\ out \in Boxes
      /\ act = s.act[n] /\ t \in Task /\ Virtual(t, Tk(s, n, g))
  BY DEF Going, Standing
<1>2. PICK o : o = Tk(s, n, g)
  OBVIOUS
<1>3. /\ o.list = t.list /\ o.wait = NoChan
  BY <1>1, <1>2, SameTask
<1>4. PICK y : y = Greeted(o, c, Tail(o.list))
  OBVIOUS
<1>5. Greeting(t, c, Tail(t.list)) = y /\ y.from = t.from
  BY <1>1, <1>2, <1>3, <1>4, HelloSame
<1>6. c = [a |-> n, b |-> Head(o.list), g |-> g] /\ o.list # <<>> /\ o.pc = "connect"
  BY <1>2, <1>3
<1>7. c \in Chan
  <2>1. PICK u0 : Move(s, u0, n, g, y, s.act[n], NoChan, "none", Silent, Only(c.b, Msg(c, "hello")))
    BY MoveExists
  <2>2. Hello(s, u0, n, g, y, c)
    BY <1>2, <1>3, <1>4, <1>6, <2>1 DEF Hello, Greeted
  <2> QED
    BY <1>1, <2>2, HelloIs
<1>8. PICK P : P = Post(c.b, Msg(c, "hello")) /\ P \in Boxes
  <2>1. Msg(c, "hello") \in Message
    BY <1>7, Plain DEF Kinds
  <2> QED
    BY <2>1, Posted
<1>9. Await(n, g, y, act, box, out ++ P) /\ y.from = t.from
  BY <1>5, <1>8
<1>10. Ending(s, n, g, y, act, box ++ out, Silent, P)
  BY <1>8, <1>9, GoingEnds
<1> QED
  BY <1>1, <1>2, <1>3, <1>4, <1>6, <1>8, <1>10, EndHello

LEMMA GoConnect ==
  ASSUME Types, NEW n \in Node, NEW g \in Sign, NEW s, NEW t, NEW act, NEW box, NEW out,
         Going(s, n, g, t, act, box, out), Tk(s, n, g).at = t.at, Tk(s, n, g).pc = "connect",
         ConnectNext(n, g, t, act, box, out)
  PROVE  Joint'
<1>1. /\ Standing(s, n, g, box ++ out, Silent) /\ Mesh(s) /\ down = {}
      /\ t \in Task /\ Virtual(t, Tk(s, n, g))
  BY DEF Going, Standing
<1>2. /\ Tk(s, n, g).from = t.from /\ Tk(s, n, g).list = t.list /\ Tk(s, n, g).wait = NoChan
  BY <1>1, SameTask
<1>3. n = s.req[g].main <=> t.from = NoChan
  BY <1>1, <1>2, FromSign
<1>4. PICK c : c = [a |-> n, b |-> Head(t.list), g |-> g]
  OBVIOUS
<1>5. \/ /\ t.list # <<>>
         /\ Await(n, g, Greeting(t, c, Tail(t.list)), act, box, out ++ Post(c.b, Msg(c, "hello")))
      \/ t.list = <<>> /\ t.from = NoChan /\ Ask(n, g, t, act, box, out)
      \/ /\ t.list = <<>> /\ t.from # NoChan
         /\ BeginRound(n, g, t, act, box, out ++ Post(t.from.a, Msg(t.from, "ack")), 1)
  BY <1>1, <1>4 DEF ConnectNext, Greeting
<1>6. CASE /\ t.list # <<>>
           /\ Await(n, g, Greeting(t, c, Tail(t.list)), act, box, out ++ Post(c.b, Msg(c, "hello")))
  BY <1>4, <1>6, GoHello
<1>7. CASE t.list = <<>> /\ t.from = NoChan /\ Ask(n, g, t, act, box, out)
  BY <1>2, <1>3, <1>7, GoAsk
<1>8. CASE /\ t.list = <<>> /\ t.from # NoChan
           /\ BeginRound(n, g, t, act, box, out ++ Post(t.from.a, Msg(t.from, "ack")), 1)
  <2>1. BeginReady(s, n, g, 1)
    BY <1>2, <1>3, <1>8 DEF BeginReady
  <2> QED
    BY <1>8, <2>1, GoBegin
<1> QED
  BY <1>5, <1>6, <1>7, <1>8

-----------------------------------------------------------------------------
(* Steps that read a message.                                              *)

(* A step of n for g that reads m begins.                                  *)
LEMMA Start ==
  ASSUME Joint, NEW n \in Node, NEW g \in Sign, Tk(Now, n, g).pc \notin {"sleep2", "done"},
         NEW i \in 1..Len(inbox[n])
  PROVE  Standing(Now, n, g, Take(n, i), Only(n, inbox[n][i]))
<1>1. PICK s : s = Now
  OBVIOUS
<1>2. Seen(s) /\ Mesh(s) /\ down = {} /\ InOrder(inbox)
  BY <1>1, SeenNow DEF Joint
<1>3. /\ InOrder(Take(n, i))
      /\ \A k \in Node : Ran(Take(n, i)[k]) = Ran(inbox[k]) \ Only(n, inbox[n][i])[k]
  BY <1>2, TakenMail
<1>4. /\ s.req = request
      /\ \A k \in Node, h \in Sign : Tk(s, k, h) = task[<<k, h>>]
      /\ \A k \in Node : s.act[k] = active[k]
      /\ \A d \in Chan : s.resp[d] = resp[d]
      /\ \A k \in Node : s.mail[k] = Ran(inbox[k])
  BY <1>2 DEF Seen
<1>5. \A k \in Node : s.mail[k] \ Only(n, inbox[n][i])[k] = Ran(Take(n, i)[k])
  BY <1>3, <1>4
<1>6. task[<<n, g>>].pc \notin {"sleep2", "done"}
  BY <1>1, <1>4
<1> QED
  BY <1>1, <1>2, <1>3, <1>4, <1>5, <1>6 DEF Standing

LEMMA StartOpen ==
  ASSUME Joint, NEW k \in Node, NEW c \in Chan, ~ClosedIn(Now, k, c)
  PROVE  ~Closed(k, c)
<1>1. PICK s : s = Now
  OBVIOUS
<1>2. Seen(s) /\ down = {} /\ c.g \in Sign
  BY <1>1, SeenNow, ChanFields DEF Joint
<1>3. Tk(s, k, c.g) = task[<<k, c.g>>] /\ s.resp[c] = resp[c]
  BY <1>2 DEF Seen
<1> QED
  BY <1>1, <1>2, <1>3 DEF Closed, ClosedIn

(* It goes on from what it gets to after m.                                *)
Gone(u, n, g, o, act, x, r, m, new) ==
  /\ Move(Now, u, n, g, o, act, x, r, Only(n, m), new) /\ Mesh(u)
  /\ \A k \in Node : \A v \in new[k] : Fresh(Now, k, v)
  /\ x \in Chan => resp[x] # "closed"
  /\ request' = request /\ down' = down

(* What a step of n for g that reads m gets to, and goes on from.          *)
GoesOn(n, g, i, m, u, o, act, x, r, new, out, t) ==
  /\ Tk(Now, n, g).pc \notin {"sleep2", "done"} /\ m = inbox[n][i]
  /\ Gone(u, n, g, o, act, x, r, m, new)
  /\ InOrder(out) /\ \A k \in Node : Ran(out[k]) = new[k]
  /\ t \in Task /\ Virtual(t, o)
  /\ \A d \in Chan : u.resp[d] = IF d = t.from THEN "sign" ELSE resp[d]

LEMMA GoFrom ==
  ASSUME Joint, NEW n \in Node, NEW g \in Sign, NEW i \in 1..Len(inbox[n]), NEW m, NEW u, NEW o,
         NEW act, NEW x, NEW r, NEW new, NEW out, NEW t,
         GoesOn(n, g, i, m, u, o, act, x, r, new, out, t)
  PROVE  Going(u, n, g, t, act, Take(n, i), out)
<1>a. /\ Tk(Now, n, g).pc \notin {"sleep2", "done"} /\ m = inbox[n][i]
      /\ Gone(u, n, g, o, act, x, r, m, new)
      /\ InOrder(out) /\ \A k \in Node : Ran(out[k]) = new[k]
      /\ t \in Task /\ Virtual(t, o)
      /\ \A d \in Chan : u.resp[d] = IF d = t.from THEN "sign" ELSE resp[d]
  BY DEF GoesOn
<1>1. PICK s : s = Now
  OBVIOUS
<1>2. PICK box : box = Take(n, i) /\ Standing(s, n, g, box, Only(n, m))
  BY <1>1, <1>a, Start
<1>3. /\ Mesh(s) /\ down = {} /\ s.req = request
      /\ \A k \in Node, h \in Sign : ~(k = n /\ h = g) => Tk(s, k, h) = task[<<k, h>>]
      /\ \A k \in Node : k # n => s.act[k] = active[k]
      /\ InOrder(box) /\ \A k \in Node : s.mail[k] \ Only(n, m)[k] = Ran(box[k])
      /\ task[<<n, g>>].pc \notin {"sleep2", "done"}
      /\ \A d \in Chan : resp[d] = "closed" => s.resp[d] = "closed"
  BY <1>2 DEF Standing
<1>4. /\ Move(s, u, n, g, o, act, x, r, Only(n, m), new) /\ Mesh(u)
      /\ \A k \in Node : \A v \in new[k] : Fresh(s, k, v)
      /\ x \in Chan => resp[x] # "closed"
      /\ request' = request /\ down' = down
  BY <1>1, <1>a DEF Gone
<1>5. /\ u.req = s.req
      /\ \A k \in Node, h \in Sign : Tk(u, k, h) = IF k = n /\ h = g THEN o ELSE Tk(s, k, h)
      /\ \A k \in Node : u.act[k] = IF k = n THEN act ELSE s.act[k]
      /\ \A d \in Chan : u.resp[d] = IF d = x THEN r ELSE s.resp[d]
      /\ \A k \in Node : u.mail[k] = (s.mail[k] \ Only(n, m)[k]) \cup new[k]
  BY <1>4 DEF Move
<1>6. InOrder(box ++ out) /\ \A k \in Node : Ran((box ++ out)[k]) = Ran(box[k]) \cup Ran(out[k])
  <2>1. \A k \in Node : \A v \in Ran(out[k]) : \A w \in Ran(box[k]) : May(w, v)
    BY <1>3, <1>4, <1>a DEF Fresh
  <2> QED
    BY <1>3, <1>a, <2>1, SentMail
<1>7. \A k \in Node : u.mail[k] \ Silent[k] = Ran((box ++ out)[k])
  BY <1>3, <1>5, <1>6, <1>a DEF Silent
<1>8. \A k \in Node, h \in Sign : ~(k = n /\ h = g) => Tk(u, k, h) = task[<<k, h>>]
  BY <1>3, <1>5
<1>9. \A k \in Node : k # n => u.act[k] = active[k]
  BY <1>3, <1>5
<1>10. \A d \in Chan : resp[d] = "closed" => u.resp[d] = "closed"
  BY <1>3, <1>4, <1>5
<1>11. Standing(u, n, g, box ++ out, Silent)
  BY <1>3, <1>4, <1>5, <1>6, <1>7, <1>8, <1>9, <1>10 DEF Standing
<1>12. box \in Boxes /\ out \in Boxes /\ u.act[n] = act /\ Tk(u, n, g) = o
  BY <1>3, <1>5, <1>a DEF InOrder
<1> QED
  BY <1>2, <1>4, <1>11, <1>12, <1>a DEF Going

(* A task that reads is the one it has meanwhile but for what it waits for.*)
LEMMA VirtualIs ==
  ASSUME NEW t \in Task, NEW p, NEW i, NEW o, o = [t EXCEPT !.pc = p, !.wait = NoChan, !.at = i]
  PROVE  Virtual(t, o)
BY DEF Virtual

LEMMA NowFrom ==
  ASSUME Joint, NEW n \in Node, NEW g \in Sign, Tk(Now, n, g).pc \notin {"idle", "done"},
         NEW u, NEW o, NEW act, NEW gone, NEW new,
         Move(Now, u, n, g, o, act, NoChan, "none", gone, new),
         NEW d \in Chan
  PROVE  u.resp[d] = IF d = Tk(Now, n, g).from THEN "sign" ELSE resp[d]
<1>1. PICK s : s = Now
  OBVIOUS
<1>2. Mesh(s) /\ s.resp[d] = resp[d]
  BY <1>1, SeenNow DEF Joint, Seen
<1>3. u.resp[d] = s.resp[d]
  BY <1>1, NotAChannel DEF Move
<1>4. d = Tk(s, n, g).from => s.resp[d] = "sign"
  BY <1>1, <1>2, FromSign, NotAChannel
<1> QED
  BY <1>1, <1>2, <1>3, <1>4

-----------------------------------------------------------------------------
(* Connected, Acknowledged, Share.                                         *)

(* What is known when n reads a message.                                   *)
AtRead(s, n, m) ==
  /\ Seen(s) /\ Mesh(s) /\ InOrder(inbox) /\ down = {}
  /\ m \in s.mail[n] /\ FirstIn(s, n, m) /\ Turn1(s, n, m)
  /\ m \in Message /\ m.c \in Chan /\ Link(s, m.c) /\ n \in {m.c.a, m.c.b}

LEMMA Reading ==
  ASSUME Joint, "order" \in Timing, NEW n \in Node, NEW i \in 1..Len(inbox[n]), Next1(n, i),
         NEW m, m = inbox[n][i], NEW s, s = Now
  PROVE  AtRead(s, n, m)
<1>1. Seen(s) /\ Mesh(s) /\ InOrder(inbox) /\ down = {}
  BY SeenNow DEF Joint
<1>2. Readable(n, i)
  BY DEF Next1
<1>3. FirstIn(s, n, m)
  BY <1>1, <1>2, ReadFirst
<1>4. Turn1(s, n, m)
  BY <1>1, ReadTurn
<1>5. m \in s.mail[n]
  BY <1>3 DEF FirstIn
<1>6. m \in Message /\ m.c \in Chan /\ Link(s, m.c) /\ n \in {m.c.a, m.c.b}
  BY <1>1, <1>5, AtMail
<1> QED
  BY <1>1, <1>3, <1>4, <1>5, <1>6 DEF AtRead

(* No other channel of the dictionary of n is to the node of c.            *)
LEMMA NotHas ==
  ASSUME NEW s, Mesh(s), Seen(s), NEW n \in Node, NEW c \in Chan, Link(s, c), n \in {c.a, c.b},
         ~Settled(s, c.g), ~Holds(s, n, c)
  PROVE  ~Has(n, active[n], Other(n, c))
<1>1. SUFFICES ASSUME NEW d \in Ran(active[n]), Other(n, d) = Other(n, c)
               PROVE  FALSE
  BY HasRan
<1>2. s.act[n] = active[n]
  BY DEF Seen
<1>3. d = c
  BY <1>1, <1>2, NotHeld
<1>4. Holds(s, n, c)
  BY <1>1, <1>2, <1>3, AtDictionary
<1> QED
  BY <1>4

Extend(t, c) == [t EXCEPT !.opened = Append(t.opened, c)]
Extended(t, c) == [t EXCEPT !.wait = NoChan, !.opened = Append(t.opened, c)]

LEMMA ExtendVirtual ==
  ASSUME NEW t \in Task, t.pc = "connect", NEW c \in Chan, NEW x, x = Extend(t, c),
         NEW o, o = Extended(t, c)
  PROVE  /\ x \in Task /\ Virtual(x, o) /\ o.at = x.at /\ o.pc = "connect" /\ x.from = t.from
<1>1. t.opened \in Seq(Chan)
  BY DEF Task
<1>2. Append(t.opened, c) \in Seq(Chan)
  BY <1>1
<1>3. x \in Task /\ x.from = t.from /\ x.pc = "connect" /\ x.at = t.at
  BY <1>2 DEF Extend, Task
<1>4. o.at = t.at /\ o.pc = "connect"
  BY DEF Extended, Task
<1>5. o = [x EXCEPT !.pc = "connect", !.wait = NoChan, !.at = t.at]
  <2>1. t = [pc |-> t.pc, wait |-> t.wait, from |-> t.from, list |-> t.list,
             opened |-> t.opened, asked |-> t.asked, round |-> t.round,
             members |-> t.members, at |-> t.at, rebound |-> t.rebound]
    BY DEF Task
  <2>2. PICK p : p = Append(t.opened, c)
    OBVIOUS
  <2>3. x = [pc |-> t.pc, wait |-> t.wait, from |-> t.from, list |-> t.list,
             opened |-> p, asked |-> t.asked, round |-> t.round,
             members |-> t.members, at |-> t.at, rebound |-> t.rebound]
    BY <2>1, <2>2 DEF Extend
  <2>4. o = [pc |-> t.pc, wait |-> NoChan, from |-> t.from, list |-> t.list,
             opened |-> p, asked |-> t.asked, round |-> t.round,
             members |-> t.members, at |-> t.at, rebound |-> t.rebound]
    BY <2>1, <2>2 DEF Extended
  <2> QED
    <3>1. PICK y : y = [x EXCEPT !.pc = "connect", !.wait = NoChan, !.at = t.at]
      OBVIOUS
    <3>2. y = [pc |-> "connect", wait |-> NoChan, from |-> t.from, list |-> t.list,
               opened |-> p, asked |-> t.asked, round |-> t.round,
               members |-> t.members, at |-> t.at, rebound |-> t.rebound]
      BY ONLY <2>3, <3>1
    <3>3. o = y
      BY ONLY <2>4, <3>2, t.pc = "connect"
    <3> QED
      BY <3>1, <3>3
<1>6. Virtual(x, o)
  BY <1>5 DEF Virtual
<1> QED
  BY <1>3, <1>4, <1>6

-----------------------------------------------------------------------------
(* The steps.                                                              *)

LEMMA ConnectedJoint ==
  ASSUME Types, Joint, "order" \in Timing, request' = request, down' = down,
         NEW n \in Node, NEW i \in 1..Len(inbox[n]), Next1(n, i), Connected(n, i)
  PROVE  Joint'
<1>1. PICK s : s = Now
  OBVIOUS
<1>2. PICK m : m = inbox[n][i]
  OBVIOUS
<1>3. AtRead(s, n, m)
  BY <1>1, <1>2, Reading
<1>4. PICK g \in Sign, t \in {task[p] : p \in Node \X Sign} :
        /\ t = task[<<n, g>>] /\ t.pc = "connect" /\ t.wait = m.c
        /\ \/ /\ m.kind = "x" /\ ~Has(n, active[n], m.c.b)
              /\ ConnectNext(n, g, Extend(t, m.c), Append(active[n], m.c), Take(n, i),
                             Post(m.c.b, Msg(m.c, Level(t))))
           \/ m.kind # "x" \/ Has(n, active[n], m.c.b)
  BY <1>2 DEF Connected, Extend, Level
<1>5. t = Tk(s, n, g) /\ s.act[n] = active[n] /\ Mesh(s) /\ Seen(s) /\ m \in s.mail[n]
  BY <1>3, <1>4 DEF AtRead, Seen
<1>6. t \in Task
  BY <1>5, AtTask
<1>7. PICK c : c = m.c
  OBVIOUS
<1>8. /\ m.kind = "x" /\ c.a = n /\ c.g = g /\ c \in Chan /\ Link(s, c) /\ ~Opened(s, c)
      /\ ~Settled(s, g)
  BY <1>4, <1>5, <1>7, ConnectKind
<1>9. ~Holds(s, n, c)
  BY <1>5, <1>8, HeldActive
<1>10. ~Has(n, active[n], c.b) /\ Other(n, c) = c.b
  BY <1>5, <1>8, <1>9, NotHas DEF Other
<1>11. PICK act : act = Append(active[n], c)
  OBVIOUS
<1>12. Dictionary(n, act) /\ Ran(act) = Ran(s.act[n]) \cup {c}
  <2>1. Dictionary(n, s.act[n])
    BY <1>5, AtDictionary
  <2> QED
    BY <1>5, <1>8, <1>10, <1>11, <2>1, AppendDictionary
<1>13. PICK x : x = Extend(t, c)
  OBVIOUS
<1>14. PICK o : o = Extended(t, c)
  OBVIOUS
<1>15. x \in Task /\ Virtual(x, o) /\ o.at = x.at /\ o.pc = "connect" /\ x.from = t.from
  BY <1>4, <1>6, <1>8, <1>13, <1>14, ExtendVirtual
<1>16. PICK v : v = Msg(c, Level(t))
  OBVIOUS
<1>17. PICK u : Move(s, u, n, g, o, act, NoChan, "none", Only(n, m), Only(c.b, v))
  BY MoveExists
<1>18. Linked(s, u, n, g, o, c, m, act)
  BY <1>4, <1>5, <1>7, <1>8, <1>12, <1>14, <1>16, <1>17 DEF Linked, Extended
<1>19. Mesh(u) /\ Fresh(s, c.b, v)
  <2>1. Mesh(u) /\ Fresh(s, c.b, Msg(c, Level(Tk(s, n, g))))
    BY <1>5, <1>18, LinkedMoves
  <2> QED
    BY <1>5, <1>16, <2>1
<1>20. c.b \in Node /\ v \in Message /\ v.c = c /\ v.kind \in {"level0", "level1"}
  BY <1>8, <1>16, ChanFields, Plain DEF Level, Kinds
<1>21. ~Closed(c.b, c)
  <2>1. v \in u.mail[c.b]
    BY <1>17, <1>20, OnlyIs DEF Move
  <2>2. OpenSame(s, u, c.b, c)
    <3>1. /\ Move(s, u, n, g, o, act, NoChan, "none", Only(n, m), Only(c.b, v))
          /\ Tk(s, n, g).pc \in {"sleep2", "done"} => o.pc \in {"sleep2", "done"}
          /\ NoChan \in Chan => s.resp[NoChan] # "closed" \/ "none" = "closed"
          /\ c.b \in Node /\ c \in Chan /\ n \in Node /\ g \in Sign
      BY <1>4, <1>5, <1>8, <1>17, <1>20, NotAChannel
    <3> QED
      BY ONLY <3>1, MoveOpen
  <2>3. ~ClosedIn(s, c.b, c)
    BY <1>8, <1>19, <1>20, <2>1, <2>2, OpenSent
  <2> QED
    BY <1>1, <1>8, <1>20, <2>3, StartOpen
<1>22. PICK out : out = Post(c.b, v) /\ InOrder(out) /\ \A k \in Node : Ran(out[k]) = Only(c.b, v)[k]
  BY <1>20, <1>21, PostMail
<1>23. Gone(u, n, g, o, act, NoChan, "none", m, Only(c.b, v))
  <2>1. \A k \in Node : \A w \in Only(c.b, v)[k] : Fresh(Now, k, w)
    BY <1>1, <1>19, <1>20, OnlyIs
  <2> QED
    BY <1>1, <1>17, <1>19, <2>1, NotAChannel DEF Gone
<1>24. \A d \in Chan : u.resp[d] = IF d = x.from THEN "sign" ELSE resp[d]
  <2>1. Tk(Now, n, g).pc \notin {"idle", "done"}
    BY <1>1, <1>4, <1>5
  <2>2. \A d \in Chan : u.resp[d] = IF d = Tk(Now, n, g).from THEN "sign" ELSE resp[d]
    BY <1>1, <1>17, <2>1, NowFrom
  <2> QED
    BY <1>1, <1>5, <1>15, <2>2
<1>25. Tk(Now, n, g).pc \notin {"sleep2", "done"}
  BY <1>1, <1>4, <1>5
<1>26. Going(u, n, g, x, act, Take(n, i), out)
  <2>1. GoesOn(n, g, i, m, u, o, act, NoChan, "none", Only(c.b, v), out, x)
    BY <1>2, <1>15, <1>22, <1>23, <1>24, <1>25 DEF GoesOn
  <2> QED
    BY <2>1, GoFrom
<1>27. ConnectNext(n, g, x, act, Take(n, i), out)
  BY <1>4, <1>7, <1>8, <1>10, <1>11, <1>13, <1>16, <1>22
<1>28. Tk(u, n, g) = o
  BY <1>17 DEF Move
<1> QED
  BY <1>15, <1>26, <1>27, <1>28, GoConnect

LEMMA AcknowledgedJoint ==
  ASSUME Types, Joint, "order" \in Timing, request' = request, down' = down,
         NEW n \in Node, NEW i \in 1..Len(inbox[n]), Next1(n, i), Acknowledged(n, i)
  PROVE  Joint'
<1>1. PICK s : s = Now
  OBVIOUS
<1>2. PICK m : m = inbox[n][i]
  OBVIOUS
<1>3. AtRead(s, n, m)
  BY <1>1, <1>2, Reading
<1>4. PICK g \in Sign, t \in {task[p] : p \in Node \X Sign} :
        /\ t = task[<<n, g>>] /\ t.pc = "ack" /\ t.wait = m.c
        /\ \/ /\ m.kind = "ack" /\ t.asked < Len(t.opened)
              /\ Ask(n, g, t, active[n], Take(n, i), Nothing)
           \/ /\ m.kind = "ack" /\ t.asked = Len(t.opened)
              /\ BeginRound(n, g, t, active[n], Take(n, i), Nothing, 1)
           \/ m.kind # "ack"
  BY <1>2 DEF Acknowledged
<1>5. t = Tk(s, n, g) /\ s.act[n] = active[n] /\ Mesh(s) /\ m \in s.mail[n] /\ FirstIn(s, n, m)
  BY <1>3, <1>4 DEF AtRead, Seen
<1>6. t \in Task /\ n = s.req[g].main
  <2>1. TaskJ(s.req[g], n, g, t) /\ t \in Task
    BY <1>5, AtTask
  <2> QED
    BY <1>4, <2>1 DEF TaskJ
<1>7. PICK c : c = m.c
  OBVIOUS
<1>8. m.kind = "ack"
  BY <1>4, <1>5, AckKind
<1>9. PICK o : o = [t EXCEPT !.wait = NoChan]
  OBVIOUS
<1>10. /\ o.at = t.at /\ o.pc = "ack" /\ o.asked = t.asked /\ o.opened = t.opened /\ o.wait = NoChan
  BY <1>4, <1>6, <1>9 DEF Task
<1>11. Virtual(t, o)
  <2>1. o = [t EXCEPT !.pc = t.pc, !.wait = NoChan, !.at = t.at]
    BY <1>6, <1>9 DEF Task
  <2> QED
    BY <2>1 DEF Virtual
<1>12. PICK u : Move(s, u, n, g, o, s.act[n], NoChan, "none", Only(n, m), Silent)
  BY MoveExists
<1>13. AckRead(s, u, n, g, o, c, m)
  BY <1>4, <1>5, <1>7, <1>8, <1>9, <1>12 DEF AckRead
<1>14. Mesh(u)
  BY <1>5, <1>13, AckReadMoves
<1>15. Gone(u, n, g, o, active[n], NoChan, "none", m, Silent)
  BY <1>1, <1>5, <1>12, <1>14, NotAChannel DEF Gone, Silent
<1>16. \A d \in Chan : u.resp[d] = IF d = t.from THEN "sign" ELSE resp[d]
  <2>1. Tk(Now, n, g).pc \notin {"idle", "done"}
    BY <1>1, <1>4, <1>5
  <2>2. \A d \in Chan : u.resp[d] = IF d = Tk(Now, n, g).from THEN "sign" ELSE resp[d]
    BY <1>1, <1>12, <2>1, NowFrom
  <2> QED
    BY <1>1, <1>5, <2>2
<1>17. Tk(Now, n, g).pc \notin {"sleep2", "done"}
  BY <1>1, <1>4, <1>5
<1>18. PICK out : out = Nothing /\ InOrder(out) /\ \A k \in Node : Ran(out[k]) = Silent[k]
  BY NothingMail
<1>19. Going(u, n, g, t, active[n], Take(n, i), out)
  <2>1. GoesOn(n, g, i, m, u, o, active[n], NoChan, "none", Silent, out, t)
    BY <1>2, <1>6, <1>11, <1>15, <1>16, <1>17, <1>18 DEF GoesOn
  <2> QED
    BY <2>1, GoFrom
<1>20. Tk(u, n, g) = o /\ u.req = s.req
  BY <1>12 DEF Move
<1>21. CASE t.asked < Len(t.opened) /\ Ask(n, g, t, active[n], Take(n, i), Nothing)
  BY <1>6, <1>10, <1>18, <1>19, <1>20, <1>21, GoAsk
<1>22. CASE t.asked = Len(t.opened) /\ BeginRound(n, g, t, active[n], Take(n, i), Nothing, 1)
  <2>1. BeginReady(u, n, g, 1)
    BY <1>10, <1>20, <1>22 DEF BeginReady
  <2>2. Tk(u, n, g).pc # "connect"
    BY <1>10, <1>20
  <2> QED
    BY <1>18, <1>19, <1>22, <2>1, <2>2, GoBegin
<1> QED
  BY <1>4, <1>8, <1>21, <1>22

Passing(t, w) == [t EXCEPT !.at = t.at + 1, !.wait = w]
Resting(t) == [t EXCEPT !.pc = "sleep", !.wait = NoChan]

Rests(o, z) == \E i \in Nat : z = [o EXCEPT !.pc = "sleep", !.wait = NoChan, !.at = i]

LEMMA RestingSame ==
  ASSUME NEW t \in Task, NEW o, o = Passing(t, NoChan), NEW z, z = Resting(t)
  PROVE  /\ Virtual(t, o) /\ o.pc = t.pc /\ o.at = t.at + 1 /\ o.members = t.members
         /\ o.round = t.round /\ z.from = t.from
         /\ Rests(o, z)
<1>1. t = [pc |-> t.pc, wait |-> t.wait, from |-> t.from, list |-> t.list,
           opened |-> t.opened, asked |-> t.asked, round |-> t.round,
           members |-> t.members, at |-> t.at, rebound |-> t.rebound]
      /\ t.at \in Nat
  BY DEF Task
<1>2. o = [pc |-> t.pc, wait |-> NoChan, from |-> t.from, list |-> t.list,
           opened |-> t.opened, asked |-> t.asked, round |-> t.round,
           members |-> t.members, at |-> t.at + 1, rebound |-> t.rebound]
  BY <1>1 DEF Passing
<1>3. z = [pc |-> "sleep", wait |-> NoChan, from |-> t.from, list |-> t.list,
           opened |-> t.opened, asked |-> t.asked, round |-> t.round,
           members |-> t.members, at |-> t.at, rebound |-> t.rebound]
  BY <1>1 DEF Resting
<1>4. PICK y : y = [o EXCEPT !.pc = "sleep", !.wait = NoChan, !.at = t.at]
  OBVIOUS
<1>5. y = [pc |-> "sleep", wait |-> NoChan, from |-> t.from, list |-> t.list,
           opened |-> t.opened, asked |-> t.asked, round |-> t.round,
           members |-> t.members, at |-> t.at, rebound |-> t.rebound]
  BY ONLY <1>2, <1>4
<1>6. z = y
  BY ONLY <1>3, <1>5
<1>7. PICK x : x = [t EXCEPT !.pc = t.pc, !.wait = NoChan, !.at = t.at + 1]
  OBVIOUS
<1>8. x = [pc |-> t.pc, wait |-> NoChan, from |-> t.from, list |-> t.list,
           opened |-> t.opened, asked |-> t.asked, round |-> t.round,
           members |-> t.members, at |-> t.at + 1, rebound |-> t.rebound]
  BY ONLY <1>1, <1>7
<1>9. o = x
  BY ONLY <1>2, <1>8
<1>10. Virtual(t, o)
  BY <1>7, <1>9 DEF Virtual
<1>11. /\ o.pc = t.pc /\ o.at = t.at + 1 /\ o.members = t.members
       /\ o.round = t.round /\ z.from = t.from
  BY ONLY <1>2, <1>3
<1>12. Rests(o, z)
  BY <1>1, <1>4, <1>6 DEF Rests
<1> QED
  BY <1>10, <1>11, <1>12

(* A step of n for g that reads m ends at once.                            *)
LEMMA EndsFrom ==
  ASSUME Joint, NEW n \in Node, NEW g \in Sign, NEW s, s = Now,
         Tk(s, n, g).pc \notin {"idle", "sleep2", "done"},
         NEW i \in 1..Len(inbox[n]), NEW m, m = inbox[n][i],
         NEW y, y.from = Tk(s, n, g).from, NEW act, NEW x, x = Nothing,
         Await(n, g, y, act, Take(n, i), x), request' = request, down' = down
  PROVE  Ending(s, n, g, y, act, Take(n, i), Only(n, m), x)
<1>1. Standing(s, n, g, Take(n, i), Only(n, m))
  BY Start
<1>2. Seen(s) /\ Mesh(s)
  BY SeenNow DEF Joint
<1>3. ASSUME NEW d \in Chan PROVE s.resp[d] = IF d = y.from THEN "sign" ELSE resp[d]
  <2>1. s.resp[d] = resp[d]
    BY <1>2 DEF Seen
  <2>2. d = Tk(s, n, g).from => s.resp[d] = "sign"
    BY <1>2, FromSign, NotAChannel
  <2> QED
    BY <2>1, <2>2
<1> QED
  BY <1>1, <1>3 DEF Ending

LEMMA ShareJoint ==
  ASSUME Types, Joint, "order" \in Timing, request' = request, down' = down,
         NEW n \in Node, NEW i \in 1..Len(inbox[n]), Next1(n, i), Share(n, i)
  PROVE  Joint'
<1>1. PICK s : s = Now
  OBVIOUS
<1>2. PICK m : m = inbox[n][i]
  OBVIOUS
<1>3. AtRead(s, n, m)
  BY <1>1, <1>2, Reading
<1>4. PICK g \in Sign, t \in {task[p] : p \in Node \X Sign} :
        /\ t = task[<<n, g>>] /\ t.pc = "share" /\ t.wait = m.c
        /\ \/ m.kind # "share" \/ Resized(n, t)
           \/ /\ t.at < Len(t.members)
              /\ Await(n, g, Passing(t, t.members[t.at + 1]), active[n], Take(n, i), Nothing)
           \/ /\ t.at = Len(t.members) /\ t.round < Rounds
              /\ BeginRound(n, g, t, active[n], Take(n, i), Nothing, t.round + 1)
           \/ /\ t.at = Len(t.members) /\ t.round = Rounds
              /\ Await(n, g, Resting(t), active[n], Take(n, i), Nothing)
  BY <1>2 DEF Share, Passing, Resting
<1>5. t = Tk(s, n, g) /\ s.act[n] = active[n] /\ Mesh(s) /\ m \in s.mail[n] /\ FirstIn(s, n, m)
  BY <1>3, <1>4 DEF AtRead, Seen
<1>6. t \in Task /\ t.members = active[n]
  <2>1. ShareJ(t, s.act[n]) /\ t \in Task
    BY <1>5, AtTask
  <2> QED
    BY <1>4, <1>5, <2>1 DEF ShareJ
<1>7. m.kind = "share" /\ m.round = t.round /\ ~Resized(n, t)
  BY <1>4, <1>5, <1>6, ShareKind DEF Resized
<1>8. PICK c : c = m.c
  OBVIOUS
<1>9. Tk(Now, n, g).pc = "share"
  BY <1>1, <1>4, <1>5
<1>10. PICK out : out = Nothing /\ InOrder(out) /\ \A k \in Node : Ran(out[k]) = Silent[k]
  BY NothingMail
<1>11. PICK act : act = active[n]
  OBVIOUS
<1>12. CASE /\ t.at < Len(t.members)
            /\ Await(n, g, Passing(t, t.members[t.at + 1]), active[n], Take(n, i), Nothing)
  <2>1. PICK w : w = t.members[t.at + 1] /\ w = IF t.at < Len(t.members) THEN t.members[t.at + 1] ELSE NoChan
    BY <1>12
  <2>2. PICK y : y = Passing(t, w)
    OBVIOUS
  <2>3. y.from = Tk(s, n, g).from
    BY <1>5, <1>6, <2>2 DEF Passing, Task
  <2>4. Await(n, g, y, act, Take(n, i), out)
    BY <1>10, <1>11, <1>12, <2>1, <2>2
  <2>5. Ending(s, n, g, y, act, Take(n, i), Only(n, m), out)
    BY <1>1, <1>2, <1>9, <1>10, <2>3, <2>4, EndsFrom
  <2>6. ASSUME NEW u, Move(s, u, n, g, y, act, NoChan, "none", Only(n, m), Silent)
        PROVE  Mesh(u)
    <3>1. ShareRead(s, u, n, g, y, c, m)
      BY <1>4, <1>5, <1>7, <1>8, <1>11, <2>1, <2>2, <2>6 DEF ShareRead, Passing
    <3> QED
      BY <1>5, <3>1, ShareReadMoves
  <2> QED
    BY <1>10, <2>5, <2>6, EndSilent
<1>13. ASSUME t.at = Len(t.members)
       PROVE  \E u, o : /\ Going(u, n, g, t, act, Take(n, i), out) /\ Mesh(u) /\ Tk(u, n, g) = o
                        /\ o = Passing(t, NoChan) /\ u.act[n] = act
  <2>1. PICK o : o = Passing(t, NoChan)
    OBVIOUS
  <2>2. PICK u : Move(s, u, n, g, o, act, NoChan, "none", Only(n, m), Silent)
    BY MoveExists
  <2>3. NoChan = IF t.at < Len(t.members) THEN t.members[t.at + 1] ELSE NoChan
    BY <1>13
  <2>4. ShareRead(s, u, n, g, o, c, m)
    BY <1>4, <1>5, <1>7, <1>8, <1>11, <2>1, <2>2, <2>3 DEF ShareRead, Passing
  <2>5. Mesh(u)
    BY <1>5, <2>4, ShareReadMoves
  <2>6. Gone(u, n, g, o, act, NoChan, "none", m, Silent)
    BY <1>1, <2>2, <2>5, NotAChannel DEF Gone, Silent
  <2>7. \A d \in Chan : u.resp[d] = IF d = t.from THEN "sign" ELSE resp[d]
    <3>1. \A d \in Chan : u.resp[d] = IF d = Tk(Now, n, g).from THEN "sign" ELSE resp[d]
      BY <1>1, <1>9, <2>2, NowFrom
    <3> QED
      BY <1>1, <1>5, <3>1
  <2>8. Virtual(t, o)
    BY <1>6, <2>1, RestingSame
  <2>9. GoesOn(n, g, i, m, u, o, act, NoChan, "none", Silent, out, t)
    BY <1>2, <1>6, <1>9, <1>10, <2>6, <2>7, <2>8 DEF GoesOn
  <2>10. Going(u, n, g, t, act, Take(n, i), out)
    BY <2>9, GoFrom
  <2>11. Tk(u, n, g) = o /\ u.act[n] = act
    BY <2>2 DEF Move
  <2> QED
    BY <2>1, <2>5, <2>10, <2>11
<1>14. CASE /\ t.at = Len(t.members) /\ t.round < Rounds
            /\ BeginRound(n, g, t, active[n], Take(n, i), Nothing, t.round + 1)
  <2>1. PICK u, o : /\ Going(u, n, g, t, act, Take(n, i), out) /\ Mesh(u) /\ Tk(u, n, g) = o
                    /\ o = Passing(t, NoChan)
    BY <1>13, <1>14
  <2>2. o.pc = "share" /\ o.at = Len(o.members) + 1 /\ o.round = t.round
    <3>1. PICK y : y = Resting(t)
      OBVIOUS
    <3>2. t \in Task /\ o = Passing(t, NoChan) /\ y = Resting(t)
      BY <1>6, <2>1, <3>1
    <3>3. /\ Virtual(t, o) /\ o.pc = t.pc /\ o.at = t.at + 1 /\ o.members = t.members
          /\ o.round = t.round /\ y.from = t.from
          /\ Rests(o, y)
      BY ONLY <3>2, RestingSame
    <3> QED
      BY <1>4, <1>14, <3>3
  <2>3. PICK r : r = t.round + 1
    OBVIOUS
  <2>4. BeginReady(u, n, g, r) /\ Tk(u, n, g).pc # "connect"
    BY <1>14, <2>1, <2>2, <2>3 DEF BeginReady
  <2>5. BeginRound(n, g, t, act, Take(n, i), out, r)
    BY <1>10, <1>11, <1>14, <2>3
  <2> QED
    BY <2>1, <2>4, <2>5, GoBegin
<1>15. CASE /\ t.at = Len(t.members) /\ t.round = Rounds
            /\ Await(n, g, Resting(t), active[n], Take(n, i), Nothing)
  <2>1. PICK u, o : /\ Going(u, n, g, t, act, Take(n, i), out) /\ Mesh(u) /\ Tk(u, n, g) = o
                    /\ o = Passing(t, NoChan) /\ u.act[n] = act
    BY <1>13, <1>15
  <2>2. PICK z : z = Resting(t)
    OBVIOUS
  <2>3. /\ o.pc = "share" /\ o.at = Len(o.members) + 1 /\ o.round = Rounds /\ z.from = t.from
        /\ Rests(o, z)
    <3>1. PICK y : y = Resting(t)
      OBVIOUS
    <3>2. t \in Task /\ o = Passing(t, NoChan) /\ y = Resting(t)
      BY <1>6, <2>1, <3>1
    <3>3. /\ Virtual(t, o) /\ o.pc = t.pc /\ o.at = t.at + 1 /\ o.members = t.members
          /\ o.round = t.round /\ y.from = t.from
          /\ Rests(o, y)
      BY ONLY <3>2, RestingSame
    <3> QED
      BY <1>4, <1>15, <2>2, <3>1, <3>3
  <2>4. PICK box : box = Take(n, i) /\ box \in Boxes
    BY <2>1 DEF Going
  <2>5. out \in Boxes /\ out ++ out = out
    BY <1>10, AfterNothing DEF InOrder
  <2>6. Await(n, g, z, act, box, out)
    BY <1>10, <1>11, <1>15, <2>2, <2>4
  <2>7. Going(u, n, g, t, act, box, out)
    BY <2>1, <2>4
  <2>8. Ending(u, n, g, z, act, box ++ out, Silent, out)
    BY <2>3, <2>5, <2>6, <2>7, GoingEnds
  <2>9. ASSUME NEW v, Move(u, v, n, g, z, act, NoChan, "none", Silent, Silent)
        PROVE  Mesh(v)
    <3>1. Rested(u, v, n, g, z)
      BY <2>1, <2>3, <2>9 DEF Rested, Rests
    <3> QED
      BY <2>1, <3>1, RestedMoves
  <2> QED
    BY <1>10, <2>8, <2>9, EndSilent
<1> QED
  BY <1>4, <1>7, <1>12, <1>14, <1>15

-----------------------------------------------------------------------------
(* Accept, TreeLevel, EndOfFile, Payload.                                  *)

(* A step of a node at the end b of a channel that reads a message of it.  *)
Replies(n, i, m, c, state, act, box, out) ==
  /\ m = inbox[n][i] /\ c.b = n /\ box = Take(n, i)
  /\ Respond(c, state, act, box, out)
  /\ task' = task /\ request' = request /\ down' = down

LEMMA ReplyMove ==
  ASSUME Types, Joint, NEW n \in Node, NEW i \in 1..Len(inbox[n]), NEW m, NEW c \in Chan,
         NEW state, NEW act, NEW box, NEW out, InOrder(out),
         Replies(n, i, m, c, state, act, box, out),
         NEW new, \A k \in Node : new[k] = Ran(out[k]), NEW s, s = Now, NEW u, u = Now'
  PROVE  /\ Move(s, u, n, c.g, Tk(s, n, c.g), act, c, state, Only(n, m), new)
         /\ Sent(s, box, Only(n, m), out)
<1>1. /\ m = inbox[n][i] /\ c.b = n /\ box = Take(n, i)
      /\ resp' = [resp EXCEPT ![c] = state] /\ active' = [active EXCEPT ![n] = act]
      /\ inbox' = box ++ out /\ task' = task /\ request' = request /\ down' = down
  BY DEF Replies, Respond
<1>2. Seen(s) /\ down = {} /\ InOrder(inbox)
  BY SeenNow DEF Joint
<1>3. /\ InOrder(box)
      /\ \A k \in Node : Ran(box[k]) = Ran(inbox[k]) \ Only(n, m)[k]
  BY <1>1, <1>2, TakenMail
<1>4. resp \in [Chan -> States] /\ active \in [Node -> Seq(Chan)]
  BY DEF Types
<1>5. /\ u.req = request' /\ u.task = task' /\ u.resp = resp' /\ u.act = active'
      /\ u.mail = [k \in Node |-> Ran(inbox'[k])]
  BY DEF Now
<1>6. /\ s.req = request
      /\ \A k \in Node, h \in Sign : Tk(s, k, h) = task[<<k, h>>]
      /\ \A k \in Node : s.act[k] = active[k]
      /\ \A d \in Chan : s.resp[d] = resp[d]
      /\ \A k \in Node : s.mail[k] = Ran(inbox[k])
  BY <1>2 DEF Seen
<1>7. \A k \in Node, h \in Sign : Tk(u, k, h) = IF k = n /\ h = c.g THEN Tk(s, n, c.g) ELSE Tk(s, k, h)
  <2>1. \A k \in Node, h \in Sign : Tk(u, k, h) = task[<<k, h>>]
    BY <1>1, <1>5 DEF Tk
  <2>2. ASSUME NEW k \in Node, NEW h \in Sign
        PROVE  Tk(u, k, h) = IF k = n /\ h = c.g THEN Tk(s, n, c.g) ELSE Tk(s, k, h)
    <3>1. Tk(u, k, h) = Tk(s, k, h)
      BY <1>6, <2>1
    <3> QED
      BY ONLY <3>1
  <2> QED
    BY <2>2
<1>8. \A k \in Node : u.act[k] = IF k = n THEN act ELSE s.act[k]
  BY <1>1, <1>4, <1>5, <1>6
<1>9. \A d \in Chan : u.resp[d] = IF d = c THEN state ELSE s.resp[d]
  BY <1>1, <1>4, <1>5, <1>6
<1>10. \A k \in Node : Ran((box ++ out)[k]) = Ran(box[k]) \cup Ran(out[k])
  BY <1>3, After DEF InOrder
<1>11. \A k \in Node : u.mail[k] = (s.mail[k] \ Only(n, m)[k]) \cup new[k]
  <2>1. ASSUME NEW k \in Node
        PROVE  u.mail[k] = (s.mail[k] \ Only(n, m)[k]) \cup new[k]
    <3>1. u.mail[k] = Ran(inbox'[k])
      BY <1>5
    <3>2. Ran(inbox'[k]) = Ran((box ++ out)[k])
      BY <1>1
    <3>3. Ran((box ++ out)[k]) = Ran(box[k]) \cup Ran(out[k])
      BY <1>10
    <3>4. Ran(box[k]) = s.mail[k] \ Only(n, m)[k] /\ Ran(out[k]) = new[k]
      BY <1>3, <1>6
    <3> QED
      BY <3>1, <3>2, <3>3, <3>4
  <2> QED
    BY <2>1
<1>12. u.req = s.req
  BY <1>1, <1>5, <1>6
<1>13. Sent(s, box, Only(n, m), out)
  BY <1>1, <1>2, <1>3, <1>6 DEF Sent
<1> QED
  BY <1>7, <1>8, <1>9, <1>11, <1>12, <1>13 DEF Move

(* A reply that says nothing.                                              *)
LEMMA ReplySilent ==
  ASSUME Types, Joint, NEW n \in Node, NEW i \in 1..Len(inbox[n]), NEW m, NEW c \in Chan,
         NEW state, NEW act, NEW box, NEW out, out = Nothing,
         Replies(n, i, m, c, state, act, box, out), NEW s, s = Now,
         \A u : Move(s, u, n, c.g, Tk(s, n, c.g), act, c, state, Only(n, m), Silent) => Mesh(u)
  PROVE  Joint'
<1>1. PICK x : x = out /\ InOrder(x) /\ \A k \in Node : Ran(x[k]) = Silent[k]
  BY NothingMail
<1>2. PICK u : u = Now'
  OBVIOUS
<1>3. /\ Move(s, u, n, c.g, Tk(s, n, c.g), act, c, state, Only(n, m), Silent)
      /\ Sent(s, box, Only(n, m), x)
  BY <1>1, <1>2, ReplyMove
<1>4. Mesh(u)
  BY <1>3
<1>5. \A k \in Node : \A v \in Silent[k] : Fresh(s, k, v)
  BY DEF Silent
<1>6. \A k \in Node : Silent[k] = Ran(x[k])
  BY <1>1
<1> QED
  BY <1>1, <1>2, <1>3, <1>4, <1>5, <1>6, EndJoint

-----------------------------------------------------------------------------

LEMMA AcceptJoint ==
  ASSUME Types, Joint, "order" \in Timing, request' = request, down' = down,
         NEW n \in Node, NEW i \in 1..Len(inbox[n]), Next1(n, i), Accept(n, i)
  PROVE  Joint'
<1>1. PICK s : s = Now
  OBVIOUS
<1>2. PICK m : m = inbox[n][i]
  OBVIOUS
<1>3. AtRead(s, n, m)
  BY <1>1, <1>2, Reading
<1>4. PICK c : c = m.c
  OBVIOUS
<1>5. /\ n = c.b /\ resp[c] = "none" /\ task' = task
      /\ ~Has(n, active[n], c.a) => Respond(c, "level", active[n], Take(n, i), Post(c.a, Msg(c, "x")))
  BY <1>2, <1>4 DEF Accept
<1>6. /\ c \in Chan /\ Mesh(s) /\ Seen(s) /\ m \in s.mail[n] /\ Link(s, c) /\ s.resp[c] = "none"
      /\ s.act[n] = active[n]
  BY <1>3, <1>4, <1>5 DEF AtRead, Seen
<1>7. Waited(s, c) /\ ~Opened(s, c)
  BY <1>4, <1>6, OnlyHello
<1>8. ~Settled(s, c.g)
  <2>1. c.a \in Node /\ c.g \in Sign
    BY <1>6, ChanFields
  <2> QED
    BY <1>6, <1>7, <2>1, AtTask DEF Waited
<1>9. ~Holds(s, n, c)
  BY <1>6, <1>7, HeldActive
<1>10. ~Has(n, active[n], c.a)
  <2>1. Other(n, c) = c.a
    BY <1>5, <1>6, ChanFields DEF Other
  <2> QED
    BY <1>5, <1>6, <1>8, <1>9, <2>1, NotHas
<1>11. PICK v : v = Msg(c, "x")
  OBVIOUS
<1>12. v \in Message /\ v.c = c /\ v.kind = "x" /\ c.a \in Node
  BY <1>6, <1>11, Plain, ChanFields DEF Kinds
<1>13. PICK act : act = active[n]
  OBVIOUS
<1>14. ASSUME NEW u, Move(s, u, n, c.g, Tk(s, n, c.g), act, c, "level", Only(n, m), Only(c.a, v))
       PROVE  Mesh(u) /\ Fresh(s, c.a, v)
  <2>1. Accepted(s, u, c, m)
    BY <1>4, <1>5, <1>6, <1>11, <1>13, <1>14 DEF Accepted
  <2> QED
    BY <1>6, <1>11, <2>1, AcceptedMoves
<1>15. PICK u0 : Move(s, u0, n, c.g, Tk(s, n, c.g), act, c, "level", Only(n, m), Only(c.a, v))
  <2>1. c.g \in Sign
    BY <1>6, ChanFields
  <2> QED
    BY <2>1, MoveExists
<1>16. Mesh(u0) /\ Fresh(s, c.a, v)
  BY <1>14, <1>15
<1>17. ~Closed(c.a, c)
  <2>1. v \in u0.mail[c.a]
    BY <1>12, <1>15, OnlyIs DEF Move
  <2>2. OpenSame(s, u0, c.a, c)
    <3>1. c.g \in Sign
      BY <1>6, ChanFields
    <3> QED
      BY <1>6, <1>12, <1>15, <3>1, MoveOpen
  <2>3. ~ClosedIn(s, c.a, c)
    BY <1>6, <1>12, <1>16, <2>1, <2>2, OpenSent
  <2> QED
    BY <1>1, <1>6, <1>12, <2>3, StartOpen
<1>18. PICK out : out = Post(c.a, v) /\ InOrder(out) /\ \A k \in Node : Ran(out[k]) = Only(c.a, v)[k]
  BY <1>12, <1>17, PostMail
<1>19. PICK box : box = Take(n, i)
  OBVIOUS
<1>20. Replies(n, i, m, c, "level", act, box, out)
  BY <1>2, <1>5, <1>10, <1>11, <1>13, <1>18, <1>19 DEF Replies
<1>21. PICK u : u = Now'
  OBVIOUS
<1>22. /\ Move(s, u, n, c.g, Tk(s, n, c.g), act, c, "level", Only(n, m), Only(c.a, v))
       /\ Sent(s, box, Only(n, m), out)
  BY <1>1, <1>6, <1>18, <1>20, <1>21, ReplyMove
<1>23. Mesh(u)
  BY <1>14, <1>22
<1>24. \A k \in Node : \A w \in Only(c.a, v)[k] : Fresh(s, k, w)
  BY <1>12, <1>16, OnlyIs
<1>25. \A k \in Node : Only(c.a, v)[k] = Ran(out[k])
  BY <1>18
<1> QED
  BY <1>18, <1>21, <1>22, <1>23, <1>24, <1>25, EndJoint

(* At a node that gets its level from the main node nothing runs.          *)
LEMMA RebindNone ==
  ASSUME Types, NEW s, Mesh(s), Seen(s), NEW n \in Node, NEW g \in Sign, Called(s, g), ~Settled(s, g),
         Tk(s, n, g).pc = "idle"
  PROVE  Rebind(n) = task
<1>1. ASSUME NEW h \in Sign PROVE task[<<n, h>>].pc # "share"
  <2>1. SUFFICES ASSUME Tk(s, n, h).pc = "share" PROVE FALSE
    BY DEF Seen
  <2>2. Called(s, h) /\ ~Settled(s, h)
    BY <2>1, AtTask
  <2>3. g = h
    BY <2>2, OneActive
  <2> QED
    BY <2>1, <2>3
<1>2. task \in [Node \X Sign -> Task]
  BY DEF Types
<1>3. ASSUME NEW p \in Node \X Sign PROVE Rebind(n)[p] = task[p]
  <2>1. p = <<p[1], p[2]>> /\ p[2] \in Sign
    OBVIOUS
  <2>2. ~(p[1] = n /\ task[p].pc = "share")
    BY <1>1, <2>1
  <2> QED
    BY <2>2 DEF Rebind
<1>4. Rebind(n) = [p \in Node \X Sign |-> Rebind(n)[p]]
  BY DEF Rebind
<1>5. task = [p \in Node \X Sign |-> task[p]]
  BY <1>2
<1> QED
  BY <1>3, <1>4, <1>5

LEMMA TreeLevelJoint ==
  ASSUME Types, Joint, "order" \in Timing, request' = request, down' = down,
         NEW n \in Node, NEW i \in 1..Len(inbox[n]), Next1(n, i), TreeLevel(n, i)
  PROVE  Joint'
<1>1. PICK s : s = Now
  OBVIOUS
<1>2. PICK m : m = inbox[n][i]
  OBVIOUS
<1>3. AtRead(s, n, m)
  BY <1>1, <1>2, Reading
<1>4. PICK c : c = m.c
  OBVIOUS
<1>5. PICK box : box = Take(n, i)
  OBVIOUS
<1>6. /\ n = c.b /\ resp[c] = "level"
      /\ \/ /\ m.kind = "level0" /\ task' = Rebind(n)
            /\ \E d \in Dropped(n, active[n]) : Respond(c, "payload", <<c>>, box, d)
         \/ /\ m.kind = "level1" /\ task' = task
            /\ Respond(c, "hold", Put(n, active[n], c), box, Nothing)
         \/ m.kind \notin {"level0", "level1"}
  BY <1>2, <1>4, <1>5 DEF TreeLevel, Respond
<1>7. /\ c \in Chan /\ Mesh(s) /\ Seen(s) /\ m \in s.mail[n] /\ FirstIn(s, n, m) /\ Turn1(s, n, m)
      /\ s.act[n] = active[n] /\ s.resp[c] = "level" /\ c.g \in Sign
  BY <1>3, <1>4, <1>6, ChanFields DEF AtRead, Seen
<1>8. m.kind \in {"level0", "level1"} /\ Opened(s, c) /\ Link(s, c)
  BY <1>4, <1>6, <1>7, LevelKind
<1>9. ~Settled(s, c.g) /\ Called(s, c.g)
  BY <1>7, <1>8 DEF Settled, Link
<1>10. ChannelJ(s, c) /\ Sound(s, n, m)
  BY <1>7, AtLink, AtMail
<1>11. CASE /\ m.kind = "level0" /\ task' = Rebind(n)
            /\ \E d \in Dropped(n, active[n]) : Respond(c, "payload", <<c>>, box, d)
  <2>1. c.a = s.req[c.g].main
    BY <1>4, <1>10, <1>11 DEF Sound
  <2>2. Tk(s, n, c.g).pc = "idle"
    BY <1>6, <1>7, <1>8, <1>10, <2>1 DEF ChannelJ, Waiting
  <2>3. task' = task
    BY <1>7, <1>9, <1>11, <2>2, RebindNone
  <2>4. active[n] = <<>>
    <3>1. \A e \in Chan : e \notin Ran(s.act[n])
      BY <1>6, <1>7, <1>8, <1>9, <2>1, AtDictionary, HoldsNone
    <3>2. s.act[n] \in Seq(Chan)
      BY <1>7, AtDictionary DEF Dictionary
    <3> QED
      BY <1>7, <3>1, <3>2 DEF Ran
  <2>5. PICK out : out = Nothing /\ Respond(c, "payload", <<c>>, box, out)
    BY <1>11, <2>4, DropNothing
  <2>6. PICK act : act = <<c>>
    OBVIOUS
  <2>7. Replies(n, i, m, c, "payload", act, box, out)
    BY <1>2, <1>5, <1>6, <2>3, <2>5, <2>6 DEF Replies
  <2>8. ASSUME NEW u, Move(s, u, n, c.g, Tk(s, n, c.g), act, c, "payload", Only(n, m), Silent)
        PROVE  Mesh(u)
    <3>1. LevelTop(s, u, c, m)
      BY <1>4, <1>6, <1>7, <1>11, <2>6, <2>8 DEF LevelTop
    <3> QED
      BY <1>7, <3>1, LevelTopMoves
  <2> QED
    BY <1>1, <1>7, <2>5, <2>7, <2>8, ReplySilent
<1>12. CASE /\ m.kind = "level1" /\ task' = task
            /\ Respond(c, "hold", Put(n, active[n], c), box, Nothing)
  <2>1. PICK act : act = Put(n, active[n], c)
    OBVIOUS
  <2>2. Dictionary(n, act) /\ Ran(act) = {d \in Ran(active[n]) : Other(n, d) # Other(n, c)} \cup {c}
    <3>1. Dictionary(n, active[n])
      BY <1>7, AtDictionary
    <3> QED
      BY <1>6, <1>7, <2>1, <3>1, PutDictionary
  <2>3. ASSUME NEW d \in Ran(active[n]), Other(n, d) = Other(n, c) PROVE d = c
    BY <1>6, <1>7, <1>8, <1>9, <2>3, NotHeld
  <2>4. Ran(act) = Ran(s.act[n]) \cup {c}
    BY <1>7, <2>2, <2>3
  <2>5. s.resp[Up(s, n, c.g)] \notin {"none", "level"}
    BY <1>4, <1>6, <1>7, <1>12, TopRead
  <2>6. PICK out : out = Nothing
    OBVIOUS
  <2>7. Replies(n, i, m, c, "hold", act, box, out)
    BY <1>2, <1>5, <1>6, <1>12, <2>1, <2>6 DEF Replies
  <2>8. ASSUME NEW u, Move(s, u, n, c.g, Tk(s, n, c.g), act, c, "hold", Only(n, m), Silent)
        PROVE  Mesh(u)
    <3>1. LevelBelow(s, u, c, m, act)
      BY <1>4, <1>6, <1>7, <1>12, <2>2, <2>4, <2>5, <2>8 DEF LevelBelow
    <3> QED
      BY <1>7, <3>1, LevelBelowMoves
  <2> QED
    BY <1>1, <1>7, <2>6, <2>7, <2>8, ReplySilent
<1> QED
  BY <1>6, <1>8, <1>11, <1>12

(* An end of file has one reader: no share is awaited behind it.           *)
LEMMA OneReader ==
  ASSUME NEW s, Mesh(s), NEW n \in Node, NEW g \in Sign, NEW m, FirstIn(s, n, m),
         m.c \in Chan, n = m.c.b, m.kind = "eof"
  PROVE  Tk(s, n, g).wait # m.c
<1> DEFINE t == Tk(s, n, g)
           q == s.req[g]
<1>1. /\ TaskJ(q, n, g, t) /\ ConnectJ(q, n, g, t)
      /\ Called(s, g) => MainJ(q, g, Tk(s, q.main, g))
  BY DEF Mesh, TasksJ
<1>2. SUFFICES ASSUME t.wait = m.c PROVE FALSE
  OBVIOUS
<1>3. m.c # NoChan /\ m.c.a # n
  BY NotAChannel, ChanFields
<1> HIDE DEF t, q
<1>4. t.pc # "share"
  BY <1>2, ShareKind DEF t
<1>5. t.pc # "connect"
  BY <1>1, <1>2, <1>3 DEF ConnectJ
<1>6. ASSUME t.pc = "ack" PROVE FALSE
  <2>1. n = q.main /\ q.main # None
    BY <1>1, <1>6 DEF TaskJ
  <2>2. MainJ(q, g, t)
    BY <1>1, <2>1 DEF Called, q, t
  <2>3. m.c.a = n
    BY <1>2, <1>3, <1>6, <2>1, <2>2 DEF MainJ
  <2> QED
    BY <1>3, <2>3
<1>7. t.pc \in {"idle", "connect", "ack", "share", "sleep", "sleep2", "done", "failed"}
  BY <1>1 DEF TaskJ, Task, Ended
<1> QED
  BY <1>1, <1>2, <1>3, <1>4, <1>5, <1>6, <1>7 DEF TaskJ, Over

LEMMA EndOfFileJoint ==
  ASSUME Types, Joint, "order" \in Timing, request' = request, down' = down,
         NEW n \in Node, NEW i \in 1..Len(inbox[n]), Next1(n, i), EndOfFile(n, i)
  PROVE  Joint'
<1>1. PICK s : s = Now
  OBVIOUS
<1>2. PICK m : m = inbox[n][i]
  OBVIOUS
<1>3. AtRead(s, n, m)
  BY <1>1, <1>2, Reading
<1>4. PICK c : c = m.c
  OBVIOUS
<1>5. PICK box : box = Take(n, i)
  OBVIOUS
<1>5a. n = c.b /\ m.kind = "eof" /\ c \in Chan /\ Mesh(s) /\ Seen(s) /\ FirstIn(s, n, m)
  BY <1>2, <1>3, <1>4 DEF EndOfFile, AtRead
<1>5b. ReadEnd(n, i, \E g \in Sign : task[<<n, g>>].wait = c) = box
  <2>1. ASSUME NEW g \in Sign PROVE task[<<n, g>>].wait # c
    <3>1. Tk(s, n, g).wait # c
      BY <1>5a, <1>4, OneReader
    <3>2. Tk(s, n, g) = task[<<n, g>>]
      BY <1>5a DEF Seen
    <3> QED
      BY <3>1, <3>2
  <2> QED
    BY <1>5, <2>1 DEF ReadEnd
<1>6. /\ n = c.b /\ resp[c] = "hold" /\ m.kind = "eof" /\ task' = task
      /\ Has(n, active[n], c.a) =>
           Respond(c, "closed", Without(n, active[n], {c.a}), box, Post(c.a, Msg(c, "eof")))
  BY <1>2, <1>4, <1>5b DEF EndOfFile
<1>7. /\ c \in Chan /\ Mesh(s) /\ Seen(s) /\ m \in s.mail[n] /\ Turn1(s, n, m)
      /\ s.act[n] = active[n] /\ s.resp[c] = "hold" /\ c.g \in Sign /\ c.a \in Node /\ c.a # n
      /\ Link(s, c)
  BY <1>3, <1>4, <1>6, ChanFields DEF AtRead, Seen
<1>8. ~Settled(s, c.g)
  BY <1>7 DEF Settled
<1>9. Other(n, c) = c.a
  BY <1>6, <1>7 DEF Other
<1>10. c \in Ran(active[n]) /\ Dictionary(n, active[n])
  BY <1>6, <1>7, AtDictionary DEF Holds
<1>11. Has(n, active[n], c.a)
  BY <1>9, <1>10, HasRan
<1>12. PICK act : act = Without(n, active[n], {c.a})
  OBVIOUS
<1>13. Dictionary(n, act) /\ Ran(act) = {d \in Ran(active[n]) : Other(n, d) \notin {c.a}}
  BY <1>10, <1>12, WithoutDictionary
<1>14. ASSUME NEW d \in Ran(active[n]), Other(n, d) = c.a PROVE d = c
  BY <1>6, <1>7, <1>8, <1>9, <1>14, NotHeld
<1>15. Ran(act) = Ran(s.act[n]) \ {c}
  BY <1>7, <1>9, <1>13, <1>14
<1>16. Tk(s, n, c.g).pc # "share"
  <2>1. Tk(s, n, c.g).pc = "share" => Tk(s, n, c.g).wait # NoChan
    <3>1. TaskOK(n, c.g, task[<<n, c.g>>]) /\ Tk(s, n, c.g) = task[<<n, c.g>>]
      BY <1>7 DEF Types, Seen
    <3>2. ASSUME NEW t, TaskOK(n, c.g, t), t.pc = "share" PROVE t.wait # NoChan
      <4>1. t.wait = t.members[t.at] /\ t.at \in 1..Len(t.members) /\ t.members \in Seq(Chan)
        BY <3>2 DEF TaskOK, TaskData, Task
      <4> QED
        BY <4>1, NotAChannel
    <3> QED
      BY <3>1, <3>2
  <2> QED
    BY <1>4, <1>6, <1>7, <2>1, EofAfter
<1>17. Closed(c.a, c)
  <2>1. Sound(s, n, m)
    BY <1>7, AtMail
  <2>2. Tk(s, c.a, c.g).pc \in {"sleep2", "done"}
    BY <1>4, <1>6, <2>1 DEF Sound
  <2>3. task[<<c.a, c.g>>].pc \in {"sleep2", "done"}
    BY <1>7, <2>2 DEF Seen
  <2> QED
    BY <2>3 DEF Closed
<1>18. PICK out : out = Nothing /\ out = Post(c.a, Msg(c, "eof"))
  <2>1. Msg(c, "eof").c = c
    BY <1>7, Plain DEF Kinds
  <2> QED
    BY <1>17, <2>1, PostClosed
<1>19. Replies(n, i, m, c, "closed", act, box, out)
  BY <1>2, <1>5, <1>6, <1>11, <1>12, <1>18 DEF Replies
<1>20. ASSUME NEW u, Move(s, u, n, c.g, Tk(s, n, c.g), act, c, "closed", Only(n, m), Silent)
       PROVE  Mesh(u)
  <2>1. EofRead(s, u, c, m, act)
    BY <1>4, <1>6, <1>7, <1>13, <1>15, <1>16, <1>20 DEF EofRead
  <2> QED
    BY <1>7, <2>1, EofReadMoves
<1> QED
  BY <1>1, <1>7, <1>18, <1>19, <1>20, ReplySilent

Told(c, k) == [Idle EXCEPT !.from = c, !.list = k]
ToldNow(c, k) == [Idle EXCEPT !.pc = "connect", !.from = c, !.list = k]

LEMMA ToldSame ==
  ASSUME NEW c \in Chan, NEW k \in Seq(Node), NEW t, t = Told(c, k), NEW o, o = ToldNow(c, k)
  PROVE  t \in Task /\ Virtual(t, o) /\ t.from = c /\ o.at = t.at /\ o.pc = "connect"
<1>1. t = [pc |-> "idle", wait |-> NoChan, from |-> c, list |-> k, opened |-> <<>>, asked |-> 0,
           round |-> 0, members |-> <<>>, at |-> 0, rebound |-> FALSE]
  BY DEF Told, Idle
<1>2. o = [pc |-> "connect", wait |-> NoChan, from |-> c, list |-> k, opened |-> <<>>, asked |-> 0,
           round |-> 0, members |-> <<>>, at |-> 0, rebound |-> FALSE]
  BY DEF ToldNow, Idle
<1>3. PICK y : y = [t EXCEPT !.pc = "connect", !.wait = NoChan, !.at = 0]
  OBVIOUS
<1>4. y = [pc |-> "connect", wait |-> NoChan, from |-> c, list |-> k, opened |-> <<>>, asked |-> 0,
           round |-> 0, members |-> <<>>, at |-> 0, rebound |-> FALSE]
  BY ONLY <1>1, <1>3
<1>5. o = y
  BY ONLY <1>2, <1>4
<1>6. Virtual(t, o)
  BY <1>3, <1>5 DEF Virtual
<1>7. t \in Task
  <2>1. 0 \in 0..Rounds
    BY BoundAssumption
  <2> QED
    BY <1>1, <2>1 DEF Task, Ended
<1> QED
  BY ONLY <1>1, <1>2, <1>6, <1>7

LEMMA PayloadJoint ==
  ASSUME Types, Joint, "order" \in Timing, request' = request, down' = down,
         NEW n \in Node, NEW i \in 1..Len(inbox[n]), Next1(n, i), Payload(n, i)
  PROVE  Joint'
<1>1. PICK s : s = Now
  OBVIOUS
<1>2. PICK m : m = inbox[n][i]
  OBVIOUS
<1>3. AtRead(s, n, m)
  BY <1>1, <1>2, Reading
<1>4. PICK c : c = m.c
  OBVIOUS
<1>5. PICK g : g = c.g
  OBVIOUS
<1>6. /\ n = c.b /\ resp[c] = "payload"
      /\ m.kind = "payload" => ConnectNext(n, g, Told(c, m.nodes), active[n], Take(n, i), Nothing)
  BY <1>2, <1>4, <1>5 DEF Payload, Told
<1>7. /\ c \in Chan /\ Mesh(s) /\ Seen(s) /\ m \in s.mail[n] /\ Turn1(s, n, m)
      /\ s.act[n] = active[n] /\ s.resp[c] = "payload" /\ g \in Sign /\ m.nodes \in Seq(Node)
  BY <1>3, <1>4, <1>5, <1>6, ChanFields DEF AtRead, Seen, Message
<1>8. m.kind = "payload" /\ Tk(s, n, g).pc = "idle"
  BY <1>4, <1>5, <1>6, <1>7, PayloadKind
<1>9. \A d \in Chan : Link(s, d) /\ d.b = n /\ d.g = g /\ d # c => s.resp[d] = "hold"
  BY <1>4, <1>5, <1>6, <1>7, BelowHeld
<1>10. PICK t : t = Told(c, m.nodes)
  OBVIOUS
<1>11. PICK o : o = ToldNow(c, m.nodes)
  OBVIOUS
<1>12. t \in Task /\ Virtual(t, o) /\ t.from = c /\ o.at = t.at /\ o.pc = "connect"
  BY <1>7, <1>10, <1>11, ToldSame
<1>13. PICK act : act = active[n]
  OBVIOUS
<1>14. PICK u : Move(s, u, n, g, o, act, c, "sign", Only(n, m), Silent)
  BY <1>7, MoveExists
<1>15. PayloadRead(s, u, n, g, o, c, m)
  BY <1>4, <1>5, <1>6, <1>7, <1>8, <1>9, <1>11, <1>13, <1>14 DEF PayloadRead, ToldNow
<1>16. Mesh(u)
  BY <1>7, <1>15, PayloadReadMoves
<1>17. Gone(u, n, g, o, act, c, "sign", m, Silent)
  BY <1>1, <1>6, <1>14, <1>16 DEF Gone, Silent
<1>18. \A d \in Chan : u.resp[d] = IF d = t.from THEN "sign" ELSE resp[d]
  BY <1>7, <1>12, <1>14 DEF Move, Seen
<1>19. Tk(Now, n, g).pc \notin {"sleep2", "done"}
  BY <1>1, <1>8
<1>20. PICK out : out = Nothing /\ InOrder(out) /\ \A k \in Node : Ran(out[k]) = Silent[k]
  BY NothingMail
<1>21. GoesOn(n, g, i, m, u, o, act, c, "sign", Silent, out, t)
  BY <1>2, <1>12, <1>17, <1>18, <1>19, <1>20 DEF GoesOn
<1>22. Going(u, n, g, t, act, Take(n, i), out)
  BY <1>7, <1>21, GoFrom
<1>23. Tk(u, n, g) = o
  BY <1>7, <1>14 DEF Move
<1>24. ConnectNext(n, g, t, act, Take(n, i), out)
  BY <1>6, <1>8, <1>10, <1>13, <1>20
<1> QED
  BY <1>7, <1>12, <1>22, <1>23, <1>24, GoConnect

-----------------------------------------------------------------------------
(* CloseChannels, Finish.                                                  *)

(* A step of n for g that reads nothing.                                   *)
Leaves(n, g, y, act, c, r, out) ==
  /\ \A k \in Node, h \in Sign : task'[<<k, h>>] = IF k = n /\ h = g THEN y ELSE task[<<k, h>>]
  /\ \A k \in Node : active'[k] = IF k = n THEN act ELSE active[k]
  /\ \A d \in Chan : resp'[d] = IF d = c THEN r ELSE resp[d]
  /\ inbox' = inbox ++ out /\ request' = request /\ down' = down

LEMMA LeaveMove ==
  ASSUME Types, Joint, NEW n \in Node, NEW g \in Sign, NEW y, NEW act, NEW c, NEW r,
         NEW out, InOrder(out), Leaves(n, g, y, act, c, r, out),
         NEW new, \A k \in Node : Ran(out[k]) = new[k], NEW s, s = Now, NEW u, u = Now'
  PROVE  /\ Move(s, u, n, g, y, act, c, r, Silent, new)
         /\ Sent(s, inbox, Silent, out)
<1>1. Seen(s) /\ down = {} /\ InOrder(inbox)
  BY SeenNow DEF Joint
<1>2. /\ u.req = request' /\ u.task = task' /\ u.resp = resp' /\ u.act = active'
      /\ u.mail = [k \in Node |-> Ran(inbox'[k])]
  BY DEF Now
<1>3. /\ s.req = request
      /\ \A k \in Node, h \in Sign : Tk(s, k, h) = task[<<k, h>>]
      /\ \A k \in Node : s.act[k] = active[k]
      /\ \A d \in Chan : s.resp[d] = resp[d]
      /\ \A k \in Node : s.mail[k] = Ran(inbox[k])
  BY <1>1 DEF Seen
<1>4. \A k \in Node, h \in Sign : Tk(u, k, h) = IF k = n /\ h = g THEN y ELSE Tk(s, k, h)
  <2>1. ASSUME NEW k \in Node, NEW h \in Sign
        PROVE  Tk(u, k, h) = IF k = n /\ h = g THEN y ELSE Tk(s, k, h)
    <3>1. Tk(u, k, h) = task'[<<k, h>>]
      BY <1>2 DEF Tk
    <3>2. task'[<<k, h>>] = IF k = n /\ h = g THEN y ELSE task[<<k, h>>]
      BY DEF Leaves
    <3>3. Tk(s, k, h) = task[<<k, h>>]
      BY <1>3
    <3> QED
      BY ONLY <3>1, <3>2, <3>3
  <2> QED
    BY <2>1
<1>5. \A k \in Node : u.act[k] = IF k = n THEN act ELSE s.act[k]
  BY <1>2, <1>3 DEF Leaves
<1>6. \A d \in Chan : u.resp[d] = IF d = c THEN r ELSE s.resp[d]
  BY <1>2, <1>3 DEF Leaves
<1>7. ASSUME NEW k \in Node PROVE u.mail[k] = (s.mail[k] \ Silent[k]) \cup new[k]
  <2>1. u.mail[k] = Ran((inbox ++ out)[k])
    BY <1>2 DEF Leaves
  <2>2. Ran((inbox ++ out)[k]) = Ran(inbox[k]) \cup Ran(out[k])
    BY <1>1, After DEF InOrder
  <2> QED
    BY <1>3, <2>1, <2>2 DEF Silent
<1>8. u.req = s.req /\ inbox' = inbox ++ out /\ down' = {}
  BY <1>1, <1>2, <1>3 DEF Leaves
<1>9. \A k \in Node : s.mail[k] \ Silent[k] = Ran(inbox[k])
  BY <1>3 DEF Silent
<1> QED
  BY <1>1, <1>4, <1>5, <1>6, <1>7, <1>8, <1>9 DEF Move, Sent

(* One channel of a dictionary leads to a node.                            *)
LEMMA OneHeld ==
  ASSUME NEW n, NEW act, Dictionary(n, act), NEW c \in Ran(act), NEW d \in Ran(act),
         Other(n, c) = Other(n, d)
  PROVE  c = d
BY DEF Dictionary, Ran

LEMMA EofIs ==
  ASSUME NEW d
  PROVE  [Msg(d, "eof") EXCEPT !.round = 0] = Msg(d, "eof")
BY DEF Msg

Closes(t) == [t EXCEPT !.pc = "sleep2"]

LEMMA CloseChannelsJoint ==
  ASSUME Types, Joint, NEW n \in Node, NEW g \in Sign, CloseChannels(n, g)
  PROVE  Joint'
<1>1. PICK s : s = Now
  OBVIOUS
<1>2. PICK t : t = task[<<n, g>>]
  OBVIOUS
<1>3. Mesh(s) /\ Seen(s) /\ t = Tk(s, n, g) /\ s.act[n] = active[n] /\ down = {}
  BY <1>1, <1>2, SeenNow DEF Joint, Seen
<1>4. PICK held : held = {i \in 1..Len(t.opened) : Has(n, active[n], t.opened[i].b)}
  OBVIOUS
<1>5. PICK done : done = {i \in held : 1..i \subseteq held}
  OBVIOUS
<1>6. PICK peers : peers = {t.opened[i].b : i \in done}
  OBVIOUS
<1>7. PICK act : act = Without(n, active[n], peers)
  OBVIOUS
<1>8. PICK kept : kept = Keep(active[n], {c \in Chan : Other(n, c) \in peers})
  OBVIOUS
<1>9. PICK y : y = Closes(t)
  OBVIOUS
<1>10. /\ t.pc = "sleep" /\ request' = request /\ down' = down
       /\ done = 1..Len(t.opened) => Await(n, g, y, act, inbox, Eofs(n, kept))
  <2>1. LET w == task[<<n, g>>]
            H == {i \in 1..Len(w.opened) : Has(n, active[n], w.opened[i].b)}
            D == {i \in H : 1..i \subseteq H}
            P == {w.opened[i].b : i \in D}
            A == Without(n, active[n], P)
            O == Eofs(n, Keep(active[n], {c \in Chan : Other(n, c) \in P}))
        IN /\ w.pc = "sleep"
           /\ D = 1..Len(w.opened) => Await(n, g, [w EXCEPT !.pc = "sleep2"], A, inbox, O)
    BY DEF CloseChannels
  <2>2. LET H == {i \in 1..Len(t.opened) : Has(n, active[n], t.opened[i].b)}
            D == {i \in H : 1..i \subseteq H}
            P == {t.opened[i].b : i \in D}
            A == Without(n, active[n], P)
            O == Eofs(n, Keep(active[n], {c \in Chan : Other(n, c) \in P}))
        IN /\ t.pc = "sleep"
           /\ D = 1..Len(t.opened) => Await(n, g, [t EXCEPT !.pc = "sleep2"], A, inbox, O)
    BY ONLY <2>1, <1>2
  <2>3. LET D == {i \in held : 1..i \subseteq held}
            P == {t.opened[i].b : i \in D}
            A == Without(n, active[n], P)
            O == Eofs(n, Keep(active[n], {c \in Chan : Other(n, c) \in P}))
        IN D = 1..Len(t.opened) => Await(n, g, y, A, inbox, O)
    BY ONLY <2>2, <1>4, <1>9 DEF Closes
  <2>4. LET P == {t.opened[i].b : i \in done}
            A == Without(n, active[n], P)
            O == Eofs(n, Keep(active[n], {c \in Chan : Other(n, c) \in P}))
        IN done = 1..Len(t.opened) => Await(n, g, y, A, inbox, O)
    BY ONLY <2>3, <1>5
  <2>5. done = 1..Len(t.opened) => Await(n, g, y, act, inbox, Eofs(n, kept))
    BY ONLY <2>4, <1>6, <1>7, <1>8
  <2>6. request' = request /\ down' = down
    BY DEF CloseChannels
  <2> QED
    BY <2>2, <2>5, <2>6
<1>11. t \in Task /\ \A c \in Ran(t.opened) : c.a = n /\ c.g = g
  <2>1. TaskJ(s.req[g], n, g, t)
    BY <1>3, AtTask
  <2> QED
    BY <2>1 DEF TaskJ
<1>12. t.opened \in Seq(Chan) /\ Len(t.opened) \in Nat
  BY <1>11 DEF Task
<1>13. Dictionary(n, active[n])
  BY <1>3, AtDictionary
<1>14. ASSUME NEW c \in Ran(t.opened)
       PROVE  c \in Chan /\ c.a = n /\ c.g = g /\ c \in Ran(active[n]) /\ Other(n, c) = c.b
  <2>1. c \in Chan /\ c.a = n /\ c.g = g
    BY <1>11, <1>12 DEF Ran
  <2>2. Holds(s, n, c)
    BY <1>3, <1>10, <2>1 DEF Holds
  <2> QED
    BY <1>3, <2>1, <2>2, AtDictionary DEF Other
<1>15. held = 1..Len(t.opened)
  <2>1. ASSUME NEW i \in 1..Len(t.opened) PROVE Has(n, active[n], t.opened[i].b)
    <3>1. t.opened[i] \in Ran(t.opened)
      BY DEF Ran
    <3> QED
      BY <1>14, <3>1, HasRan
  <2> QED
    BY <1>4, <2>1
<1>16. done = 1..Len(t.opened)
  BY <1>5, <1>12, <1>15
<1>17. \A k : k \in peers <=> \E c \in Ran(t.opened) : c.b = k
  BY <1>6, <1>16 DEF Ran
<1>18. Dictionary(n, act) /\ Ran(act) = Ran(s.act[n]) \ Ran(t.opened)
  <2>1. Dictionary(n, act) /\ Ran(act) = {c \in Ran(active[n]) : Other(n, c) \notin peers}
    BY <1>7, <1>13, WithoutDictionary
  <2>2. ASSUME NEW c \in Ran(active[n]) PROVE Other(n, c) \in peers <=> c \in Ran(t.opened)
    <3>1. ASSUME NEW d \in Ran(t.opened), d.b = Other(n, c) PROVE c = d
      BY <1>13, <1>14, <2>2, <3>1, OneHeld
    <3> QED
      BY <1>14, <1>17, <3>1
  <2> QED
    BY <1>3, <2>1, <2>2
<1>19. Dictionary(n, kept) /\ Ran(kept) = Ran(t.opened)
  <2>1. Dictionary(n, kept) /\ Ran(kept) = Ran(active[n]) \cap {c \in Chan : Other(n, c) \in peers}
    BY <1>8, <1>13, KeepDictionary
  <2>2. ASSUME NEW c \in Ran(kept) PROVE c \in Ran(t.opened)
    <3>1. PICK d \in Ran(t.opened) : d.b = Other(n, c)
      BY <1>17, <2>1, <2>2
    <3> QED
      BY <1>13, <1>14, <2>1, <2>2, <3>1, OneHeld
  <2>3. ASSUME NEW c \in Ran(t.opened) PROVE c \in Ran(kept)
    BY <1>14, <1>17, <2>1, <2>3
  <2> QED
    BY <2>1, <2>2, <2>3
<1>20. PICK out : out = Eofs(n, kept)
  OBVIOUS
<1>21. /\ InOrder(out)
       /\ \A k \in Node : Ran(out[k]) = {Msg(d, "eof") : d \in {e \in Ran(t.opened) : e.b = k /\ ~Closed(k, e)}}
  <2>1. "eof" \in Kinds /\ 0 \in 0..Rounds
    BY BoundAssumption DEF Kinds
  <2>2. /\ InOrder(PostEach(n, kept, "eof", 0))
        /\ \A k \in Node : Ran(PostEach(n, kept, "eof", 0)[k]) =
             {[Msg(d, "eof") EXCEPT !.round = 0] :
                d \in {e \in Ran(kept) : Other(n, e) = k /\ ~Closed(k, e)}}
    BY <1>19, <2>1, EachMail
  <2>3. ASSUME NEW k \in Node
        PROVE  Ran(out[k]) = {Msg(d, "eof") : d \in {e \in Ran(t.opened) : e.b = k /\ ~Closed(k, e)}}
    <3>1. Ran(out[k]) = {[Msg(d, "eof") EXCEPT !.round = 0] :
                           d \in {e \in Ran(kept) : Other(n, e) = k /\ ~Closed(k, e)}}
      BY <1>20, <2>2 DEF Eofs
    <3>2. Ran(out[k]) = {Msg(d, "eof") : d \in {e \in Ran(kept) : Other(n, e) = k /\ ~Closed(k, e)}}
      BY <3>1, EofIs
    <3>3. {e \in Ran(kept) : Other(n, e) = k /\ ~Closed(k, e)} =
            {e \in Ran(t.opened) : e.b = k /\ ~Closed(k, e)}
      BY <1>14, <1>19
    <3> QED
      BY <3>2, <3>3
  <2> QED
    BY <1>20, <2>2, <2>3 DEF Eofs
<1>22. y.from = t.from
  BY <1>9, <1>11 DEF Closes, Task
<1>23. Await(n, g, y, act, inbox, out)
  BY <1>10, <1>16, <1>20
<1>24. Leaves(n, g, y, act, NoChan, "none", out)
  <2>1. /\ \A k \in Node, h \in Sign :
             task'[<<k, h>>] = IF k = n /\ h = g THEN y ELSE task[<<k, h>>]
        /\ \A k \in Node : active'[k] = IF k = n THEN act ELSE active[k]
        /\ \A d \in Chan : resp'[d] = IF d = y.from THEN "sign" ELSE resp[d]
        /\ inbox' = inbox ++ out
    BY <1>23, AwaitIs
  <2>2. ASSUME NEW d \in Chan PROVE resp'[d] = IF d = NoChan THEN "none" ELSE resp[d]
    <3>1. s.resp[d] = resp[d]
      BY <1>3 DEF Seen
    <3>2. d = t.from => s.resp[d] = "sign"
      BY <1>3, <1>10, FromSign, NotAChannel
    <3> QED
      BY <1>22, <2>1, <3>1, <3>2, NotAChannel
  <2> QED
    BY <1>10, <2>1, <2>2 DEF Leaves
<1>25. PICK new : new = [k \in Node |-> Ran(out[k])]
  OBVIOUS
<1>26. PICK u : u = Now'
  OBVIOUS
<1>27. /\ Move(s, u, n, g, y, act, NoChan, "none", Silent, new)
       /\ Sent(s, inbox, Silent, out)
  BY <1>1, <1>21, <1>24, <1>25, <1>26, LeaveMove
<1>28. ASSUME NEW k \in Node, NEW v \in new[k]
       PROVE  \E d \in Ran(t.opened) : d.b = k /\ v = Msg(d, "eof")
  BY <1>21, <1>25, <1>28
<1>29. ASSUME NEW d \in Ran(t.opened), s.resp[d] # "closed" PROVE Msg(d, "eof") \in new[d.b]
  <2>1. d \in Chan /\ d.a # d.b /\ d.b \in Node
    BY <1>14, ChanFields
  <2>2. ~Closed(d.b, d)
    BY <1>3, <1>29, <2>1 DEF Closed, Seen
  <2> QED
    BY <1>21, <1>25, <2>1, <2>2
<1>30. Closing(s, u, n, g, y, act, new)
  BY <1>3, <1>9, <1>10, <1>18, <1>27, <1>28, <1>29 DEF Closing, Closes
<1>31. Mesh(u) /\ \A k \in Node : \A v \in new[k] : Fresh(s, k, v)
  BY <1>3, <1>30, ClosingMoves
<1>32. \A k \in Node : new[k] = Ran(out[k])
  BY <1>25
<1> QED
  BY <1>21, <1>26, <1>27, <1>31, <1>32, EndJoint

(* Finish(), when the task t was begun by the channel c, or by a client.   *)
FinishesPeer(n, g, t, c, act, y) ==
  /\ c # NoChan /\ c = t.from /\ Has(n, active[n], c.a)
  /\ act = Without(n, active[n], {c.a})
  /\ task' = [task EXCEPT ![<<n, g>>] = y]
  /\ active' = [active EXCEPT ![n] = act]
  /\ inbox' = inbox ++ Eofs(n, <<c>>)
  /\ resp' = [resp EXCEPT ![c] = "closed"]

FinishesMain(n, g, t, y) ==
  /\ t.from = NoChan
  /\ task' = [task EXCEPT ![<<n, g>>] = y]
  /\ UNCHANGED <<active, inbox, resp>>

LEMMA FinishIs ==
  ASSUME NEW n \in Node, NEW g \in Sign, Finish(n, g), NEW t, t = task[<<n, g>>],
         NEW y, y = Leave(t, "done"), t.from # NoChan => Has(n, active[n], t.from.a),
         NEW c, c = t.from, NEW act, act = Without(n, active[n], {c.a})
  PROVE  /\ t.pc = "sleep2" /\ request' = request /\ down' = down
         /\ FinishesPeer(n, g, t, c, act, y) \/ FinishesMain(n, g, t, y)
<1>1. /\ t.pc = "sleep2" /\ request' = request /\ down' = down
      /\ \/ t.from # NoChan /\ ~Has(n, active[n], t.from.a)
         \/ /\ t.from # NoChan /\ Has(n, active[n], t.from.a)
            /\ task' = [task EXCEPT ![<<n, g>>] = Leave(t, "done")]
            /\ active' = [active EXCEPT ![n] = Without(n, @, {t.from.a})]
            /\ inbox' = inbox ++ Eofs(n, <<t.from>>)
            /\ resp' = [resp EXCEPT ![t.from] = "closed"]
         \/ /\ t.from = NoChan
            /\ task' = [task EXCEPT ![<<n, g>>] = Leave(t, "done")]
            /\ UNCHANGED <<active, inbox, resp>>
  BY DEF Finish
<1>2. \/ /\ t.from # NoChan /\ Has(n, active[n], t.from.a)
         /\ task' = [task EXCEPT ![<<n, g>>] = y]
         /\ active' = [active EXCEPT ![n] = Without(n, @, {t.from.a})]
         /\ inbox' = inbox ++ Eofs(n, <<t.from>>)
         /\ resp' = [resp EXCEPT ![t.from] = "closed"]
      \/ FinishesMain(n, g, t, y)
  BY <1>1 DEF FinishesMain
<1>3. CASE FinishesMain(n, g, t, y)
  BY <1>1, <1>3
<1>4. CASE /\ t.from # NoChan /\ Has(n, active[n], t.from.a)
           /\ task' = [task EXCEPT ![<<n, g>>] = y]
           /\ active' = [active EXCEPT ![n] = Without(n, @, {t.from.a})]
           /\ inbox' = inbox ++ Eofs(n, <<t.from>>)
           /\ resp' = [resp EXCEPT ![t.from] = "closed"]
  <2>1. active' = [active EXCEPT ![n] = Without(n, active[n], {t.from.a})]
    BY <1>4
  <2>2. active' = [active EXCEPT ![n] = act]
    BY <2>1
  <2>3. FinishesPeer(n, g, t, c, act, y)
    BY <1>4, <2>2 DEF FinishesPeer
  <2> QED
    BY <1>1, <2>3
<1> QED
  BY <1>2, <1>3, <1>4

(* The end of file of one channel.                                         *)
LEMMA OneEof ==
  ASSUME NEW n, NEW c \in Chan, c.b = n
  PROVE  /\ InOrder(Eofs(n, <<c>>))
         /\ \A k \in Node : Ran(Eofs(n, <<c>>)[k]) =
              IF Closed(c.a, c) THEN Silent[k] ELSE Only(c.a, Msg(c, "eof"))[k]
<1>1. "eof" \in Kinds /\ 0 \in 0..Rounds
  BY BoundAssumption DEF Kinds
<1>2. Dictionary(n, <<c>>) /\ Ran(<<c>>) = {c}
  BY SmallDictionary
<1>3. n \in Node /\ c.a # n /\ Other(n, c) = c.a
  BY ChanFields DEF Other
<1>4. /\ InOrder(PostEach(n, <<c>>, "eof", 0))
      /\ \A k \in Node : Ran(PostEach(n, <<c>>, "eof", 0)[k]) =
           {[Msg(d, "eof") EXCEPT !.round = 0] :
              d \in {e \in Ran(<<c>>) : Other(n, e) = k /\ ~Closed(k, e)}}
  BY <1>1, <1>2, <1>3, EachMail
<1>5. ASSUME NEW k \in Node
      PROVE  Ran(Eofs(n, <<c>>)[k]) =
               IF Closed(c.a, c) THEN Silent[k] ELSE Only(c.a, Msg(c, "eof"))[k]
  <2>1. Ran(Eofs(n, <<c>>)[k]) =
          {[Msg(d, "eof") EXCEPT !.round = 0] :
             d \in {e \in Ran(<<c>>) : Other(n, e) = k /\ ~Closed(k, e)}}
    BY <1>4 DEF Eofs
  <2>2. Ran(Eofs(n, <<c>>)[k]) =
          {Msg(d, "eof") : d \in {e \in Ran(<<c>>) : Other(n, e) = k /\ ~Closed(k, e)}}
    BY <2>1, EofIs
  <2>3. {e \in Ran(<<c>>) : Other(n, e) = k /\ ~Closed(k, e)} =
          IF c.a = k /\ ~Closed(c.a, c) THEN {c} ELSE {}
    BY <1>2, <1>3
  <2> QED
    BY <2>2, <2>3 DEF Silent, Only
<1> QED
  BY <1>4, <1>5 DEF Eofs

LEMMA FinishJoint ==
  ASSUME Types, Joint, NEW n \in Node, NEW g \in Sign, Finish(n, g)
  PROVE  Joint'
<1>1. PICK s : s = Now
  OBVIOUS
<1>2. PICK t : t = task[<<n, g>>]
  OBVIOUS
<1>3. Mesh(s) /\ Seen(s) /\ t = Tk(s, n, g) /\ s.act[n] = active[n] /\ down = {}
  BY <1>1, <1>2, SeenNow DEF Joint, Seen
<1>4. PICK y : y = Leave(t, "done")
  OBVIOUS
<1>5. PICK c : c = t.from
  OBVIOUS
<1>6. PICK act : act = Without(n, active[n], {c.a})
  OBVIOUS
<1>7. t.pc = "sleep2"
  BY <1>2 DEF Finish
<1>8. /\ c = IF n = s.req[g].main THEN NoChan ELSE Up(s, n, g)
      /\ c # NoChan => c \in Chan /\ c.a = s.req[g].main /\ c.b = n /\ s.resp[c] = "sign"
      /\ n = s.req[g].main <=> c = NoChan
  BY <1>3, <1>5, <1>7, FromSign
<1>9. c # NoChan => c \in Ran(active[n]) /\ Other(n, c) = c.a
  <2>1. SUFFICES ASSUME c # NoChan PROVE c \in Ran(active[n]) /\ Other(n, c) = c.a
    OBVIOUS
  <2>2. c \in Chan /\ c.b = n /\ c.a # n
    BY <1>8, <2>1, ChanFields
  <2>3. Holds(s, n, c)
    BY <1>8, <2>1 DEF Holds
  <2> QED
    BY <1>3, <2>2, <2>3, AtDictionary DEF Other
<1>10. c # NoChan => Has(n, active[n], c.a)
  BY <1>9, HasRan
<1>11. /\ request' = request /\ down' = down
       /\ FinishesPeer(n, g, t, c, act, y) \/ FinishesMain(n, g, t, y)
  BY <1>2, <1>4, <1>5, <1>6, <1>10, FinishIs
<1>12. PICK u : u = Now'
  OBVIOUS
<1>13. \A k \in Node, h \in Sign :
         task'[<<k, h>>] = IF k = n /\ h = g THEN y ELSE task[<<k, h>>]
  <2>1. task' = [task EXCEPT ![<<n, g>>] = y]
    BY <1>11 DEF FinishesPeer, FinishesMain
  <2>2. DOMAIN task = Node \X Sign
    BY DEF Types
  <2> QED
    BY <2>1, <2>2
<1>14. CASE FinishesMain(n, g, t, y)
  <2>1. c = NoChan /\ n = s.req[g].main
    BY <1>5, <1>8, <1>14 DEF FinishesMain
  <2>2. inbox' = inbox ++ Nothing
    BY <1>14, AfterNothing DEF FinishesMain, Joint, InOrder
  <2>3. Leaves(n, g, y, active[n], NoChan, "none", Nothing)
    BY <1>11, <1>13, <1>14, <2>2, NotAChannel DEF Leaves, FinishesMain
  <2>4. InOrder(Nothing) /\ \A k \in Node : Ran(Nothing[k]) = Silent[k]
    BY NothingMail
  <2>5. /\ Move(s, u, n, g, y, active[n], NoChan, "none", Silent, Silent)
        /\ Sent(s, inbox, Silent, Nothing)
    BY <1>1, <1>12, <2>3, <2>4, LeaveMove
  <2>6. Rested(s, u, n, g, y)
    BY <1>3, <1>4, <1>7, <2>1, <2>5 DEF Rested
  <2>7. Mesh(u)
    BY <1>3, <2>6, RestedMoves
  <2>8. \A k \in Node : Silent[k] = Ran(Nothing[k]) /\ \A v \in Silent[k] : Fresh(s, k, v)
    BY <2>4 DEF Silent
  <2> QED
    BY <1>12, <2>4, <2>5, <2>7, <2>8, EndJoint
<1>15. CASE FinishesPeer(n, g, t, c, act, y)
  <2>1. c \in Chan /\ c.a = s.req[g].main /\ c.b = n /\ n # s.req[g].main /\ c = Up(s, n, g)
    BY <1>8, <1>15 DEF FinishesPeer
  <2>2. PICK out : out = Eofs(n, <<c>>)
    OBVIOUS
  <2>3. PICK new : new = IF Closed(c.a, c) THEN Silent ELSE Only(c.a, Msg(c, "eof"))
    OBVIOUS
  <2>4. InOrder(out) /\ \A k \in Node : Ran(out[k]) = new[k]
    BY <2>1, <2>2, <2>3, OneEof
  <2>5. Leaves(n, g, y, act, c, "closed", out)
    <3>1. DOMAIN active = Node /\ DOMAIN resp = Chan
      BY DEF Types
    <3>2. \A k \in Node : active'[k] = IF k = n THEN act ELSE active[k]
      BY <1>15, <3>1 DEF FinishesPeer
    <3>3. \A d \in Chan : resp'[d] = IF d = c THEN "closed" ELSE resp[d]
      BY <1>15, <3>1 DEF FinishesPeer
    <3>4. inbox' = inbox ++ out
      BY <1>15, <2>2 DEF FinishesPeer
    <3> QED
      BY <1>11, <1>13, <3>2, <3>3, <3>4 DEF Leaves
  <2>6. /\ Move(s, u, n, g, y, act, c, "closed", Silent, new)
        /\ Sent(s, inbox, Silent, out)
    BY <1>1, <1>12, <2>4, <2>5, LeaveMove
  <2>7. Dictionary(n, act) /\ Ran(act) = Ran(s.act[n]) \ {c}
    <3>1. Dictionary(n, active[n])
      BY <1>3, AtDictionary
    <3>2. Dictionary(n, act) /\ Ran(act) = {d \in Ran(active[n]) : Other(n, d) \notin {c.a}}
      BY <1>6, <3>1, WithoutDictionary
    <3>3. c # NoChan
      BY <2>1, NotAChannel
    <3>4. c \in Ran(active[n]) /\ Other(n, c) = c.a
      BY <1>9, <3>3
    <3>5. \A d \in Ran(active[n]) : Other(n, d) = c.a => d = c
      BY <3>1, <3>4, OneHeld
    <3> QED
      BY <1>3, <3>2, <3>4, <3>5
  <2>8. new \in {Silent, Only(c.a, Msg(c, "eof"))}
    BY <2>3
  <2>9. PeerDone(s, u, n, g, y, c, act, new)
    BY <1>3, <1>4, <1>7, <2>1, <2>6, <2>7, <2>8 DEF PeerDone
  <2>10. Mesh(u) /\ \A k \in Node : \A v \in new[k] : Fresh(s, k, v)
    BY <1>3, <2>9, PeerDoneMoves
  <2>11. \A k \in Node : new[k] = Ran(out[k])
    BY <2>4
  <2> QED
    BY <1>12, <2>4, <2>6, <2>10, <2>11, EndJoint
<1> QED
  BY <1>11, <1>14, <1>15

-----------------------------------------------------------------------------
(* SignCommand.                                                            *)

(* The task of a SIGN command, as it is sent and after its greeting.       *)
FirstTask(peers) == [Idle EXCEPT !.pc = "connect", !.list = peers]

NextTask(peers, c) == [Idle EXCEPT !.pc = "connect", !.wait = c, !.list = Tail(peers)]

LEMMA FirstIs ==
  ASSUME NEW peers, NEW c
  PROVE  /\ NextTask(peers, c) = Greeted(FirstTask(peers), c, Tail(peers))
         /\ NextTask(peers, c) = [[Idle EXCEPT !.list = peers]
                                    EXCEPT !.pc = "connect", !.wait = c, !.list = Tail(peers)]
         /\ FirstTask(peers).pc = "connect" /\ FirstTask(peers).wait = NoChan
         /\ FirstTask(peers).list = peers
<1>1. Idle = [pc |-> "idle", wait |-> NoChan, from |-> NoChan, list |-> <<>>,
              opened |-> <<>>, asked |-> 0, round |-> 0, members |-> <<>>,
              at |-> 0, rebound |-> FALSE]
  BY DEF Idle
<1>2. PICK o : o = FirstTask(peers)
  OBVIOUS
<1>3. o = [pc |-> "connect", wait |-> NoChan, from |-> NoChan, list |-> peers,
           opened |-> <<>>, asked |-> 0, round |-> 0, members |-> <<>>,
           at |-> 0, rebound |-> FALSE]
  BY ONLY <1>1, <1>2 DEF FirstTask
<1>4. PICK p : p = [Idle EXCEPT !.list = peers]
  OBVIOUS
<1>5. p = [pc |-> "idle", wait |-> NoChan, from |-> NoChan, list |-> peers,
           opened |-> <<>>, asked |-> 0, round |-> 0, members |-> <<>>,
           at |-> 0, rebound |-> FALSE]
  BY ONLY <1>1, <1>4
<1>6. PICK l : l = Tail(peers)
  OBVIOUS
<1>7a. PICK a : a = [o EXCEPT !.wait = c, !.list = l]
  OBVIOUS
<1>7. a =
        [pc |-> "connect", wait |-> c, from |-> NoChan, list |-> l,
         opened |-> <<>>, asked |-> 0, round |-> 0, members |-> <<>>,
         at |-> 0, rebound |-> FALSE]
  BY ONLY <1>3, <1>7a
<1>8a. PICK b : b = [p EXCEPT !.pc = "connect", !.wait = c, !.list = l]
  OBVIOUS
<1>8. b =
        [pc |-> "connect", wait |-> c, from |-> NoChan, list |-> l,
         opened |-> <<>>, asked |-> 0, round |-> 0, members |-> <<>>,
         at |-> 0, rebound |-> FALSE]
  BY ONLY <1>5, <1>8a
<1>9a. PICK e : e = [Idle EXCEPT !.pc = "connect", !.wait = c, !.list = l]
  OBVIOUS
<1>9. e =
        [pc |-> "connect", wait |-> c, from |-> NoChan, list |-> l,
         opened |-> <<>>, asked |-> 0, round |-> 0, members |-> <<>>,
         at |-> 0, rebound |-> FALSE]
  BY ONLY <1>1, <1>9a
<1>10. NextTask(peers, c) = [Idle EXCEPT !.pc = "connect", !.wait = c, !.list = l]
  BY ONLY <1>6 DEF NextTask
<1>11. Greeted(FirstTask(peers), c, Tail(peers)) = [o EXCEPT !.wait = c, !.list = l]
  BY ONLY <1>2, <1>6 DEF Greeted
<1>12. [[Idle EXCEPT !.list = peers] EXCEPT !.pc = "connect", !.wait = c, !.list = Tail(peers)] =
         [p EXCEPT !.pc = "connect", !.wait = c, !.list = l]
  BY ONLY <1>4, <1>6
<1>13. o.pc = "connect" /\ o.wait = NoChan /\ o.list = peers
  BY ONLY <1>3
<1>14. NextTask(peers, c) = e
  BY ONLY <1>9a, <1>10
<1>15. Greeted(FirstTask(peers), c, Tail(peers)) = a
  BY ONLY <1>7a, <1>11
<1>16. [[Idle EXCEPT !.list = peers] EXCEPT !.pc = "connect", !.wait = c, !.list = Tail(peers)] = b
  BY ONLY <1>8a, <1>12
<1>17. e = a /\ e = b
  BY ONLY <1>7, <1>8, <1>9
<1>18. /\ FirstTask(peers).pc = "connect" /\ FirstTask(peers).wait = NoChan
       /\ FirstTask(peers).list = peers
  BY ONLY <1>2, <1>13
<1>19. NextTask(peers, c) = [[Idle EXCEPT !.list = peers]
                               EXCEPT !.pc = "connect", !.wait = c, !.list = Tail(peers)]
  BY ONLY <1>14, <1>16, <1>17
<1> QED
  BY ONLY <1>14, <1>15, <1>17, <1>18, <1>19

(* Before the greeting.                                                    *)
MadeFrom(s, u, g, m, peers, t) ==
  /\ u.req = [s.req EXCEPT ![g] = [main |-> m, peers |-> peers, nodes |-> {m} \cup Ran(peers)]]
  /\ \A k \in Node, h \in Sign : Tk(u, k, h) = IF k = m /\ h = g THEN t ELSE Tk(s, k, h)
  /\ \A k \in Node : u.act[k] = IF k = m THEN <<>> ELSE s.act[k]
  /\ \A c \in Chan : u.resp[c] = s.resp[c]
  /\ \A k \in Node : u.mail[k] = s.mail[k]

LEMMA MakingExists ==
  ASSUME Types, NEW s, s = Now, NEW g \in Sign, NEW m \in Node, NEW peers, NEW t
  PROVE  \E u : MadeFrom(s, u, g, m, peers, t)
<1> DEFINE r == [s.req EXCEPT ![g] = [main |-> m, peers |-> peers, nodes |-> {m} \cup Ran(peers)]]
           f == [p \in Node \X Sign |-> IF p[1] = m /\ p[2] = g THEN t ELSE s.task[p]]
           a == [k \in Node |-> IF k = m THEN <<>> ELSE s.act[k]]
           u == [req |-> r, task |-> f, resp |-> s.resp, act |-> a, mail |-> s.mail]
<1>1. \A k \in Node, h \in Sign : f[<<k, h>>] = IF k = m /\ h = g THEN t ELSE s.task[<<k, h>>]
  OBVIOUS
<1>2. \A k \in Node : a[k] = IF k = m THEN <<>> ELSE s.act[k]
  OBVIOUS
<1> HIDE DEF r, f, a
<1>3. u.req = r /\ u.task = f /\ u.resp = s.resp /\ u.act = a /\ u.mail = s.mail
  OBVIOUS
<1> HIDE DEF u
<1>4. \A k \in Node, h \in Sign : Tk(u, k, h) = IF k = m /\ h = g THEN t ELSE Tk(s, k, h)
  BY <1>1, <1>3 DEF Tk
<1>5. u.req = [s.req EXCEPT ![g] = [main |-> m, peers |-> peers, nodes |-> {m} \cup Ran(peers)]]
  BY <1>3 DEF r
<1> QED
  BY <1>2, <1>3, <1>4, <1>5 DEF MadeFrom

(* What SignCommand() does, when nothing is under way and no node is down. *)
Signs(g, m, peers, c, y, out) ==
  /\ request' = [request EXCEPT ![g] =
       [main |-> m, peers |-> peers, nodes |-> {m} \cup Ran(peers)]]
  /\ task' = [task EXCEPT ![<<m, g>>] = y]
  /\ inbox' = inbox ++ out
  /\ active' = [active EXCEPT ![m] = <<>>]
  /\ resp' = resp /\ down' = down

LEMMA SignsIs ==
  ASSUME NEW g \in Sign, NEW m \in Node, NEW peers, SignCommand(g, m, peers),
         Rebind(m) = task, active[m] = <<>>, down = {}, inbox \in Boxes,
         NEW c, c = [a |-> m, b |-> peers[1], g |-> g], NEW y, y = NextTask(peers, c),
         NEW out, out = Post(c.b, Msg(c, "hello")), out \in Boxes
  PROVE  Signs(g, m, peers, c, y, out)
<1>1. PICK d \in Dropped(m, active[m]) :
        IF [a |-> m, b |-> peers[1], g |-> g].b \in down
          THEN TRUE
          ELSE /\ task' = [Rebind(m) EXCEPT ![<<m, g>>] =
                    [[Idle EXCEPT !.list = peers] EXCEPT !.pc = "connect",
                       !.wait = [a |-> m, b |-> peers[1], g |-> g], !.list = Tail(peers)]]
               /\ inbox' = inbox ++ (d ++ Post([a |-> m, b |-> peers[1], g |-> g].b,
                             Msg([a |-> m, b |-> peers[1], g |-> g], "hello")))
  BY DEF SignCommand
<1>2. d = Nothing
  <2>1. d \in Dropped(m, <<>>)
    OBVIOUS
  <2> QED
    BY <2>1, DropNothing
<1>3. /\ task' = [Rebind(m) EXCEPT ![<<m, g>>] =
               [[Idle EXCEPT !.list = peers] EXCEPT !.pc = "connect",
                  !.wait = c, !.list = Tail(peers)]]
      /\ inbox' = inbox ++ (d ++ Post(c.b, Msg(c, "hello")))
  BY <1>1
<1>4. y = [[Idle EXCEPT !.list = peers] EXCEPT !.pc = "connect", !.wait = c, !.list = Tail(peers)]
  BY FirstIs
<1>5. task' = [task EXCEPT ![<<m, g>>] = y]
  BY <1>3, <1>4
<1>6. inbox' = inbox ++ out
  BY <1>2, <1>3, AfterNothing
<1>7. /\ request' = [request EXCEPT ![g] =
           [main |-> m, peers |-> peers, nodes |-> {m} \cup Ran(peers)]]
      /\ active' = [active EXCEPT ![m] = <<>>] /\ resp' = resp /\ down' = down
  BY DEF SignCommand, Ran
<1> QED
  BY <1>5, <1>6, <1>7 DEF Signs

(* While the nodes are idle.                                               *)
LEMMA IdleNodes ==
  ASSUME Types, Joint, NEW s, s = Now, ~Busy
  PROVE  /\ \A h \in Sign : Called(s, h) => Settled(s, h)
         /\ \A n \in Node : active[n] = <<>> /\ Rebind(n) = task
<1>1. Mesh(s) /\ Seen(s) /\ InOrder(inbox)
  BY SeenNow DEF Joint
<1>2. \A h \in Sign : Called(s, h) => Settled(s, h)
  BY <1>1, RestSettled
<1>3. /\ \A n \in Node, h \in Sign : Tk(s, n, h).pc \in {"idle", "done"}
      /\ \A n \in Node : s.act[n] = <<>>
  BY <1>1, <1>2, AllSettled
<1>4. ASSUME NEW n \in Node PROVE Rebind(n) = task
  <2>1. ASSUME NEW p \in Node \X Sign PROVE task[p].pc # "share"
    <3>1. PICK k \in Node, h \in Sign : p = <<k, h>>
      OBVIOUS
    <3>2. task[<<k, h>>].pc \in {"idle", "done"}
      BY <1>1, <1>3 DEF Seen
    <3> QED
      BY <3>1, <3>2
  <2>2. Rebind(n) = [p \in Node \X Sign |-> task[p]]
    BY <2>1 DEF Rebind
  <2>3. task \in [Node \X Sign -> Task]
    BY DEF Types
  <2> QED
    BY <2>2, <2>3
<1> QED
  BY <1>1, <1>2, <1>3, <1>4 DEF Seen

(* Commands are sent in turn.                                              *)
LEMMA LaterCommand ==
  ASSUME Own, NEW g \in Sign, request[g].main = None, NEW h \in Sign, request[h].main # None
  PROVE  h < g
<1>1. g \in Nat /\ h \in Nat /\ g >= 1
  BY BoundAssumption DEF Sign
<1>2. \A i \in 1..(h - 1) : Made(i)
  BY DEF Own, RequestsOwn, Made
<1>3. ~(g \in 1..(h - 1))
  BY <1>2 DEF Made
<1>4. g # h
  OBVIOUS
<1> QED
  BY <1>1, <1>3, <1>4

LEMMA SignCommandJoint ==
  ASSUME Types, Own, Joint, "client" \in Timing,
         NEW g \in Sign, NEW m \in Node, NEW peers \in Lists(m), SignCommand(g, m, peers)
  PROVE  Joint'
<1>1. PICK s : s = Now
  OBVIOUS
<1>2. Mesh(s) /\ Seen(s) /\ InOrder(inbox) /\ inbox \in Boxes /\ down = {}
  BY <1>1, SeenNow DEF Joint, InOrder
<1>3. request[g].main = None /\ ~Busy
  BY DEF SignCommand
<1>4. /\ \A h \in Sign : Called(s, h) => Settled(s, h)
      /\ active[m] = <<>> /\ Rebind(m) = task
  BY <1>1, <1>3, IdleNodes
<1>5. s.req[g].main = None /\ \A h \in Sign : Called(s, h) => h < g /\ Settled(s, h)
  BY <1>2, <1>3, <1>4, LaterCommand DEF Called, Seen
<1>6. /\ peers \in Seq(Node) /\ peers # <<>> /\ Injective(peers) /\ m \notin Ran(peers)
  BY ListsAre
<1>7. PICK w : w = FirstTask(peers)
  OBVIOUS
<1>8. PICK v : Making(s, v, g, m, peers, w)
  <2>1. PICK v : MadeFrom(s, v, g, m, peers, w)
    BY <1>1, MakingExists
  <2>2. w = [Idle EXCEPT !.pc = "connect", !.list = peers]
    BY <1>7 DEF FirstTask
  <2> QED
    BY <1>5, <1>6, <2>1, <2>2 DEF Making, MadeFrom
<1>9. Mesh(v) /\ MadeFacts(s, v, g, m, peers, w)
  BY <1>2, <1>8, MakingMoves, MakingFacts
<1>10. PICK c : c = [a |-> m, b |-> peers[1], g |-> g]
  OBVIOUS
<1>11. PICK y : y = NextTask(peers, c)
  OBVIOUS
<1>12. w.pc = "connect" /\ w.wait = NoChan /\ w.list = peers /\ y = Greeted(w, c, Tail(peers))
  BY <1>7, <1>11, FirstIs
<1>13. Tk(v, m, g) = w /\ peers[1] = Head(peers)
  BY <1>6, <1>9 DEF MadeFacts
<1>14. PICK x : x = Msg(c, "hello")
  OBVIOUS
<1>15. PICK u0 : Move(v, u0, m, g, y, v.act[m], NoChan, "none", Silent, Only(c.b, x))
  BY MoveExists
<1>16. \A u : Move(v, u, m, g, y, v.act[m], NoChan, "none", Silent, Only(c.b, x)) =>
         Hello(v, u, m, g, y, c)
  BY <1>6, <1>10, <1>12, <1>13, <1>14 DEF Hello, Greeted
<1>17. c \in Chan /\ c.b \in Node /\ c.g = g
  <2>1. Hello(v, u0, m, g, y, c)
    BY <1>15, <1>16
  <2> QED
    BY <1>9, <1>10, <2>1, HelloIs
<1>18. x \in Message /\ x.c = c /\ x.kind = "hello"
  BY <1>14, <1>17, Plain DEF Kinds
<1>19. ~Closed(c.b, x.c)
  <2>1. resp[c] = "none"
    BY <1>2, <1>9, <1>17 DEF MadeFacts, Seen
  <2> QED
    BY <1>2, <1>17, <1>18, <2>1, ChanFields DEF Closed
<1>20. PICK out : out = Post(c.b, x)
  OBVIOUS
<1>21. InOrder(out) /\ out \in Boxes /\ \A k \in Node : Ran(out[k]) = Only(c.b, x)[k]
  BY <1>17, <1>18, <1>19, <1>20, PostMail DEF InOrder
<1>22. Signs(g, m, peers, c, y, out)
  BY <1>2, <1>4, <1>10, <1>11, <1>14, <1>20, <1>21, SignsIs
<1>23. PICK u : u = Now'
  OBVIOUS
<1>24. Move(v, u, m, g, y, v.act[m], NoChan, "none", Silent, Only(c.b, x))
  <2>1. /\ u.req = request' /\ u.task = task' /\ u.resp = resp' /\ u.act = active'
        /\ u.mail = [k \in Node |-> Ran(inbox'[k])]
    BY <1>23 DEF Now
  <2>2. u.req = v.req
    <3>1. v.req = [s.req EXCEPT ![g] = [main |-> m, peers |-> peers, nodes |-> {m} \cup Ran(peers)]]
      BY <1>8 DEF Making
    <3>2. s.req = request
      BY <1>2 DEF Seen
    <3> QED
      BY <1>22, <2>1, <3>1, <3>2 DEF Signs
  <2>3. ASSUME NEW k \in Node, NEW h \in Sign
        PROVE  Tk(u, k, h) = IF k = m /\ h = g THEN y ELSE Tk(v, k, h)
    <3>1. task' = [task EXCEPT ![<<m, g>>] = y] /\ DOMAIN task = Node \X Sign
      BY <1>22 DEF Signs, Types
    <3>2. task'[<<k, h>>] = IF k = m /\ h = g THEN y ELSE task[<<k, h>>]
      BY <3>1
    <3>3. Tk(v, k, h) = IF k = m /\ h = g THEN w ELSE Tk(s, k, h)
      BY <1>8 DEF Making
    <3>4. Tk(s, k, h) = task[<<k, h>>]
      BY <1>2 DEF Seen
    <3>5. Tk(u, k, h) = task'[<<k, h>>]
      BY <2>1 DEF Tk
    <3> QED
      BY ONLY <3>2, <3>3, <3>4, <3>5
  <2>4. ASSUME NEW k \in Node PROVE u.act[k] = v.act[k]
    <3>1. active' = [active EXCEPT ![m] = <<>>] /\ DOMAIN active = Node
      BY <1>22 DEF Signs, Types
    <3>2. active'[k] = IF k = m THEN <<>> ELSE active[k]
      BY <3>1
    <3>3. v.act[k] = IF k = m THEN <<>> ELSE s.act[k]
      BY <1>8 DEF Making
    <3>4. s.act[k] = active[k]
      BY <1>2 DEF Seen
    <3> QED
      BY <2>1, <3>2, <3>3, <3>4
  <2>5. ASSUME NEW d \in Chan PROVE u.resp[d] = v.resp[d]
    BY <1>2, <1>8, <1>22, <2>1 DEF Signs, Making, Seen
  <2>6. ASSUME NEW k \in Node PROVE u.mail[k] = (v.mail[k] \ Silent[k]) \cup Only(c.b, x)[k]
    <3>1. u.mail[k] = Ran((inbox ++ out)[k])
      BY <1>22, <2>1 DEF Signs
    <3>2. Ran((inbox ++ out)[k]) = Ran(inbox[k]) \cup Ran(out[k])
      BY <1>2, <1>21, After
    <3>3. v.mail[k] = Ran(inbox[k])
      BY <1>2, <1>8 DEF Making, Seen
    <3> QED
      BY <1>21, <3>1, <3>2, <3>3 DEF Silent
  <2>7. \A d \in Chan : u.resp[d] = IF d = NoChan THEN "none" ELSE v.resp[d]
    BY <2>5, NotAChannel
  <2>8. \A k \in Node : u.act[k] = IF k = m THEN v.act[m] ELSE v.act[k]
    BY <2>4
  <2> QED
    BY <2>2, <2>3, <2>6, <2>7, <2>8 DEF Move
<1>25. Mesh(u) /\ Fresh(v, c.b, x)
  <2>1. Hello(v, u, m, g, y, c)
    BY <1>16, <1>24
  <2>2. Mesh(u) /\ Fresh(v, c.b, Msg(c, "hello"))
    BY <1>9, <2>1, HelloMoves
  <2> QED
    BY <1>14, <2>2
<1>26. Sent(v, inbox, Silent, out)
  <2>1. inbox' = inbox ++ out /\ down' = {}
    BY <1>2, <1>22 DEF Signs
  <2>2. \A k \in Node : v.mail[k] \ Silent[k] = Ran(inbox[k])
    BY <1>2, <1>8 DEF Making, Seen, Silent
  <2> QED
    BY <1>2, <2>1, <2>2 DEF Sent
<1>27. PICK new : new = Only(c.b, x)
  OBVIOUS
<1>28. /\ \A k \in Node : new[k] = Ran(out[k])
       /\ \A k \in Node : \A z \in new[k] : Fresh(v, k, z)
  BY <1>17, <1>21, <1>25, <1>27, OnlyIs
<1> QED
  BY <1>21, <1>23, <1>25, <1>26, <1>28, EndJoint

-----------------------------------------------------------------------------
(* The invariant is inductive.                                             *)

LEMMA InitJoint == Init => Joint
<1> SUFFICES ASSUME Init PROVE Joint
  OBVIOUS
<1>1. PICK s : s = Now
  OBVIOUS
<1>2. Types
  BY InitTypes
<1>3. Seen(s)
  BY <1>1, SeenNow
<1>4. /\ \A g \in Sign : s.req[g] = [main |-> None, peers |-> <<>>, nodes |-> {}]
      /\ \A n \in Node, g \in Sign : Tk(s, n, g) = Idle
      /\ \A c \in Chan : s.resp[c] = "none"
      /\ \A n \in Node : s.act[n] = <<>> /\ s.mail[n] = {}
  <2>1. /\ \A g \in Sign : request[g] = [main |-> None, peers |-> <<>>, nodes |-> {}]
        /\ \A n \in Node, g \in Sign : task[<<n, g>>] = Idle
        /\ \A c \in Chan : resp[c] = "none"
        /\ \A n \in Node : active[n] = <<>> /\ inbox[n] = <<>>
    BY DEF Init
  <2>2. \A n \in Node : Ran(inbox[n]) = {}
    BY <2>1, SmallDictionary
  <2> QED
    BY <1>3, <2>1, <2>2 DEF Seen
<1>5. \A g \in Sign : ~Called(s, g) /\ s.req[g].main = None
  BY <1>4 DEF Called
<1>6. CommandsJ(s)
  BY <1>2, <1>3, <1>5 DEF CommandsJ, CommandJ, Types, Seen
<1>7. /\ Idle \in Task /\ Idle.pc = "idle" /\ Idle.opened = <<>> /\ Idle.round = 0
      /\ Idle.asked = 0 /\ Idle.wait = NoChan
  BY BoundAssumption DEF Idle, Task, Ended
<1>8. TasksJ(s)
  <2>1. ASSUME NEW n \in Node, NEW g \in Sign
        PROVE  /\ TaskJ(s.req[g], n, g, Idle) /\ ConnectJ(s.req[g], n, g, Idle)
               /\ ReachJ(s.req[g], n, Idle) /\ ShareJ(Idle, s.act[n])
    <3>1. Ran(Idle.opened) = {} /\ Len(Idle.opened) = 0
      BY <1>7, SmallDictionary
    <3>2. TaskJ(s.req[g], n, g, Idle)
      BY <1>7, <3>1 DEF TaskJ, Over
    <3> QED
      BY <1>7, <3>2 DEF ConnectJ, ReachJ, ShareJ
  <2> QED
    BY <1>4, <1>5, <2>1 DEF TasksJ
<1>9. \A c \in Chan : ~Link(s, c)
  BY <1>5 DEF Link, Chan
<1>10. \A c \in Chan : LinkJ(s, c)
  BY <1>4, <1>9 DEF LinkJ, ChannelJ, States
<1>11. DictionariesJ(s)
  <2>1. ASSUME NEW n \in Node PROVE Dictionary(n, s.act[n]) /\ Ran(s.act[n]) = {}
    BY <1>4, SmallDictionary
  <2>2. ASSUME NEW n \in Node, NEW e \in Chan PROVE ~Holds(s, n, e)
    <3>1. s.resp[e] = "none" /\ Tk(s, n, e.g) = Idle
      BY <1>4, ChanFields
    <3>2. Ran(Tk(s, n, e.g).opened) = {}
      BY <1>7, <3>1, SmallDictionary
    <3> QED
      BY <3>1, <3>2 DEF Holds
  <2> QED
    BY <2>1, <2>2 DEF DictionariesJ
<1>12. MailJ(s)
  BY <1>4 DEF MailJ
<1>13. Mesh(s)
  BY <1>5, <1>6, <1>8, <1>10, <1>11, <1>12 DEF Mesh
<1>14. InOrder(inbox) /\ down = {}
  <2>1. inbox = Nothing /\ down = {}
    BY DEF Init, Nothing
  <2> QED
    BY <2>1, NothingMail
<1> QED
  BY <1>1, <1>13, <1>14 DEF Joint

LEMMA HandleJoint ==
  ASSUME Types, Joint, "order" \in Timing, NEW n \in Node, Handle(n)
  PROVE  Joint'
<1>1. PICK i \in 1..Len(inbox[n]) :
        /\ Next1(n, i)
        /\ \/ Connected(n, i) \/ Acknowledged(n, i) \/ Share(n, i)
           \/ Accept(n, i) \/ TreeLevel(n, i) \/ Payload(n, i) \/ EndOfFile(n, i)
        /\ UNCHANGED <<request, down>>
  BY DEF Handle
<1>2. request' = request /\ down' = down
  BY <1>1
<1>3. CASE Connected(n, i)
  BY <1>1, <1>2, <1>3, ConnectedJoint
<1>4. CASE Acknowledged(n, i)
  BY <1>1, <1>2, <1>4, AcknowledgedJoint
<1>5. CASE Share(n, i)
  BY <1>1, <1>2, <1>5, ShareJoint
<1>6. CASE Accept(n, i)
  BY <1>1, <1>2, <1>6, AcceptJoint
<1>7. CASE TreeLevel(n, i)
  BY <1>1, <1>2, <1>7, TreeLevelJoint
<1>8. CASE Payload(n, i)
  BY <1>1, <1>2, <1>8, PayloadJoint
<1>9. CASE EndOfFile(n, i)
  BY <1>1, <1>2, <1>9, EndOfFileJoint
<1> QED
  BY <1>1, <1>3, <1>4, <1>5, <1>6, <1>7, <1>8, <1>9

LEMMA NoHalt ==
  ASSUME MaxHalts = 0, Joint, NEW n \in Node
  PROVE  ~Halt(n)
<1>1. Cardinality({}) = 0
  BY FS_EmptySet
<1> QED
  BY <1>1 DEF Halt, Joint

(* The invariant with that of the signatures.                              *)
Whole == Types /\ Own /\ Joint

LEMMA NextJoint ==
  ASSUME {"order", "client"} \subseteq Timing, Whole, [Next]_vars, \A n \in Node : ~Halt(n)
  PROVE  Joint'
<1>1. Types /\ Own /\ Joint /\ "order" \in Timing /\ "client" \in Timing
  BY DEF Whole
<1>2. CASE UNCHANGED vars
  BY <1>1, <1>2 DEF vars, Joint, Now
<1>3. ASSUME NEW n \in Node, \E g \in Sign : \E peers \in Lists(n) : SignCommand(g, n, peers)
      PROVE  Joint'
  BY <1>1, <1>3, SignCommandJoint
<1>4. ASSUME NEW n \in Node, Handle(n) PROVE Joint'
  BY <1>1, <1>4, HandleJoint
<1>5. ASSUME NEW n \in Node, Wake(n) PROVE Joint'
  BY <1>1, <1>5, CloseChannelsJoint, FinishJoint DEF Wake
<1> QED
  BY <1>2, <1>3, <1>4, <1>5 DEF Next

LEMMA InitWhole == Init => Whole
BY InitTypes, InitOwn, InitJoint DEF Whole

LEMMA NextWhole ==
  ASSUME {"order", "client"} \subseteq Timing, MaxHalts = 0, Whole, [Next]_vars
  PROVE  Whole'
<1>1. Types' /\ Own'
  BY NextTypes, NextOwn DEF Whole
<1>2. \A n \in Node : ~Halt(n)
  BY NoHalt DEF Whole
<1>3. Joint'
  BY <1>2, NextJoint
<1> QED
  BY <1>1, <1>3 DEF Whole

-----------------------------------------------------------------------------
(* What it says of what the nodes do.                                      *)

(* What the invariant says of what the nodes do.                           *)

LEMMA JointConnected ==
  ASSUME Joint
  PROVE  AllConnected
<1>1. PICK s : s = Now
  OBVIOUS
<1>2. Mesh(s) /\ Seen(s)
  BY <1>1, SeenNow DEF Joint
<1> SUFFICES ASSUME NEW n \in Node, NEW g \in Sign, task[<<n, g>>].pc = "share"
             PROVE  LET t == task[<<n, g>>]
                    IN  {Other(n, t.members[i]) : i \in 1..Len(t.members)} = request[g].nodes \ {n}
  BY DEF AllConnected
<1>3. PICK t : t = Tk(s, n, g)
  OBVIOUS
<1>4. PICK q : q = s.req[g]
  OBVIOUS
<1>5. /\ t = task[<<n, g>>] /\ q = request[g] /\ t.pc = "share" /\ Through(t)
  BY <1>2, <1>3, <1>4 DEF Seen, Through
<1>6. t.members = s.act[n] /\ Called(s, g) /\ n \in q.nodes
  <2>1. ShareJ(t, s.act[n]) /\ Called(s, g) /\ n \in s.req[g].nodes
    BY <1>2, <1>3, <1>5, AtTask
  <2> QED
    BY <1>4, <1>5, <2>1 DEF ShareJ
<1>7. {Other(n, t.members[i]) : i \in 1..Len(t.members)} = {Other(n, d) : d \in Ran(s.act[n])}
  BY <1>6 DEF Ran
<1>8. /\ CommandJ(q) /\ q.main # None /\ q.main \in Node /\ q.peers \in Seq(Node)
      /\ Ran(q.peers) \subseteq Node /\ q.nodes = {q.main} \cup Ran(q.peers)
  BY <1>2, <1>4, <1>6, Request
<1>9. Ran(s.act[n]) \subseteq Chan
  BY <1>2, AtDictionary, RanType DEF Dictionary
<1>10. ASSUME NEW d \in Ran(s.act[n]) PROVE Other(n, d) \in q.nodes \ {n}
  <2>1. d \in Chan /\ Link(s, d) /\ Touches(d, n, g)
    BY <1>2, <1>3, <1>5, <1>9, Neighbours
  <2>2. d.g = g /\ n \in {d.a, d.b}
    BY <2>1 DEF Touches
  <2>3. d.a \in q.nodes /\ d.b \in Ran(q.peers) /\ d.a # d.b
    BY <1>2, <1>4, <2>1, <2>2, LinkIs
  <2> QED
    BY <1>8, <2>2, <2>3 DEF Other
<1>11. ASSUME NEW b \in q.nodes, b # n PROVE \E d \in Ran(s.act[n]) : Other(n, d) = b
  <2>1. Before(q, n, b) \/ Before(q, b, n)
    BY <1>6, <1>8, <1>11, BeforeTotal
  <2>2. b \in Node
    BY <1>8
  <2>3. ASSUME NEW d, d \in {[a |-> n, b |-> b, g |-> g], [a |-> b, b |-> n, g |-> g]},
               Before(q, d.a, d.b)
        PROVE  d \in Ran(s.act[n]) /\ Other(n, d) = b
    <3>1. d \in Chan /\ d.g = g /\ Touches(d, n, g) /\ Other(n, d) = b
      BY <1>11, <2>2, <2>3 DEF Chan, Touches, Other
    <3>2. Link(s, d)
      BY <1>4, <1>6, <2>3, <3>1 DEF Link
    <3> QED
      BY <1>2, <1>3, <1>5, <3>1, <3>2, Neighbours
  <2>4. CASE Before(q, n, b)
    <3>1. PICK d : d = [a |-> n, b |-> b, g |-> g]
      OBVIOUS
    <3>2. d.a = n /\ d.b = b
      BY <3>1
    <3> QED
      BY <2>3, <2>4, <3>1, <3>2
  <2>5. CASE Before(q, b, n)
    <3>1. PICK d : d = [a |-> b, b |-> n, g |-> g]
      OBVIOUS
    <3>2. d.a = b /\ d.b = n
      BY <3>1
    <3> QED
      BY <2>3, <2>5, <3>1, <3>2
  <2> QED
    BY <2>1, <2>4, <2>5
<1>12. {Other(n, d) : d \in Ran(s.act[n])} = q.nodes \ {n}
  BY <1>10, <1>11
<1> QED
  BY <1>5, <1>7, <1>12

LEMMA JointRound ==
  ASSUME Joint
  PROVE  SameRound
<1>1. PICK s : s = Now
  OBVIOUS
<1>2. Mesh(s) /\ Seen(s) /\ InOrder(inbox)
  BY <1>1, SeenNow DEF Joint
<1>3. ASSUME NEW n \in Node, NEW g \in Sign, NEW i \in 1..Len(inbox[n]),
             inbox[n][i].c = task[<<n, g>>].wait, Readable(n, i), task[<<n, g>>].pc = "share"
      PROVE  inbox[n][i].round = task[<<n, g>>].round
  <2>1. PICK m : m = inbox[n][i]
    OBVIOUS
  <2>2. FirstIn(s, n, m)
    BY <1>2, <1>3, <2>1, ReadFirst
  <2>3. Tk(s, n, g) = task[<<n, g>>]
    BY <1>2 DEF Seen
  <2>4. Tk(s, n, g).pc = "share" /\ m.c = Tk(s, n, g).wait
    BY <1>3, <2>1, <2>3
  <2>5. m.round = Tk(s, n, g).round
    BY <1>2, <2>2, <2>4, ShareKind
  <2> QED
    BY <2>1, <2>3, <2>5
<1> QED
  BY <1>3 DEF SameRound

LEMMA JointFails ==
  ASSUME Joint
  PROVE  NoFailure
<1>1. PICK s : s = Now
  OBVIOUS
<1>2. Mesh(s) /\ Seen(s)
  BY <1>1, SeenNow DEF Joint
<1>3. ASSUME NEW n \in Node, NEW g \in Sign PROVE task[<<n, g>>].pc # "failed"
  <2>1. TaskJ(s.req[g], n, g, Tk(s, n, g))
    BY <1>2, AtTask
  <2>2. Tk(s, n, g).pc # "failed"
    BY <2>1 DEF TaskJ
  <2> QED
    BY <1>2, <2>2 DEF Seen
<1> QED
  BY <1>3 DEF NoFailure

LEMMA JointReleased ==
  ASSUME Types, Joint
  PROVE  Released
<1>1. PICK s : s = Now
  OBVIOUS
<1> QED
  BY <1>1, IdleNodes DEF Released

LEMMA AlwaysWhole ==
  ASSUME {"order", "client"} \subseteq Timing, MaxHalts = 0
  PROVE  Spec => []Whole
<1>1. Whole /\ [Next]_vars => Whole'
  BY NextWhole
<1> QED
  BY <1>1, InitWhole, PTL DEF Spec

(* A node that exchanges shares is connected to every other node that its  *)
(* command names, for any nodes: connect_peer() and the payloads that the  *)
(* main node sends leave no pair of nodes out, however the steps of the    *)
(* nodes interleave.                                                       *)
THEOREM ConnectedToAll ==
  ASSUME {"order", "client"} \subseteq Timing, MaxHalts = 0
  PROVE  Spec => []AllConnected
<1>1. Whole => AllConnected
  BY JointConnected DEF Whole
<1>2. Spec => []Whole
  BY AlwaysWhole
<1> QED
  BY <1>1, <1>2, PTL

(* The share that a node reads from a channel in a round is of that round: *)
(* that of the next round, of a node that is ahead, comes behind it, and   *)
(* none is left over from the command before.                              *)
THEOREM SharesOfTheRound ==
  ASSUME {"order", "client"} \subseteq Timing, MaxHalts = 0
  PROVE  Spec => []SameRound
<1>1. Whole => SameRound
  BY JointRound DEF Whole
<1>2. Spec => []Whole
  BY AlwaysWhole
<1> QED
  BY <1>1, <1>2, PTL

(* When the nodes are idle again, active_channels is empty at each of them:*)
(* a command begins with none of the channels of those before it.          *)
THEOREM ChannelsReleased ==
  ASSUME {"order", "client"} \subseteq Timing, MaxHalts = 0
  PROVE  Spec => []Released
<1>1. Whole => Released
  BY JointReleased DEF Whole
<1>2. Spec => []Whole
  BY AlwaysWhole
<1> QED
  BY <1>1, <1>2, PTL

(* The same invariant as long as no node has been halted.                  *)
Unhalted == Types /\ Own /\ (down = {} => Joint)

LEMMA NextUnhalted ==
  ASSUME {"order", "client"} \subseteq Timing, Unhalted, [Next]_vars
  PROVE  Unhalted'
<1>1. Types' /\ Own'
  BY NextTypes, NextOwn DEF Unhalted
<1>2. ASSUME down' = {} PROVE Joint'
  <2>1. \A n \in Node : ~Halt(n)
    BY <1>2 DEF Halt
  <2>2. down = {}
    <3>1. ASSUME NEW n \in Node, Handle(n) PROVE down' = down
      BY <3>1 DEF Handle
    <3>2. ASSUME NEW n \in Node, Wake(n) PROVE down' = down
      BY <3>2 DEF Wake, CloseChannels, Finish
    <3>3. ASSUME NEW n \in Node, \E g \in Sign : \E peers \in Lists(n) : SignCommand(g, n, peers)
          PROVE  down' = down
      BY <3>3 DEF SignCommand
    <3>4. down' = down
      BY <2>1, <3>1, <3>2, <3>3 DEF Next, vars
    <3> QED
      BY <1>2, <3>4
  <2>3. Whole
    BY <2>2 DEF Unhalted, Whole
  <2> QED
    BY <2>1, <2>3, NextJoint
<1> QED
  BY <1>1, <1>2 DEF Unhalted

LEMMA AlwaysUnhalted ==
  ASSUME {"order", "client"} \subseteq Timing
  PROVE  Spec => []Unhalted
<1>1. Init => Unhalted
  BY InitWhole DEF Whole, Unhalted
<1>2. Unhalted /\ [Next]_vars => Unhalted'
  BY NextUnhalted
<1> QED
  BY <1>1, <1>2, PTL DEF Spec

(* Until a node is halted, and however many will be, smpc_sign() ends      *)
(* without an exception at every node: no KeyError of a channel that is    *)
(* gone, no dictionary that changes size in a loop over it, no end of file *)
(* in place of a share.                                                    *)
THEOREM NoTaskFails ==
  ASSUME {"order", "client"} \subseteq Timing
  PROVE  Spec => []NoFailure
<1>1. Unhalted => NoFailure
  BY JointFails DEF Unhalted, NoFailure
<1>2. Spec => []Unhalted
  BY AlwaysUnhalted
<1> QED
  BY <1>1, <1>2, PTL

(* However many halts there may be: until the first of them the nodes of a *)
(* command are connected to each other, in the same round, and idle nodes  *)
(* hold no channel.                                                        *)
THEOREM UntilAHalt ==
  ASSUME {"order", "client"} \subseteq Timing
  PROVE  Spec => [](down = {} => AllConnected /\ SameRound /\ Released)
<1>1. Unhalted => (down = {} => AllConnected /\ SameRound /\ Released)
  BY JointConnected, JointRound, JointReleased DEF Unhalted
<1>2. Spec => []Unhalted
  BY AlwaysUnhalted
<1> QED
  BY <1>1, <1>2, PTL

-----------------------------------------------------------------------------
(* The nodes implement SmpcRounds: in a step, a task enters one round.     *)

(* How far the task of n for g gets in a step: it fails, or enters at most *)
(* one round.                                                              *)
TaskTo(n, g, y) ==
  \A k \in Node, h \in Sign : task'[<<k, h>>] = IF k = n /\ h = g THEN y ELSE task[<<k, h>>]

Advance(t, y) ==
  \/ y.pc = "failed"
  \/ /\ RoundOf(y) \in {RoundOf(t), RoundOf(t) + 1}
     /\ y.pc = "done" => t.pc \in {"sleep2", "done"}
     /\ t.pc = "done" => y.pc = "done"

Advances(n, g) == \E y : TaskTo(n, g, y) /\ Advance(task[<<n, g>>], y)

LEMMA RoundIs ==
  ASSUME NEW y
  PROVE  /\ y.pc \in {"sleep", "sleep2", "done"} => RoundOf(y) = Rounds + 1
         /\ y.pc = "share" => RoundOf(y) = y.round
         /\ y.pc \in {"idle", "connect", "ack", "failed"} => RoundOf(y) = 0
BY DEF RoundOf

LEMMA StillOpen ==
  ASSUME NEW t, RoundOf(t) \in 0..Rounds
  PROVE  t.pc # "done"
BY BoundAssumption DEF RoundOf

LEMMA AwaitAdvances ==
  ASSUME Types, NEW n \in Node, NEW g \in Sign, NEW y, NEW act, NEW b, NEW o,
         Await(n, g, y, act, b, o), Advance(task[<<n, g>>], y)
  PROVE  Advances(n, g)
BY AwaitIs DEF Advances, TaskTo

LEMMA RaiseAdvances ==
  ASSUME Types, NEW n \in Node, NEW g \in Sign, NEW t \in Task, NEW act, NEW b, NEW o,
         Raise(n, g, t, act, b, o)
  PROVE  Advances(n, g)
<1>1. PICK y : y = Leave(t, "failed")
  OBVIOUS
<1>2. y.pc = "failed"
  BY <1>1, LeaveIs DEF Ended
<1>3. task' = [task EXCEPT ![<<n, g>>] = y] /\ DOMAIN task = Node \X Sign
  BY <1>1 DEF Raise, Types
<1>4. TaskTo(n, g, y)
  BY <1>3 DEF TaskTo
<1> QED
  BY <1>2, <1>4 DEF Advances, Advance

LEMMA BeginAdvances ==
  ASSUME Types, NEW n \in Node, NEW g \in Sign, NEW t \in Task, NEW act, act # <<>>,
         NEW b, NEW o, NEW r, BeginRound(n, g, t, act, b, o, r),
         RoundOf(task[<<n, g>>]) = r - 1, r \in 1..Rounds
  PROVE  Advances(n, g)
<1>1. PICK y : y = [t EXCEPT !.pc = "share", !.wait = act[1], !.round = r,
                             !.members = act, !.at = 1, !.rebound = FALSE]
  OBVIOUS
<1>2. y.pc = "share" /\ y.round = r
  BY <1>1 DEF Task
<1>3. \E w : Await(n, g, y, act, b, w)
  BY <1>1 DEF BeginRound
<1>4. Advance(task[<<n, g>>], y)
  <2>1. RoundOf(y) = r
    BY <1>2, RoundIs
  <2>2. r = (r - 1) + 1
    BY BoundAssumption
  <2>3. task[<<n, g>>].pc # "done"
    <3>1. r - 1 \in 0..Rounds
      BY BoundAssumption
    <3> QED
      BY <3>1, StillOpen
  <2> QED
    BY <1>2, <2>1, <2>2, <2>3 DEF Advance
<1> QED
  BY <1>3, <1>4, AwaitAdvances

LEMMA AskAdvances ==
  ASSUME Types, NEW n \in Node, NEW g \in Sign, NEW t \in Task, NEW act, NEW b, NEW o,
         Ask(n, g, t, act, b, o), RoundOf(task[<<n, g>>]) = 0
  PROVE  Advances(n, g)
<1>1. CASE Raise(n, g, t, act, b, o)
  BY <1>1, RaiseAdvances
<1>4. task[<<n, g>>].pc # "done"
  BY StillOpen, BoundAssumption
<1>2. ASSUME NEW c, NEW k, NEW w, Await(n, g, Turned(t, c, k), act, b, w)
      PROVE  Advances(n, g)
  <2>1. PICK y : y = Turned(t, c, k)
    OBVIOUS
  <2>2. y.pc = "ack"
    BY <2>1 DEF Turned, Task
  <2>3. Advance(task[<<n, g>>], y)
    BY <2>2, <1>4, RoundIs DEF Advance
  <2> QED
    BY <1>2, <2>1, <2>3, AwaitAdvances
<1>3. Raise(n, g, t, act, b, o) \/ \E c, k, w : Await(n, g, Turned(t, c, k), act, b, w)
  BY DEF Ask, Turned
<1> QED
  BY <1>1, <1>2, <1>3

LEMMA ConnectAdvances ==
  ASSUME Types, NEW n \in Node, NEW g \in Sign, NEW t \in Task, NEW act, act # <<>>,
         NEW b, NEW o, ConnectNext(n, g, t, act, b, o), RoundOf(task[<<n, g>>]) = 0
  PROVE  Advances(n, g)
<1>1. \/ Raise(n, g, t, act, b, o)
      \/ \E c, k, w : Await(n, g, Greeting(t, c, k), act, b, w)
      \/ Ask(n, g, t, act, b, o)
      \/ \E w : BeginRound(n, g, t, act, b, w, 1)
  BY DEF ConnectNext, Greeting
<1>5. task[<<n, g>>].pc # "done"
  BY StillOpen, BoundAssumption
<1>2. ASSUME NEW c, NEW k, NEW w, Await(n, g, Greeting(t, c, k), act, b, w)
      PROVE  Advances(n, g)
  <2>1. PICK y : y = Greeting(t, c, k)
    OBVIOUS
  <2>2. y.pc = "connect"
    BY <2>1 DEF Greeting, Task
  <2>3. Advance(task[<<n, g>>], y)
    BY <2>2, <1>5, RoundIs DEF Advance
  <2> QED
    BY <1>2, <2>1, <2>3, AwaitAdvances
<1>3. 1 \in 1..Rounds /\ 0 = 1 - 1
  BY BoundAssumption
<1>4. ASSUME NEW w, BeginRound(n, g, t, act, b, w, 1) PROVE Advances(n, g)
  BY <1>3, <1>4, BeginAdvances
<1> QED
  BY <1>1, <1>2, <1>4, RaiseAdvances, AskAdvances

LEMMA TaskNow ==
  ASSUME Types, Joint, NEW n \in Node, NEW g \in Sign, NEW s, s = Now, NEW t, t = task[<<n, g>>]
  PROVE  /\ Mesh(s) /\ t = Tk(s, n, g) /\ t \in Task /\ s.act[n] = active[n]
         /\ TaskJ(s.req[g], n, g, t) /\ ShareJ(t, active[n])
<1>1. Mesh(s) /\ Seen(s)
  BY SeenNow DEF Joint
<1>2. t = Tk(s, n, g) /\ s.act[n] = active[n]
  BY <1>1 DEF Seen
<1> QED
  BY <1>1, <1>2, AtTask

LEMMA TakenMessage ==
  ASSUME Types, NEW n \in Node, NEW i \in 1..Len(inbox[n])
  PROVE  inbox[n][i] \in Message
<1>1. PICK q : q = inbox[n]
  OBVIOUS
<1>2. q \in Seq(Message)
  BY <1>1 DEF Types, MessagesOK, Boxes
<1>3. q[i] \in Message
  BY <1>1, <1>2
<1> QED
  BY <1>1, <1>3

LEMMA ConnectedAdvances ==
  ASSUME Types, Joint, NEW n \in Node, NEW i \in 1..Len(inbox[n]), Connected(n, i)
  PROVE  \E g \in Sign : Advances(n, g)
<1>1. PICK m : m = inbox[n][i]
  OBVIOUS
<1>2. PICK g \in Sign :
        LET t == task[<<n, g>>]
            level == IF t.from = NoChan THEN "level0" ELSE "level1"
        IN /\ t.pc = "connect" /\ t.wait = m.c
           /\ \/ /\ m.kind = "x" /\ ~Has(n, active[n], m.c.b)
                 /\ ConnectNext(n, g, [t EXCEPT !.opened = Append(@, m.c)],
                      Append(active[n], m.c), Take(n, i), Post(m.c.b, Msg(m.c, level)))
              \/ /\ m.kind # "x" \/ Has(n, active[n], m.c.b)
                 /\ \E d \in Dropped(n, <<m.c>>) :
                      Raise(n, g, t, active[n], Take(n, i), d)
  BY <1>1 DEF Connected
<1>3. PICK t : t = task[<<n, g>>]
  OBVIOUS
<1>4. t.pc = "connect" /\ t \in Task /\ m.c \in Chan
  <2>1. t.pc = "connect"
    BY <1>2, <1>3
  <2>2. t \in Task
    BY <1>3, TaskNow
  <2>3. m \in Message
    BY <1>1, TakenMessage
  <2> QED
    BY <2>1, <2>2, <2>3 DEF Message
<1>5. \/ \E w : ConnectNext(n, g, Extend(t, m.c), Append(active[n], m.c), Take(n, i), w)
      \/ \E d : Raise(n, g, t, active[n], Take(n, i), d)
  BY <1>2, <1>3 DEF Extend
<1>6. Extend(t, m.c) \in Task
  BY <1>4, ExtendVirtual
<1>7. Append(active[n], m.c) # <<>>
  <2>1. active[n] \in Seq(Chan)
    BY DEF Types
  <2> QED
    BY <1>4, <2>1
<1>8. RoundOf(task[<<n, g>>]) = 0
  BY <1>3, <1>4, RoundIs
<1> QED
  BY <1>4, <1>5, <1>6, <1>7, <1>8, ConnectAdvances, RaiseAdvances

LEMMA AcknowledgedAdvances ==
  ASSUME Types, Joint, NEW n \in Node, NEW i \in 1..Len(inbox[n]), Acknowledged(n, i)
  PROVE  \E g \in Sign : Advances(n, g)
<1>1. PICK g \in Sign :
        LET m == inbox[n][i]
            t == task[<<n, g>>]
        IN /\ t.pc = "ack" /\ t.wait = m.c
           /\ \/ /\ m.kind = "ack" /\ t.asked < Len(t.opened)
                 /\ Ask(n, g, t, active[n], Take(n, i), Nothing)
              \/ /\ m.kind = "ack" /\ t.asked = Len(t.opened)
                 /\ BeginRound(n, g, t, active[n], Take(n, i), Nothing, 1)
              \/ /\ m.kind # "ack"
                 /\ Raise(n, g, t, active[n], Take(n, i), Nothing)
  BY DEF Acknowledged
<1>2. PICK t : t = task[<<n, g>>]
  OBVIOUS
<1>3. PICK s : s = Now
  OBVIOUS
<1>4. /\ t.pc = "ack"
      /\ \/ Ask(n, g, t, active[n], Take(n, i), Nothing)
         \/ BeginRound(n, g, t, active[n], Take(n, i), Nothing, 1)
         \/ Raise(n, g, t, active[n], Take(n, i), Nothing)
  BY <1>1, <1>2
<1>5. Mesh(s) /\ t = Tk(s, n, g) /\ t \in Task /\ s.act[n] = active[n]
  BY <1>2, <1>3, TaskNow
<1>6. active[n] # <<>>
  BY <1>4, <1>5, SomeChannel DEF Through
<1>7. RoundOf(task[<<n, g>>]) = 0
  BY <1>2, <1>4, RoundIs
<1>8. 1 \in 1..Rounds /\ 0 = 1 - 1
  BY BoundAssumption
<1>9. CASE Ask(n, g, t, active[n], Take(n, i), Nothing)
  BY <1>5, <1>7, <1>9, AskAdvances
<1>10. CASE BeginRound(n, g, t, active[n], Take(n, i), Nothing, 1)
  BY <1>5, <1>6, <1>7, <1>8, <1>10, BeginAdvances
<1>11. CASE Raise(n, g, t, active[n], Take(n, i), Nothing)
  BY <1>5, <1>11, RaiseAdvances
<1> QED
  BY <1>4, <1>9, <1>10, <1>11

LEMMA ShareAdvances ==
  ASSUME Types, Joint, NEW n \in Node, NEW i \in 1..Len(inbox[n]), Share(n, i)
  PROVE  \E g \in Sign : Advances(n, g)
<1>1. PICK box : box = Take(n, i)
  OBVIOUS
<1>2. PICK g \in Sign :
        LET m == inbox[n][i]
            t == task[<<n, g>>]
            ok == m.kind = "share" /\ ~Resized(n, t)
        IN /\ t.pc = "share" /\ t.wait = m.c
           /\ \/ /\ ~ok
                 /\ \E end : Raise(n, g, t, active[n], end, Nothing)
              \/ /\ ok /\ t.at < Len(t.members)
                 /\ Await(n, g, [t EXCEPT !.at = @ + 1, !.wait = t.members[t.at + 1]],
                          active[n], box, Nothing)
              \/ /\ ok /\ t.at = Len(t.members) /\ t.round < Rounds
                 /\ BeginRound(n, g, t, active[n], box, Nothing, t.round + 1)
              \/ /\ ok /\ t.at = Len(t.members) /\ t.round = Rounds
                 /\ Await(n, g, [t EXCEPT !.pc = "sleep", !.wait = NoChan],
                          active[n], box, Nothing)
  BY <1>1 DEF Share
<1>3. PICK t : t = task[<<n, g>>]
  OBVIOUS
<1>4. /\ t.pc = "share"
      /\ \/ \E end : Raise(n, g, t, active[n], end, Nothing)
         \/ \E w : Await(n, g, Passing(t, w), active[n], box, Nothing)
         \/ t.round < Rounds /\ BeginRound(n, g, t, active[n], box, Nothing, t.round + 1)
         \/ t.round = Rounds /\ Await(n, g, Resting(t), active[n], box, Nothing)
  BY <1>2, <1>3 DEF Passing, Resting
<1>5. PICK s : s = Now
  OBVIOUS
<1>6. Mesh(s) /\ t = Tk(s, n, g) /\ t \in Task /\ s.act[n] = active[n] /\ ShareJ(t, active[n])
  BY <1>3, <1>5, TaskNow
<1>7. active[n] # <<>>
  BY <1>4, <1>6, SomeChannel DEF Through
<1>8. t.round \in 1..Rounds /\ RoundOf(task[<<n, g>>]) = t.round
  BY <1>3, <1>4, <1>6, RoundIs DEF ShareJ
<1>13. task[<<n, g>>].pc # "done"
  BY <1>3, <1>4
<1>9. ASSUME NEW end, Raise(n, g, t, active[n], end, Nothing) PROVE Advances(n, g)
  BY <1>6, <1>9, RaiseAdvances
<1>10. ASSUME NEW w, Await(n, g, Passing(t, w), active[n], box, Nothing)
       PROVE  Advances(n, g)
  <2>1. PICK y : y = Passing(t, w)
    OBVIOUS
  <2>2. y.pc = "share" /\ y.round = t.round
    BY <1>4, <1>6, <2>1 DEF Passing, Task
  <2>3. RoundOf(y) = t.round
    BY <2>2, RoundIs
  <2>4. Advance(task[<<n, g>>], y)
    BY <1>8, <1>13, <2>2, <2>3 DEF Advance
  <2> QED
    BY <1>10, <2>1, <2>4, AwaitAdvances
<1>11. CASE t.round < Rounds /\ BeginRound(n, g, t, active[n], box, Nothing, t.round + 1)
  <2>1. PICK r : r = t.round + 1
    OBVIOUS
  <2>2. r \in 1..Rounds /\ t.round = r - 1
    BY <1>8, <1>11, <2>1, BoundAssumption
  <2>3. RoundOf(task[<<n, g>>]) = r - 1 /\ BeginRound(n, g, t, active[n], box, Nothing, r)
    BY <1>8, <1>11, <2>1, <2>2
  <2> QED
    BY <1>6, <1>7, <2>2, <2>3, BeginAdvances
<1>12. CASE t.round = Rounds /\ Await(n, g, Resting(t), active[n], box, Nothing)
  <2>1. PICK y : y = Resting(t)
    OBVIOUS
  <2>2. y.pc = "sleep"
    BY <1>6, <2>1 DEF Resting, Task
  <2>3. RoundOf(y) = t.round + 1
    BY <1>12, <2>2, RoundIs
  <2>4. Advance(task[<<n, g>>], y)
    BY <1>8, <1>13, <2>2, <2>3 DEF Advance
  <2> QED
    BY <1>12, <2>1, <2>4, AwaitAdvances
<1> QED
  BY <1>4, <1>9, <1>10, <1>11, <1>12

(* The answers of a node on a channel.                                     *)
Rebinds == task' = task \/ \E n \in Node : task' = Rebind(n)

LEMMA PayloadAdvances ==
  ASSUME Types, Joint, NEW n \in Node, NEW i \in 1..Len(inbox[n]), Payload(n, i)
  PROVE  Rebinds \/ \E g \in Sign : Advances(n, g)
<1>1. PICK m : m = inbox[n][i]
  OBVIOUS
<1>2. PICK c : c = m.c
  OBVIOUS
<1>3. /\ n = c.b /\ resp[c] = "payload"
      /\ \/ ConnectNext(n, c.g, Told(c, m.nodes), active[n], Take(n, i), Nothing)
         \/ task' = task
  BY <1>1, <1>2 DEF Payload, Told
<1>4. m \in Message /\ c \in Chan /\ c.g \in Sign
  <2>1. m \in Message
    BY <1>1, TakenMessage
  <2> QED
    BY <1>2, <2>1 DEF Message, Chan
<1>5. PICK s : s = Now
  OBVIOUS
<1>6. Mesh(s) /\ Seen(s) /\ m \in s.mail[n]
  <2>1. Mesh(s) /\ Seen(s)
    BY <1>5, SeenNow DEF Joint
  <2> QED
    BY <1>1, <2>1 DEF Seen, Ran
<1>7. s.resp[c] = "payload"
  BY <1>3, <1>4, <1>6 DEF Seen
<1>8. active[n] # <<>>
  <2>1. Holds(s, n, c)
    BY <1>3, <1>7 DEF Holds
  <2>2. c \in Ran(s.act[n])
    BY <1>4, <1>6, <2>1, AtDictionary
  <2>3. s.act[n] = active[n]
    BY <1>6 DEF Seen
  <2> QED
    BY <2>2, <2>3, SmallDictionary
<1>9. RoundOf(task[<<n, c.g>>]) = 0
  <2>1. Tk(s, n, c.g).pc = "idle"
    BY <1>2, <1>3, <1>4, <1>6, <1>7, PayloadKind
  <2>2. Tk(s, n, c.g) = task[<<n, c.g>>]
    BY <1>4, <1>6 DEF Seen
  <2> QED
    BY <2>1, <2>2, RoundIs
<1>10. Told(c, m.nodes) \in Task
  <2>1. m.nodes \in Seq(Node)
    BY <1>4 DEF Message
  <2> QED
    BY <1>4, <2>1, ToldSame
<1>11. CASE ConnectNext(n, c.g, Told(c, m.nodes), active[n], Take(n, i), Nothing)
  BY <1>4, <1>8, <1>9, <1>10, <1>11, ConnectAdvances
<1> QED
  BY <1>3, <1>11 DEF Rebinds

LEMMA HandleAdvances ==
  ASSUME Types, Joint, NEW n \in Node, Handle(n)
  PROVE  /\ Rebinds \/ \E g \in Sign : Advances(n, g)
         /\ request' = request
<1>1. PICK i \in 1..Len(inbox[n]) :
        /\ \/ Connected(n, i) \/ Acknowledged(n, i) \/ Share(n, i)
           \/ Accept(n, i) \/ TreeLevel(n, i) \/ Payload(n, i) \/ EndOfFile(n, i)
        /\ request' = request
  BY DEF Handle
<1>2. Accept(n, i) \/ TreeLevel(n, i) \/ EndOfFile(n, i) => Rebinds
  BY DEF Accept, TreeLevel, EndOfFile, Rebinds
<1> QED
  BY <1>1, <1>2, ConnectedAdvances, AcknowledgedAdvances, ShareAdvances, PayloadAdvances

LEMMA WakeAdvances ==
  ASSUME Types, Joint, NEW n \in Node, Wake(n)
  PROVE  /\ \E g \in Sign : Advances(n, g)
         /\ request' = request
<1>1. PICK g \in Sign : CloseChannels(n, g) \/ Finish(n, g)
  BY DEF Wake
<1>2. PICK t : t = task[<<n, g>>]
  OBVIOUS
<1>3. t \in Task
  BY <1>2, TaskNow
<1>4. CASE CloseChannels(n, g)
  <2>1. /\ t.pc = "sleep" /\ request' = request
        /\ \E a, o : Await(n, g, Closes(t), a, inbox, o) \/ Raise(n, g, t, a, inbox, o)
    BY <1>2, <1>4 DEF CloseChannels, Closes
  <2>2. PICK y : y = Closes(t)
    OBVIOUS
  <2>3. y.pc = "sleep2"
    BY <1>3, <2>2 DEF Closes, Task
  <2>4. Advance(task[<<n, g>>], y)
    BY <1>2, <2>1, <2>3, RoundIs DEF Advance
  <2> QED
    BY <1>3, <2>1, <2>2, <2>4, AwaitAdvances, RaiseAdvances
<1>5. CASE Finish(n, g)
  <2>1. /\ t.pc = "sleep2" /\ request' = request
        /\ \/ \E a, b, o : Raise(n, g, t, a, b, o)
           \/ task' = [task EXCEPT ![<<n, g>>] = Leave(t, "done")]
    BY <1>2, <1>5 DEF Finish
  <2>2. PICK y : y = Leave(t, "done")
    OBVIOUS
  <2>3. y.pc = "done"
    BY <1>3, <2>2, LeaveIs DEF Ended
  <2>4. Advance(task[<<n, g>>], y)
    BY <1>2, <2>1, <2>3, RoundIs DEF Advance
  <2>5. ASSUME task' = [task EXCEPT ![<<n, g>>] = y] PROVE Advances(n, g)
    <3>1. TaskTo(n, g, y)
      BY <2>5 DEF TaskTo, Types
    <3> QED
      BY <2>4, <3>1 DEF Advances
  <2> QED
    BY <1>3, <2>1, <2>2, <2>5, RaiseAdvances
<1> QED
  BY <1>1, <1>4, <1>5

-----------------------------------------------------------------------------
(* A node that enters a round has the shares of all of the one before.     *)

(* The rounds of the nodes.                                                *)
Phase(s, n, g) == RoundOf(Tk(s, n, g))

LEMMA PhaseIs ==
  ASSUME NEW s, Mesh(s), NEW n \in Node, NEW g \in Sign
  PROVE  /\ Phase(s, n, g) \in 0..(Rounds + 1)
         /\ Tk(s, n, g).round <= Phase(s, n, g)
<1>1. PICK t : t = Tk(s, n, g)
  OBVIOUS
<1>2. TaskJ(s.req[g], n, g, t) /\ t \in Task /\ t.round \in 0..Rounds
  BY <1>1, AtTask, ReadIs
<1>3. CASE t.pc = "share"
  BY <1>1, <1>2, <1>3, RoundIs, BoundAssumption DEF Phase
<1>4. CASE t.pc \in Over
  BY <1>1, <1>2, <1>4, RoundIs, BoundAssumption DEF Phase, Over
<1>5. CASE t.pc \in {"idle", "connect", "ack"}
  BY <1>1, <1>2, <1>5, RoundIs, BoundAssumption DEF Phase, TaskJ
<1> QED
  BY <1>2, <1>3, <1>4, <1>5 DEF TaskJ, Task, Ended, Over

(* A node that has entered a round has read the shares of the one before.  *)
LEMMA ReadSince ==
  ASSUME NEW s, Mesh(s), NEW n \in Node, NEW g \in Sign, NEW r \in 1..Rounds,
         Phase(s, n, g) = r + 1, NEW c
  PROVE  Read(Tk(s, n, g), c) >= r
<1>1. PICK t : t = Tk(s, n, g)
  OBVIOUS
<1>2. TaskJ(s.req[g], n, g, t) /\ t \in Task /\ t.round \in 0..Rounds
  BY <1>1, AtTask, ReadIs
<1>3. RoundOf(t) = r + 1
  BY <1>1 DEF Phase
<1>4. CASE t.pc = "share"
  <2>1. t.round = r + 1
    BY <1>3, <1>4, RoundIs
  <2>2. Read(t, c) \in {t.round, t.round - 1}
    BY <1>4 DEF Read, Over
  <2> QED
    BY <1>1, <1>2, <2>1, <2>2, BoundAssumption
<1>5. CASE t.pc \in Over
  <2>1. Read(t, c) = Rounds
    BY <1>5 DEF Read
  <2> QED
    BY <1>1, <2>1, BoundAssumption
<1>6. t.pc \notin {"idle", "connect", "ack", "failed"}
  BY <1>3, RoundIs, BoundAssumption
<1> QED
  BY <1>2, <1>4, <1>5, <1>6 DEF Task, Ended, Over

LEMMA OthersEntered ==
  ASSUME NEW s, Mesh(s), NEW n \in Node, NEW g \in Sign, NEW r \in 1..Rounds,
         Phase(s, n, g) = r + 1, NEW k \in s.req[g].nodes
  PROVE  k \in Node /\ Phase(s, k, g) >= r
<1>1. PICK q : q = s.req[g]
  OBVIOUS
<1>2. PICK t : t = Tk(s, n, g)
  OBVIOUS
<1>3. t.pc # "idle"
  BY <1>2, RoundIs, BoundAssumption DEF Phase
<1>4. Called(s, g) /\ n \in q.nodes
  BY <1>1, <1>2, <1>3, AtTask
<1>5. /\ CommandJ(q) /\ q.main # None /\ q.main \in Node /\ q.peers \in Seq(Node)
      /\ Ran(q.peers) \subseteq Node /\ q.nodes = {q.main} \cup Ran(q.peers)
  BY <1>1, <1>4, Request
<1>6. k \in Node
  BY <1>1, <1>5
<1>7. CASE k = n
  BY <1>6, <1>7, BoundAssumption
<1>8. CASE k # n
  <2>1. Before(q, n, k) \/ Before(q, k, n)
    BY <1>1, <1>4, <1>5, <1>8, BeforeTotal
  <2>2. ASSUME NEW d, d \in {[a |-> n, b |-> k, g |-> g], [a |-> k, b |-> n, g |-> g]},
               Before(q, d.a, d.b)
        PROVE  Phase(s, k, g) >= r
    <3>1. d \in Chan /\ d.g = g /\ n \in {d.a, d.b} /\ Other(n, d) = k
      BY <1>6, <1>8, <2>2 DEF Chan, Other
    <3>2. Link(s, d)
      BY <1>1, <1>4, <2>2, <3>1 DEF Link
    <3>3. SharesJ(s, d)
      BY <3>1, <3>2, AtLink
    <3>4. Read(Tk(s, n, g), d) <= Tk(s, k, g).round
      BY <3>1, <3>3 DEF SharesJ
    <3>5. Read(Tk(s, n, g), d) >= r
      BY ReadSince
    <3>6. Tk(s, k, g).round <= Phase(s, k, g) /\ Phase(s, k, g) \in 0..(Rounds + 1)
      BY <1>6, PhaseIs
    <3>7. Read(Tk(s, n, g), d) \in 0..Rounds /\ Tk(s, k, g).round \in 0..Rounds
      BY <1>6, ReadIs
    <3> QED
      BY ONLY <3>4, <3>5, <3>6, <3>7, r \in 1..Rounds, BoundAssumption
  <2>3. CASE Before(q, n, k)
    <3>1. PICK d : d = [a |-> n, b |-> k, g |-> g]
      OBVIOUS
    <3>2. d.a = n /\ d.b = k
      BY <3>1
    <3> QED
      BY <1>6, <2>2, <2>3, <3>1, <3>2
  <2>4. CASE Before(q, k, n)
    <3>1. PICK d : d = [a |-> k, b |-> n, g |-> g]
      OBVIOUS
    <3>2. d.a = k /\ d.b = n
      BY <3>1
    <3> QED
      BY <1>6, <2>2, <2>4, <3>1, <3>2
  <2> QED
    BY <2>1, <2>3, <2>4
<1> QED
  BY <1>7, <1>8

-----------------------------------------------------------------------------
(* Every step is one of SmpcRounds, or changes nothing there.              *)

(* The variables of SmpcRounds.                                            *)
Members == [g \in Sign |-> request[g].nodes]
Phases == [p \in Node \X Sign |-> RoundOf(task[p])]
Returned == {g \in Sign : Answered(g)}

RoundsStep == RoundsOf!Next \/ UNCHANGED RoundsOf!vars

LEMMA StutterIs ==
  ASSUME Members' = Members, Phases' = Phases, Returned' = Returned
  PROVE  RoundsStep
BY DEF RoundsStep, RoundsOf!vars, Members, Phases, Returned

LEMMA EnterIs ==
  ASSUME NEW n \in Node, NEW g \in Sign, n \in Members[g], Phases[<<n, g>>] <= Rounds,
         Phases[<<n, g>>] > 0 => \A k \in Members[g] : Phases[<<k, g>>] >= Phases[<<n, g>>],
         Members' = Members, Phases' = [Phases EXCEPT ![<<n, g>>] = @ + 1], Returned' = Returned
  PROVE  RoundsStep
BY DEF RoundsStep, RoundsOf!Next, RoundsOf!Enter, Members, Phases, Returned

LEMMA AnswerIs ==
  ASSUME NEW g \in Sign, NEW k \in Members[g], Phases[<<k, g>>] > Rounds,
         Members' = Members, Phases' = Phases, Returned' = Returned \cup {g}
  PROVE  RoundsStep
BY DEF RoundsStep, RoundsOf!Next, RoundsOf!Answer, Members, Phases, Returned

LEMMA RequestIs ==
  ASSUME NEW g \in Sign, NEW S \in (SUBSET Node) \ {{}}, Members[g] = {},
         Members' = [Members EXCEPT ![g] = S], Phases' = Phases, Returned' = Returned
  PROVE  RoundsStep
BY DEF RoundsStep, RoundsOf!Next, RoundsOf!Request, Members, Phases, Returned

(* Tasks whose rounds and whose ends do not change.                        *)
Flat(y, t) == RoundOf(y) = RoundOf(t) /\ (y.pc = "done" <=> t.pc = "done")
AllFlat == \A k \in Node, h \in Sign : Flat(task'[<<k, h>>], task[<<k, h>>])

LEMMA FlatRounds ==
  ASSUME request' = request, AllFlat,
         \A h \in Sign : request[h].main # None => request[h].main \in Node
  PROVE  RoundsStep
<1>1. Members' = Members
  BY DEF Members
<1>2. Phases' = Phases
  BY DEF Phases, AllFlat, Flat
<1>3. ASSUME NEW h \in Sign PROVE Answered(h)' <=> Answered(h)
  BY DEF Answered, AllFlat, Flat
<1>4. Returned' = Returned
  BY <1>3 DEF Returned
<1> QED
  BY <1>1, <1>2, <1>4, StutterIs

LEMMA MainsAre ==
  ASSUME Types
  PROVE  \A h \in Sign : request[h].main # None => request[h].main \in Node
BY DEF Types, Requests

LEMMA RebindsRounds ==
  ASSUME Types, Rebinds, request' = request
  PROVE  RoundsStep
<1>1. task \in [Node \X Sign -> Task]
  BY DEF Types
<1>2. ASSUME NEW n \in Node, task' = Rebind(n), NEW k \in Node, NEW h \in Sign
      PROVE  Flat(task'[<<k, h>>], task[<<k, h>>])
  <2>1. PICK t \in Task : t = task[<<k, h>>]
    BY <1>1
  <2>2. PICK y : y = [t EXCEPT !.rebound = TRUE]
    OBVIOUS
  <2>3. task'[<<k, h>>] \in {t, y}
    BY <1>2, <2>1, <2>2 DEF Rebind
  <2>4. y.pc = t.pc /\ y.round = t.round
    BY <2>2 DEF Task
  <2>5. RoundOf(y) = RoundOf(t)
    BY <2>4 DEF RoundOf
  <2> QED
    BY <2>1, <2>3, <2>4, <2>5 DEF Flat
<1>3. ASSUME task' = task PROVE AllFlat
  BY <1>3 DEF AllFlat, Flat
<1>4. ASSUME NEW n \in Node, task' = Rebind(n) PROVE AllFlat
  BY <1>2, <1>4 DEF AllFlat
<1>5. AllFlat
  BY <1>3, <1>4 DEF Rebinds
<1> QED
  BY <1>5, MainsAre, FlatRounds

LEMMA AdvancesRounds ==
  ASSUME Types, Joint, Joint', request' = request, NEW n \in Node, NEW g \in Sign, Advances(n, g)
  PROVE  RoundsStep
<1>1. PICK s : s = Now
  OBVIOUS
<1>2. PICK u : u = Now'
  OBVIOUS
<1>3. Mesh(s) /\ Seen(s)
  BY <1>1, SeenNow DEF Joint
<1>4. Mesh(u)
  BY <1>2 DEF Joint
<1>5. u.req = request /\ \A k \in Node, h \in Sign : Tk(u, k, h) = task'[<<k, h>>]
  BY <1>2 DEF Now, Tk
<1>6. PICK t : t = task[<<n, g>>]
  OBVIOUS
<1>7. PICK y : TaskTo(n, g, y) /\ Advance(t, y)
  BY <1>6 DEF Advances
<1>8. task'[<<n, g>>] = y /\ Tk(u, n, g) = y
  BY <1>5, <1>7 DEF TaskTo
<1>9. y.pc # "failed"
  <2>1. TaskJ(u.req[g], n, g, Tk(u, n, g))
    BY <1>4, AtTask
  <2> QED
    BY <1>8, <2>1 DEF TaskJ
<1>10. /\ RoundOf(y) \in {RoundOf(t), RoundOf(t) + 1}
       /\ y.pc = "done" => t.pc \in {"sleep2", "done"}
       /\ t.pc = "done" => y.pc = "done"
  BY <1>7, <1>9 DEF Advance
<1>11. /\ \A k \in Node, h \in Sign : ~(k = n /\ h = g) => task'[<<k, h>>] = task[<<k, h>>]
  BY <1>7 DEF TaskTo
<1>12. \A h \in Sign : request[h].main # None => request[h].main \in Node
  BY MainsAre
<1>13. RoundOf(t) \in 0..(Rounds + 1) /\ RoundOf(y) \in 0..(Rounds + 1)
  BY <1>3, <1>4, <1>5, <1>6, <1>8, PhaseIs DEF Phase, Seen
<1>14. Members' = Members
  BY DEF Members
<1>15. CASE RoundOf(y) = RoundOf(t) + 1
  <2>1. RoundOf(t) <= Rounds
    BY <1>13, <1>15, BoundAssumption
  <2>2. y.pc # "done" /\ t.pc # "done"
    BY <1>10, <1>15, <2>1, RoundIs, BoundAssumption
  <2>3. Returned' = Returned
    <3>1. ASSUME NEW h \in Sign PROVE Answered(h)' <=> Answered(h)
      BY <1>6, <1>8, <1>11, <1>12, <2>2 DEF Answered
    <3> QED
      BY <3>1 DEF Returned
  <2>4. Phases' = [Phases EXCEPT ![<<n, g>>] = @ + 1]
    <3>1. ASSUME NEW k \in Node, NEW h \in Sign
          PROVE  RoundOf(task'[<<k, h>>]) =
                   [Phases EXCEPT ![<<n, g>>] = @ + 1][<<k, h>>]
      <4>1. Phases[<<n, g>>] = RoundOf(t) /\ Phases[<<k, h>>] = RoundOf(task[<<k, h>>])
        BY <1>6 DEF Phases
      <4>2. DOMAIN Phases = Node \X Sign
        BY DEF Phases
      <4>3. [Phases EXCEPT ![<<n, g>>] = @ + 1][<<k, h>>] =
              IF k = n /\ h = g THEN RoundOf(t) + 1 ELSE RoundOf(task[<<k, h>>])
        BY <4>1, <4>2
      <4> QED
        BY <1>8, <1>11, <1>15, <4>3
    <3>2. Phases' = [p \in Node \X Sign |-> RoundOf(task'[p])]
      BY DEF Phases
    <3>3. DOMAIN Phases = Node \X Sign
      BY DEF Phases
    <3>4. ASSUME NEW p \in Node \X Sign
          PROVE  RoundOf(task'[p]) = [Phases EXCEPT ![<<n, g>>] = @ + 1][p]
      <4>1. PICK k \in Node, h \in Sign : p = <<k, h>>
        OBVIOUS
      <4> QED
        BY <3>1, <4>1
    <3> QED
      BY <3>2, <3>3, <3>4
  <2>5. Phases[<<n, g>>] = RoundOf(t)
    BY <1>6 DEF Phases
  <2>6. n \in Members[g]
    <3>1. y.pc # "idle"
      BY <1>13, <1>15, RoundIs, BoundAssumption
    <3>2. n \in u.req[g].nodes
      BY <1>4, <1>8, <3>1, AtTask
    <3> QED
      BY <1>5, <3>2 DEF Members
  <2>7. ASSUME RoundOf(t) > 0, NEW k \in Members[g] PROVE Phases[<<k, g>>] >= RoundOf(t)
    <3>1. k \in u.req[g].nodes
      BY <1>5 DEF Members
    <3>2. RoundOf(t) \in 1..Rounds
      BY <1>13, <2>1, <2>7, BoundAssumption
    <3>3. Phase(u, n, g) = RoundOf(t) + 1
      BY <1>8, <1>15 DEF Phase
    <3>4. k \in Node /\ Phase(u, k, g) >= RoundOf(t)
      BY <1>4, <3>1, <3>2, <3>3, OthersEntered
    <3>5. CASE k = n
      BY <1>13, <2>5, <3>5, BoundAssumption
    <3>6. CASE k # n
      <4>1. Tk(u, k, g) = task[<<k, g>>]
        BY <1>5, <1>11, <3>4, <3>6
      <4>2. Phases[<<k, g>>] = RoundOf(task[<<k, g>>])
        BY <3>4 DEF Phases
      <4> QED
        BY <3>4, <4>1, <4>2 DEF Phase
    <3> QED
      BY <3>5, <3>6
  <2> QED
    BY <1>14, <2>1, <2>3, <2>4, <2>5, <2>6, <2>7, EnterIs
<1>16. CASE RoundOf(y) = RoundOf(t) /\ (y.pc = "done" <=> t.pc = "done")
  <2>1. AllFlat
    BY <1>6, <1>8, <1>11, <1>16 DEF AllFlat, Flat
  <2> QED
    BY <1>12, <2>1, FlatRounds
<1>17. CASE RoundOf(y) = RoundOf(t) /\ y.pc = "done" /\ t.pc # "done"
  <2>1. t.pc = "sleep2" /\ RoundOf(t) = Rounds + 1
    BY <1>10, <1>17, RoundIs
  <2>2. Phases' = Phases
    BY <1>6, <1>8, <1>11, <1>17 DEF Phases
  <2>3. CASE request[g].main = n
    <3>1. ASSUME NEW h \in Sign PROVE Answered(h)' <=> Answered(h) \/ h = g
      BY <1>6, <1>8, <1>11, <1>12, <1>17, <2>3, NoneAssumption DEF Answered
    <3>2. Returned' = Returned \cup {g}
      BY <3>1 DEF Returned
    <3>3. n \in Members[g]
      <4>1. n \in s.req[g].nodes
        BY <1>3, <1>6, <2>1, AtTask DEF Seen
      <4> QED
        BY <1>3, <4>1 DEF Members, Seen
    <3>4. Phases[<<n, g>>] > Rounds
      BY <1>6, <2>1, BoundAssumption DEF Phases
    <3> QED
      BY <1>14, <2>2, <3>2, <3>3, <3>4, AnswerIs
  <2>4. CASE request[g].main # n
    <3>1. ASSUME NEW h \in Sign PROVE Answered(h)' <=> Answered(h)
      BY <1>6, <1>8, <1>11, <1>12, <2>4 DEF Answered
    <3>2. Returned' = Returned
      BY <3>1 DEF Returned
    <3> QED
      BY <1>14, <2>2, <3>2, StutterIs
  <2> QED
    BY <2>3, <2>4
<1> QED
  BY <1>10, <1>15, <1>16, <1>17

(* A command that was not sent names no node.                              *)
Unnamed == \A g \in Sign : request[g].main = None => request[g].nodes = {}

LEMMA InitUnnamed == Init => Unnamed
BY DEF Init, Unnamed

LEMMA SignUnnamed ==
  ASSUME Types, Unnamed, NEW g \in Sign, NEW m \in Node, NEW peers, SignCommand(g, m, peers)
  PROVE  Unnamed'
<1>1. PICK q : q = [main |-> m, peers |-> peers,
                    nodes |-> {m} \cup {peers[i] : i \in 1..Len(peers)}]
  OBVIOUS
<1>2. request' = [request EXCEPT ![g] = q] /\ DOMAIN request = Sign
  BY <1>1 DEF SignCommand, Types, Requests
<1>3. q.main # None
  BY <1>1, NoneAssumption
<1>4. \A h \in Sign : request'[h] = IF h = g THEN q ELSE request[h]
  BY <1>2
<1> QED
  BY <1>3, <1>4 DEF Unnamed

(* A command is sent while no node signs.                                  *)
LEMMA SignRounds ==
  ASSUME Types, Own, Joint, Unnamed, "client" \in Timing,
         NEW g \in Sign, NEW m \in Node, NEW peers \in Lists(m), SignCommand(g, m, peers)
  PROVE  RoundsStep
<1>1. PICK s : s = Now
  OBVIOUS
<1>2. Mesh(s) /\ Seen(s) /\ inbox \in Boxes /\ down = {}
  BY <1>1, SeenNow DEF Joint, InOrder
<1>3. request[g].main = None /\ ~Busy
  BY DEF SignCommand
<1>4. active[m] = <<>> /\ Rebind(m) = task
  BY <1>1, <1>3, IdleNodes
<1>5. peers \in Seq(Node) /\ peers # <<>> /\ Injective(peers) /\ m \notin Ran(peers)
  BY ListsAre
<1>6. PICK c : c = [a |-> m, b |-> peers[1], g |-> g]
  OBVIOUS
<1>7. PICK y : y = NextTask(peers, c)
  OBVIOUS
<1>8. y.pc = "connect"
  BY <1>7 DEF NextTask, Idle
<1>9. task' = [task EXCEPT ![<<m, g>>] = y]
  BY <1>2, <1>4, <1>6, <1>7 DEF SignCommand, NextTask
<1>10. task[<<m, g>>].pc = "idle"
  BY <1>2, <1>3, AtTask DEF Called, Seen
<1>11. DOMAIN task = Node \X Sign
  BY DEF Types
<1>12. \A k \in Node, h \in Sign : task'[<<k, h>>] = IF k = m /\ h = g THEN y ELSE task[<<k, h>>]
  BY <1>9, <1>11
<1>13. AllFlat
  BY <1>8, <1>10, <1>12, RoundIs DEF AllFlat, Flat
<1>14. Phases' = Phases
  BY <1>13 DEF Phases, AllFlat, Flat
<1>15. PICK q : q = [main |-> m, peers |-> peers,
                     nodes |-> {m} \cup {peers[i] : i \in 1..Len(peers)}]
  OBVIOUS
<1>16. request' = [request EXCEPT ![g] = q] /\ DOMAIN request = Sign
  BY <1>15 DEF SignCommand, Types, Requests
<1>17. \A h \in Sign : request'[h] = IF h = g THEN q ELSE request[h]
  BY <1>16
<1>18. q.main = m /\ q.nodes = {m} \cup Ran(peers)
  BY <1>15 DEF Ran
<1>19. q.nodes \in (SUBSET Node) \ {{}}
  BY <1>5, <1>18, RanType
<1>20. Members' = [Members EXCEPT ![g] = q.nodes]
  BY <1>17 DEF Members
<1>21. Members[g] = {}
  BY <1>3 DEF Members, Unnamed
<1>22. ASSUME NEW h \in Sign PROVE Answered(h)' <=> Answered(h)
  <2>1. CASE h = g
    BY <1>3, <1>8, <1>12, <1>17, <1>18, <2>1 DEF Answered
  <2>2. CASE h # g
    BY <1>12, <1>17, <2>2, MainsAre DEF Answered
  <2> QED
    BY <2>1, <2>2
<1>23. Returned' = Returned
  BY <1>22 DEF Returned
<1> QED
  BY <1>14, <1>19, <1>20, <1>21, <1>23, RequestIs

(* The invariant of the refinement.                                        *)
WholeNamed == Whole /\ Unnamed

LEMMA NextRounds ==
  ASSUME {"order", "client"} \subseteq Timing, MaxHalts = 0, WholeNamed, [Next]_vars
  PROVE  WholeNamed' /\ RoundsStep
<1>1. Types /\ Own /\ Joint /\ Unnamed /\ "client" \in Timing /\ Whole
  BY DEF Whole, WholeNamed
<1>2. Whole' /\ Joint'
  BY <1>1, NextWhole DEF Whole
<1>3. CASE UNCHANGED vars
  <2>1. Members' = Members /\ Phases' = Phases /\ Returned' = Returned /\ Unnamed'
    BY <1>1, <1>3 DEF vars, Members, Phases, Returned, Answered, Unnamed
  <2> QED
    BY <1>2, <2>1, StutterIs DEF WholeNamed
<1>4. ASSUME NEW n \in Node, NEW g \in Sign, NEW peers \in Lists(n), SignCommand(g, n, peers)
      PROVE  Unnamed' /\ RoundsStep
  BY <1>1, <1>4, SignUnnamed, SignRounds
<1>5. ASSUME NEW n \in Node, Handle(n) PROVE request' = request /\ RoundsStep
  <2>1. (Rebinds \/ \E g \in Sign : Advances(n, g)) /\ request' = request
    BY <1>1, <1>5, HandleAdvances
  <2> QED
    BY <1>1, <1>2, <2>1, RebindsRounds, AdvancesRounds
<1>6. ASSUME NEW n \in Node, Wake(n) PROVE request' = request /\ RoundsStep
  <2>1. (\E g \in Sign : Advances(n, g)) /\ request' = request
    BY <1>1, <1>6, WakeAdvances
  <2> QED
    BY <1>1, <1>2, <2>1, AdvancesRounds
<1>7. ASSUME NEW n \in Node PROVE ~Halt(n)
  BY <1>1, NoHalt
<1>8. ASSUME request' = request PROVE Unnamed'
  BY <1>1, <1>8 DEF Unnamed
<1>9. (Unnamed' /\ RoundsStep) \/ UNCHANGED vars
  BY <1>4, <1>5, <1>6, <1>7, <1>8 DEF Next
<1> QED
  BY <1>2, <1>3, <1>9 DEF WholeNamed

LEMMA InitRounds == Init => RoundsOf!Init
<1> SUFFICES ASSUME Init PROVE RoundsOf!Init
  OBVIOUS
<1>1. Members = [g \in Sign |-> {}]
  BY DEF Init, Members
<1>2. \A n \in Node, g \in Sign : task[<<n, g>>] = Idle
  BY DEF Init
<1>3. RoundOf(Idle) = 0
  BY RoundIs DEF Idle
<1>4. Phases = [p \in Node \X Sign |-> 0]
  BY <1>3 DEF Init, Phases
<1>5. Returned = {}
  BY DEF Init, Returned, Answered
<1> QED
  BY <1>1, <1>4, <1>5 DEF RoundsOf!Init, Members, Phases, Returned

(* The nodes implement SmpcRounds: each begins a round of an algorithm when*)
(* it has read a share of the round before from every other node, and the  *)
(* signature goes to the client when a node is through with the last round.*)
THEOREM RoundsImplemented ==
  ASSUME {"order", "client"} \subseteq Timing, MaxHalts = 0
  PROVE  Spec => RoundsSpec
<1>1. Init => WholeNamed /\ RoundsOf!Init
  BY InitWhole, InitUnnamed, InitRounds DEF WholeNamed
<1>2. WholeNamed /\ [Next]_vars => WholeNamed' /\ [RoundsOf!Next]_(RoundsOf!vars)
  BY NextRounds DEF RoundsStep
<1> QED
  BY <1>1, <1>2, PTL DEF Spec, RoundsSpec, RoundsOf!Spec
=============================================================================
