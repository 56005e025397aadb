---------------------------- MODULE SmpcChannels ----------------------------
(***************************************************************************)
(* The nodes of smpc_signer.py: how those a SIGN command names connect to  *)
(* each other, exchange the shares of the algorithms round by round, and   *)
(* close their channels.  A step runs from one `await` to the next one.    *)
(*                                                                         *)
(* A task waits for a message on one channel.  The three messages of the   *)
(* Noise handshake and the exchange of the x coordinates are one message   *)
(* each way, since nothing but the two ends is touched in between.  Keys   *)
(* and shares carry no value: a share is the number of its round.          *)
(***************************************************************************)
EXTENDS Naturals, Sequences, FiniteSets

CONSTANTS
  Node,
  MaxHalts,   \* HALT commands
  MaxSigns,   \* SIGN commands
  Rounds,     \* exchanges of shares of one signature
  Timing,     \* the assumptions on time that hold
  None

ASSUME NoneAssumption == None \notin Node
ASSUME BoundAssumption ==
  MaxSigns \in Nat \ {0} /\ MaxHalts \in Nat /\ Rounds \in Nat \ {0}

(* "order": a node handles what it is sent in the order it was sent.       *)
(* "sleep": what was sent is handled before a sleep of 0.1 s ends, and two *)
(*          sleeps end in the order they began.                            *)
(* "client": a SIGN command is sent when the nodes are done with the last. *)
ASSUME TimingAssumption == Timing \subseteq {"order", "sleep", "client"}

VARIABLES
  request,    \* every SIGN command: the node it was sent to, the others it
              \* names in their order, and all of these
  task,       \* smpc_sign() of a node for a command
  resp,       \* client_connected() for a channel, by the node connected to
  active,     \* active_channels, in the order of the dictionary
  inbox,      \* what was sent to a node and not yet read, in that order
  down        \* the nodes that do not run any more

vars == <<request, task, resp, active, inbox, down>>

-----------------------------------------------------------------------------

Sign == 1..MaxSigns

(* A channel that a opened to b for the command g.                         *)
Chan == {c \in [a: Node, b: Node, g: Sign] : c.a # c.b}
NoChan == [a |-> None, b |-> None, g |-> 0]

Other(n, c) == IF c.a = n THEN c.b ELSE c.a

(* Tasks: what it waits for (pc) and where (wait), the nodes still to be   *)
(* connected to, the channels opened, the number of peers that were sent   *)
(* their payload, the round, the channels of the loop over active_channels *)
(* and the position in it, and whether active_channels was assigned since. *)
Idle == [pc |-> "idle", wait |-> NoChan, from |-> NoChan, list |-> <<>>,
         opened |-> <<>>, asked |-> 0, round |-> 0, members |-> <<>>,
         at |-> 0, rebound |-> FALSE]

Ended == {"done", "failed"}

Leave(t, label) == [Idle EXCEPT !.pc = label, !.round = t.round]

TypeOK ==
  /\ request \in [Sign -> [main: Node \cup {None}, peers: Seq(Node),
                         nodes: SUBSET Node]]
  /\ \A p \in Node \X Sign :
       /\ task[p].pc \in {"idle", "connect", "ack", "share", "sleep", "sleep2"}
                           \cup Ended
       /\ task[p].wait \in Chan \cup {NoChan}
       /\ task[p].from \in Chan \cup {NoChan}
       /\ task[p].round \in 0..Rounds
       /\ task[p].pc \in {"connect", "ack", "share"} => task[p].wait # NoChan
       /\ task[p].pc = "share" => task[p].members[task[p].at] = task[p].wait
  /\ resp \in [Chan -> {"none", "level", "payload", "sign", "hold", "closed",
                        "failed"}]
  /\ down \subseteq Node
  /\ \A n \in Node : \A i \in 1..Len(active[n]) :
       /\ active[n][i] \in Chan
       /\ n \in {active[n][i].a, active[n][i].b}
       /\ \A j \in 1..(i - 1) : Other(n, active[n][j]) # Other(n, active[n][i])

Init ==
  /\ request = [g \in Sign |-> [main |-> None, peers |-> <<>>, nodes |-> {}]]
  /\ task = [p \in Node \X Sign |-> Idle]
  /\ resp = [c \in Chan |-> "none"]
  /\ active = [n \in Node |-> <<>>]
  /\ inbox = [n \in Node |-> <<>>]
  /\ down = {}

-----------------------------------------------------------------------------

(* Messages: a share has its round, a payload its nodes.                   *)
Msg(c, kind) == [c |-> c, kind |-> kind, round |-> 0, nodes |-> <<>>]

(* The end of a channel that is closed, by writer.close() or with its node.*)
Closed(n, c) ==
  \/ n \in down
  \/ n = c.b /\ resp[c] = "closed"
  \/ n = c.a /\ task[<<n, c.g>>].pc \in {"sleep2", "done"}

(* active_channels, a dictionary by the node at the other end.             *)
Has(n, act, k) == \E i \in 1..Len(act) : Other(n, act[i]) = k

At(n, act, k) == act[CHOOSE i \in 1..Len(act) : Other(n, act[i]) = k]

(* The elements of s that are in S.                                        *)
Keep(s, S) ==
  LET kept[i \in 0..Len(s)] ==
        IF i = 0 THEN <<>>
        ELSE IF s[i] \in S THEN Append(kept[i - 1], s[i]) ELSE kept[i - 1]
  IN  kept[Len(s)]

Without(n, act, ks) == Keep(act, {c \in Chan : Other(n, c) \notin ks})

Put(n, act, c) ==
  IF Has(n, act, Other(n, c))
    THEN [i \in 1..Len(act) |->
            IF Other(n, act[i]) = Other(n, c) THEN c ELSE act[i]]
    ELSE Append(act, c)

(* What a step sends: to every node, a sequence of messages.  TCP keeps    *)
(* the order of a channel; a closed end gets nothing more.                 *)
Nothing == [k \in Node |-> <<>>]

Post(to, m) ==
  [k \in Node |-> IF k = to /\ ~Closed(k, m.c) THEN <<m>> ELSE <<>>]

PostEach(n, chans, kind, r) ==
  [k \in Node |->
     IF Has(n, chans, k) /\ ~Closed(k, At(n, chans, k))
       THEN <<[Msg(At(n, chans, k), kind) EXCEPT !.round = r]>> ELSE <<>>]

Eofs(n, chans) == PostEach(n, chans, "eof", 0)

Shares(n, chans, r) == PostEach(n, chans, "share", r)

(* The boxes of f, with what g sends after it.                             *)
f ++ g == [k \in Node |-> f[k] \o g[k]]

(* Is someone at n waiting for the message m?                              *)
Awaited(n, m) ==
  \/ \E g \in Sign : task[<<n, g>>].wait = m.c
  \/ n = m.c.b /\ \/ resp[m.c] \in {"none", "level", "payload"}
                  \/ resp[m.c] = "hold" /\ m.kind = "eof"

Readable(n, i) ==
  /\ Awaited(n, inbox[n][i])
  /\ \A j \in 1..(i - 1) : inbox[n][j].c # inbox[n][i].c

(* The message the event loop of n handles next.                           *)
Next1(n, i) ==
  /\ Readable(n, i)
  /\ "order" \in Timing => \A j \in 1..(i - 1) : ~Readable(n, j)

Take(n, i) ==
  [inbox EXCEPT ![n] = SubSeq(@, 1, i - 1) \o SubSeq(@, i + 1, Len(@))]

(* A stream that has ended stays so: its end is left to the other reader,  *)
(* when a share is awaited from a channel that is kept until its end.      *)
ReadEnd(n, i, shared) ==
  IF inbox[n][i].kind = "eof" /\ shared THEN inbox ELSE Take(n, i)

(* active_channels = {...}: loops that run keep the old dictionary.        *)
Rebind(n) ==
  [p \in Node \X Sign |->
     IF p[1] = n /\ task[p].pc = "share" THEN [task[p] EXCEPT !.rebound = TRUE]
                                          ELSE task[p]]

(* A stream that nothing refers to any more: the library closes it or not. *)
Dropped(n, chans) == {Nothing, Eofs(n, chans)}

-----------------------------------------------------------------------------
(* How a step of smpc_sign() ends: t is the task, act the dictionary of n, *)
(* box the messages that are left, out those it has sent.                  *)

Await(n, g, t, act, box, out) ==
  /\ task' = [task EXCEPT ![<<n, g>>] = t]
  /\ active' = [active EXCEPT ![n] = act]
  /\ inbox' = box ++ out
  /\ resp' = IF t.from = NoChan THEN resp ELSE [resp EXCEPT ![t.from] = "sign"]

(* An exception: the task of a peer still runs its `finally`, which takes  *)
(* its channel out of the dictionary; no one closes anything.              *)
Raise(n, g, t, act, box, out) ==
  /\ task' = [task EXCEPT ![<<n, g>>] = Leave(t, "failed")]
  /\ \/ /\ t.from = NoChan
        /\ active' = [active EXCEPT ![n] = act]
        /\ inbox' = box ++ out
        /\ UNCHANGED resp
     \/ /\ t.from # NoChan
        /\ active' = [active EXCEPT ![n] = Without(n, act, {t.from.a})]
        /\ \E d \in Dropped(n, <<t.from>>) : inbox' = box ++ (out ++ d)
        /\ resp' = [resp EXCEPT ![t.from] = "failed"]

(* The shares of round r are sent to every channel, then awaited in turn.  *)
BeginRound(n, g, t, act, box, out, r) ==
  \/ /\ act = <<>>
     /\ Await(n, g, [t EXCEPT !.pc = "sleep", !.wait = NoChan, !.round = Rounds],
              act, box, out)
  \/ /\ act # <<>>
     /\ Await(n, g, [t EXCEPT !.pc = "share", !.wait = act[1], !.round = r,
                              !.members = act, !.at = 1, !.rebound = FALSE],
              act, box, out ++ Shares(n, act, r))

(* Mutant: the payload leaves out one node too many (peer_idx + 2).        *)
AskShort(n, g, t, act, box, out) ==
  LET k == t.asked + 1
      c == t.opened[k]
  IN /\ Has(n, act, c.b)
     /\ Await(n, g, [t EXCEPT !.pc = "ack", !.wait = c, !.asked = k], act, box,
          out ++ Post(c.b, [Msg(c, "payload") EXCEPT
            !.nodes = [i \in 1..(Len(t.opened) - k) |-> t.opened[k + i].b],
            !.nodes = SubSeq(@, 2, Len(@))]))

(* The next peer is told to connect to the peers after it.                 *)
Ask(n, g, t, act, box, out) ==
  LET k == t.asked + 1
      peer == t.opened[k].b
      c == At(n, act, peer)
  IN \/ /\ ~Has(n, act, peer)
        /\ Raise(n, g, t, act, box, out)
     \/ /\ Has(n, act, peer)
        /\ Await(n, g, [t EXCEPT !.pc = "ack", !.wait = c, !.asked = k],
             act, box, out ++ Post(peer, [Msg(c, "payload") EXCEPT
               !.nodes = [i \in 1..(Len(t.opened) - k) |-> t.opened[k + i].b]]))

(* Mutant: the acknowledgement is forgotten.                               *)
ConnectNextSilent(n, g, t, act, box, out) ==
  \/ /\ t.list # <<>> /\ Head(t.list) \notin down
     /\ LET c == [a |-> n, b |-> Head(t.list), g |-> g]
        IN Await(n, g, [t EXCEPT !.pc = "connect", !.wait = c, !.list = Tail(@)],
                 act, box, out ++ Post(c.b, Msg(c, "hello")))
  \/ /\ t.list = <<>> /\ t.from = NoChan
     /\ Ask(n, g, t, act, box, out)
  \/ /\ t.list = <<>> /\ t.from # NoChan
     /\ BeginRound(n, g, t, act, box, out, 1)

(* The next node of the list; when all are connected, a peer acknowledges  *)
(* and begins, the main node asks its peers.                               *)
ConnectNext(n, g, t, act, box, out) ==
  \/ /\ t.list # <<>> /\ Head(t.list) \in down
     /\ Raise(n, g, t, act, box, out)
  \/ /\ t.list # <<>> /\ Head(t.list) \notin down
     /\ LET c == [a |-> n, b |-> Head(t.list), g |-> g]
        IN Await(n, g, [t EXCEPT !.pc = "connect", !.wait = c, !.list = Tail(@)],
                 act, box, out ++ Post(c.b, Msg(c, "hello")))
  \/ /\ t.list = <<>> /\ t.from = NoChan
     /\ Ask(n, g, t, act, box, out)
  \/ /\ t.list = <<>> /\ t.from # NoChan
     /\ BeginRound(n, g, t, act, box,
                   out ++ Post(t.from.a, Msg(t.from, "ack")), 1)

-----------------------------------------------------------------------------
(* client_connected(), SIGN: m is to sign with the peers of the list; the  *)
(* loop over the nodes skips the entry of m itself.                        *)

Running(n, g) == task[<<n, g>>].pc \notin {"idle"} \cup Ended

Busy ==
  \/ \E n \in Node, g \in Sign : Running(n, g)
  \/ \E n \in Node : \E i \in 1..Len(inbox[n]) : Readable(n, i)

SignCommand(g, m, peers) ==
  /\ request[g].main = None
  /\ \A h \in 1..(g - 1) :
       request[h].main # None /\ task[<<request[h].main, h>>].pc \in Ended
  /\ "client" \in Timing => ~Busy
  /\ m \notin down
  /\ request' = [request EXCEPT ![g] =
       [main |-> m, peers |-> peers,
        nodes |-> {m} \cup {peers[i] : i \in 1..Len(peers)}]]
  /\ LET c == [a |-> m, b |-> peers[1], g |-> g]
         t == [Idle EXCEPT !.list = peers]
     IN \E d \in Dropped(m, active[m]) :
          IF c.b \in down
            THEN /\ task' = [Rebind(m) EXCEPT ![<<m, g>>] = Leave(t, "failed")]
                 /\ inbox' = inbox ++ d
            ELSE /\ task' = [Rebind(m) EXCEPT ![<<m, g>>] =
                      [t EXCEPT !.pc = "connect", !.wait = c,
                                !.list = Tail(peers)]]
                 /\ inbox' = inbox ++ (d ++ Post(c.b, Msg(c, "hello")))
  /\ active' = [active EXCEPT ![m] = <<>>]
  /\ UNCHANGED <<resp, down>>

(* Mutant: every channel has the level of a signature, 0.                  *)
ConnectedAsMain(n, i) ==
  \E g \in Sign :
    LET m == inbox[n][i]
        t == task[<<n, g>>]
    IN /\ t.pc = "connect" /\ t.wait = m.c /\ m.kind = "x"
       /\ ~Has(n, active[n], m.c.b)
       /\ ConnectNext(n, g, [t EXCEPT !.opened = Append(@, m.c)],
            Append(active[n], m.c), Take(n, i), Post(m.c.b, Msg(m.c, "level0")))

(* connect_peer() returns; the channel is given its level.                 *)
Connected(n, i) ==
  \E g \in Sign :
    LET m == inbox[n][i]
        t == task[<<n, g>>]
        level == IF t.from = NoChan THEN "level0" ELSE "level1"
    IN /\ t.pc = "connect" /\ t.wait = m.c
       /\ \/ /\ m.kind = "x" /\ ~Has(n, active[n], m.c.b)
             /\ ConnectNext(n, g, [t EXCEPT !.opened = Append(@, m.c)],
                  Append(active[n], m.c), Take(n, i),
                  Post(m.c.b, Msg(m.c, level)))
          \/ /\ m.kind # "x" \/ Has(n, active[n], m.c.b)
             /\ \E d \in Dropped(n, <<m.c>>) :
                  Raise(n, g, t, active[n], Take(n, i), d)

(* The acknowledgement of a peer.                                          *)
Acknowledged(n, i) ==
  \E g \in Sign :
    LET m == inbox[n][i]
        t == task[<<n, g>>]
    IN /\ t.pc = "ack" /\ t.wait = m.c
       /\ \/ /\ m.kind = "ack" /\ t.asked < Len(t.opened)
             /\ Ask(n, g, t, active[n], Take(n, i), Nothing)
          \/ /\ m.kind = "ack" /\ t.asked = Len(t.opened)
             /\ BeginRound(n, g, t, active[n], Take(n, i), Nothing, 1)
          \/ /\ m.kind # "ack"
             /\ Raise(n, g, t, active[n], Take(n, i), Nothing)

(* Mutant: the loops run once more than the algorithm has rounds.          *)
ShareExtra(n, i) ==
  \E g \in Sign :
    LET m == inbox[n][i]
        t == task[<<n, g>>]
        box == Take(n, i)
    IN /\ t.pc = "share" /\ t.wait = m.c /\ m.kind = "share"
       /\ \/ /\ t.at < Len(t.members)
             /\ Await(n, g, [t EXCEPT !.at = @ + 1,
                                      !.wait = t.members[t.at + 1]],
                      active[n], box, Nothing)
          \/ /\ t.at = Len(t.members) /\ t.round <= Rounds
             /\ BeginRound(n, g, t, active[n], box, Nothing, t.round + 1)

(* Mutant: the first algorithm returns inside its loop over the channels.  *)
ShareEarly(n, i) ==
  \E g \in Sign :
    LET m == inbox[n][i]
        t == task[<<n, g>>]
        box == Take(n, i)
        last == t.at = Len(t.members) \/ t.round = 1
    IN /\ t.pc = "share" /\ t.wait = m.c /\ m.kind = "share"
       /\ \/ /\ ~last
             /\ Await(n, g, [t EXCEPT !.at = @ + 1,
                                      !.wait = t.members[t.at + 1]],
                      active[n], box, Nothing)
          \/ /\ last /\ t.round < Rounds
             /\ BeginRound(n, g, t, active[n], box, Nothing, t.round + 1)
          \/ /\ last /\ t.round = Rounds
             /\ Await(n, g, [t EXCEPT !.pc = "sleep", !.wait = NoChan],
                      active[n], box, Nothing)

(* A dictionary that changed size under a loop raises RuntimeError.        *)
Resized(n, t) == ~t.rebound /\ Len(active[n]) # Len(t.members)

(* A share arrives; the last one of a round begins the next round.         *)
Share(n, i) ==
  \E g \in Sign :
    LET m == inbox[n][i]
        t == task[<<n, g>>]
        box == Take(n, i)
        held == n = m.c.b /\ resp[m.c] = "hold"
        ok == m.kind = "share" /\ ~Resized(n, t)
    IN /\ t.pc = "share" /\ t.wait = m.c
       /\ \/ /\ ~ok
             /\ Raise(n, g, t, active[n], ReadEnd(n, i, held), Nothing)
          \/ /\ ok /\ t.at < Len(t.members)
             /\ Await(n, g, [t EXCEPT !.at = @ + 1,
                                      !.wait = t.members[t.at + 1]],
                      active[n], box, Nothing)
          \/ /\ ok /\ t.at = Len(t.members) /\ t.round < Rounds
             /\ BeginRound(n, g, t, active[n], box, Nothing, t.round + 1)
          \/ /\ ok /\ t.at = Len(t.members) /\ t.round = Rounds
             /\ Await(n, g, [t EXCEPT !.pc = "sleep", !.wait = NoChan],
                      active[n], box, Nothing)

-----------------------------------------------------------------------------
(* The end of smpc_sign(): two sleeps, the channels closed in between.     *)

(* What is handled before a sleep ends; an end of file is only looked for  *)
(* every 42 ms.                                                            *)
Unread(kinds) ==
  \E n \in Node : \E i \in 1..Len(inbox[n]) :
    Readable(n, i) /\ inbox[n][i].kind \notin kinds

(* Mutant: the channels are closed and stay in the dictionary.             *)
CloseChannelsKeep(n, g) ==
  /\ task[<<n, g>>].pc = "sleep"
  /\ "sleep" \in Timing => ~Unread({"eof"})
  /\ Await(n, g, [task[<<n, g>>] EXCEPT !.pc = "sleep2"], active[n], inbox,
           Eofs(n, task[<<n, g>>].opened))
  /\ UNCHANGED <<request, down>>

(* A channel that is not in the dictionary any more is a KeyError, when    *)
(* those before it are closed.                                             *)
CloseChannels(n, g) ==
  LET t == task[<<n, g>>]
      held == {i \in 1..Len(t.opened) : Has(n, active[n], t.opened[i].b)}
      done == {i \in held : 1..i \subseteq held}
      peers == {t.opened[i].b : i \in done}
      act == Without(n, active[n], peers)
      out == Eofs(n, Keep(active[n], {c \in Chan : Other(n, c) \in peers}))
  IN /\ t.pc = "sleep"
     /\ "sleep" \in Timing => ~Unread({"eof"})
     /\ \/ /\ done = 1..Len(t.opened)
           /\ Await(n, g, [t EXCEPT !.pc = "sleep2"], act, inbox, out)
        \/ /\ done # 1..Len(t.opened)
           /\ Raise(n, g, t, act, inbox, out)
     /\ UNCHANGED <<request, down>>

(* The main node sends the signature to its client; a peer leaves the      *)
(* `finally` of client_connected() and closes the channel it was asked on. *)
Finish(n, g) ==
  LET t == task[<<n, g>>]
  IN /\ t.pc = "sleep2"
     /\ "sleep" \in Timing =>
          ~Unread({}) /\ \A p \in Node \X Sign : task[p].pc # "sleep"
     /\ \/ /\ t.from # NoChan /\ ~Has(n, active[n], t.from.a)
           /\ Raise(n, g, t, active[n], inbox, Nothing)
        \/ /\ t.from # NoChan /\ Has(n, active[n], t.from.a)
           /\ task' = [task EXCEPT ![<<n, g>>] = Leave(t, "done")]
           /\ active' = [active EXCEPT ![n] = Without(n, @, {t.from.a})]
           /\ inbox' = inbox ++ Eofs(n, <<t.from>>)
           /\ resp' = [resp EXCEPT ![t.from] = "closed"]
        \/ /\ t.from = NoChan
           /\ task' = [task EXCEPT ![<<n, g>>] = Leave(t, "done")]
           /\ UNCHANGED <<active, inbox, resp>>
     /\ UNCHANGED <<request, down>>

-----------------------------------------------------------------------------
(* client_connected(), SECU: the node n at the end b of a channel.         *)

Respond(c, state, act, box, out) ==
  /\ resp' = [resp EXCEPT ![c] = state]
  /\ active' = [active EXCEPT ![c.b] = act]
  /\ inbox' = box ++ out

(* The task of a channel ends with an exception.                           *)
Abort(c, act, box) ==
  \E d \in Dropped(c.b, <<c>>) : Respond(c, "failed", act, box, d)

(* accept_connection(); a second channel of a peer is refused.             *)
Accept(n, i) ==
  LET m == inbox[n][i]
      c == m.c
      x == Post(c.a, Msg(c, "x"))
  IN /\ n = c.b /\ resp[c] = "none"
     /\ \/ /\ Has(n, active[n], c.a)
           /\ Respond(c, "closed", active[n], Take(n, i),
                      x ++ Post(c.a, Msg(c, "eof")))
        \/ /\ ~Has(n, active[n], c.a)
           /\ Respond(c, "level", active[n], Take(n, i), x)
     /\ UNCHANGED task

TreeLevel(n, i) ==
  LET m == inbox[n][i]
      c == m.c
      box == Take(n, i)
  IN /\ n = c.b /\ resp[c] = "level"
     /\ \/ /\ m.kind = "level0"
           /\ task' = Rebind(n)
           /\ resp' = [resp EXCEPT ![c] = "payload"]
           /\ active' = [active EXCEPT ![n] = <<c>>]
           /\ \E d \in Dropped(n, active[n]) : inbox' = box ++ d
        \/ /\ m.kind = "level1"
           /\ Respond(c, "hold", Put(n, active[n], c), box, Nothing)
           /\ UNCHANGED task
        \/ /\ m.kind \notin {"level0", "level1"}
           /\ Abort(c, active[n], box)
           /\ UNCHANGED task

Payload(n, i) ==
  LET m == inbox[n][i]
      c == m.c
      t == [Idle EXCEPT !.from = c, !.list = m.nodes]
  IN /\ n = c.b /\ resp[c] = "payload"
     /\ \/ /\ m.kind = "payload"
           /\ ConnectNext(n, c.g, t, active[n], Take(n, i), Nothing)
        \/ /\ m.kind # "payload"
           /\ Abort(c, Without(n, active[n], {c.a}), Take(n, i))
           /\ UNCHANGED task

(* A channel of level 1 is kept until the other end has closed it.         *)
EndOfFile(n, i) ==
  LET m == inbox[n][i]
      c == m.c
      box == ReadEnd(n, i, \E g \in Sign : task[<<n, g>>].wait = c)
  IN /\ n = c.b /\ resp[c] = "hold" /\ m.kind = "eof"
     /\ \/ /\ Has(n, active[n], c.a)
           /\ Respond(c, "closed", Without(n, active[n], {c.a}), box,
                      Post(c.a, Msg(c, "eof")))
        \/ /\ ~Has(n, active[n], c.a)
           /\ Abort(c, active[n], box)
     /\ UNCHANGED task

(* client_connected(), HALT: the server stops, which ends asyncio.run()    *)
(* and the process; the system closes its channels.                        *)
Halt(n) ==
  LET Between(k) == [i \in 1..(2 * MaxSigns) |->
        IF i <= MaxSigns THEN [a |-> n, b |-> k, g |-> i]
                         ELSE [a |-> k, b |-> n, g |-> i - MaxSigns]]
      open == {c \in Chan :
        /\ ~Closed(c.a, c) /\ ~Closed(c.b, c)
        /\ \/ resp[c] # "none"
           \/ \E i \in 1..Len(inbox[c.b]) : inbox[c.b][i].c = c}
      eofs(k) == LET cut == Keep(Between(k), open)
                 IN  [i \in 1..Len(cut) |-> Msg(cut[i], "eof")]
  IN /\ n \notin down
     /\ Cardinality(down) < MaxHalts
     /\ down' = down \cup {n}
     /\ task' = [p \in Node \X Sign |->
          IF p[1] = n /\ Running(n, p[2]) THEN Leave(task[p], "failed")
                                          ELSE task[p]]
     /\ resp' = [c \in Chan |->
          IF c.b = n /\ resp[c] # "none" THEN "failed" ELSE resp[c]]
     /\ active' = [active EXCEPT ![n] = <<>>]
     /\ inbox' = [k \in Node |-> IF k = n THEN <<>> ELSE inbox[k] \o eofs(k)]
     /\ UNCHANGED request

-----------------------------------------------------------------------------

Handle(n) ==
  \E i \in 1..Len(inbox[n]) :
    /\ Next1(n, i)
    /\ \/ Connected(n, i) \/ Acknowledged(n, i) \/ Share(n, i)
       \/ Accept(n, i) \/ TreeLevel(n, i) \/ Payload(n, i) \/ EndOfFile(n, i)
    /\ UNCHANGED <<request, down>>

Wake(n) == \E g \in Sign : CloseChannels(n, g) \/ Finish(n, g)

(* Clients name different nodes, the one they talk to among them.          *)
Lists(m) ==
  {peers \in UNION {[1..k -> Node \ {m}] : k \in 1..Cardinality(Node)} :
     \A i, j \in DOMAIN peers : peers[i] = peers[j] => i = j}

Next ==
  \E n \in Node :
    \/ \E g \in Sign : \E peers \in Lists(n) : SignCommand(g, n, peers)
    \/ Handle(n)
    \/ Wake(n)
    \/ Halt(n)

Spec == Init /\ [][Next]_vars

(* Some event loop runs, whose sleeps end: no node can keep the others     *)
(* from their turn forever, for it runs out of messages.                   *)
FairSpec == Spec /\ WF_vars(\E n \in Node : Handle(n) \/ Wake(n))

-----------------------------------------------------------------------------

(* "Send an acknoledgment that the connections were established" (line     *)
(* 290): a node that runs the algorithm does it with all the other nodes   *)
(* the command names, and with no other.                                   *)
AllConnected ==
  \A n \in Node, g \in Sign :
    LET t == task[<<n, g>>]
    IN t.pc = "share" =>
         {Other(n, t.members[i]) : i \in 1..Len(t.members)}
           = request[g].nodes \ {n}

(* The share a node takes from a channel belongs to the round it is in.    *)
SameRound ==
  \A n \in Node, g \in Sign : \A i \in 1..Len(inbox[n]) :
    LET m == inbox[n][i]
    IN m.kind = "share" /\ m.c = task[<<n, g>>].wait /\ Readable(n, i)
         /\ task[<<n, g>>].pc = "share" => m.round = task[<<n, g>>].round

(* As long as no node was halted no task of a command ends with an         *)
(* exception: no second channel of a peer is refused, no channel is missed *)
(* in the dictionary, and none ends before its last share was read, in     *)
(* whatever order the nodes connect, exchange and close.                   *)
NoFailure ==
  down = {} => \A n \in Node, g \in Sign : task[<<n, g>>].pc # "failed"

Answered(g) == request[g].main # None /\ task[<<request[g].main, g>>].pc = "done"

(* However slow the network, and whatever failed before: when a signature  *)
(* is returned, every node the command names took part to the last round.  *)
SignedTogether ==
  \A n \in Node, g \in Sign :
    Answered(g) /\ n \in request[g].nodes =>
      task[<<n, g>>].round = Rounds

(* When nothing runs any more, the nodes keep no channel.                  *)
Released ==
  ~Busy => \A n \in Node : active[n] = <<>>

(* Every command is answered with a signature: at any time there is a      *)
(* later one when none is left without (an answer stays, and the commands  *)
(* are finitely many).                                                     *)
SignReturns == []<>(\A g \in Sign : request[g].main # None => Answered(g))

RoundOf(t) ==
  CASE t.pc \in {"sleep", "sleep2", "done"} -> Rounds + 1
    [] t.pc = "share" -> t.round
    [] OTHER -> 0

RoundsOf == INSTANCE SmpcRounds WITH
  members <- [g \in Sign |-> request[g].nodes],
  phase <- [p \in Node \X Sign |-> RoundOf(task[p])],
  answered <- {g \in Sign : Answered(g)}

(* The nodes go through the rounds together, and the signature is returned *)
(* when all are through.                                                   *)
RoundsSpec == RoundsOf!Spec
=============================================================================
