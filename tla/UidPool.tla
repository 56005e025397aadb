------------------------------- MODULE UidPool -------------------------------
(***************************************************************************)
(* What ssh-isolation.py promises: a session runs as one user from its     *)
(* beginning to its end; the sessions of a connection share their user,    *)
(* and two connections never do.                                           *)
(***************************************************************************)
EXTENDS Naturals

CONSTANTS Session, Connection, Uid, None

VARIABLE runs   \* the connection and user id of every running session

Idle == [conn |-> None, uid |-> None]

Init == runs = [s \in Session |-> Idle]

Running(s) == runs[s] # Idle

(* The user of session s may be u: that of its connection if it has one,   *)
(* and a free one if not.                                                  *)
MayUse(s, c, u) ==
  \A t \in Session \ {s} :
    Running(t) => (runs[t].conn = c <=> runs[t].uid = u)

Enter(s, c, u) ==
  /\ ~Running(s)
  /\ MayUse(s, c, u)
  /\ runs' = [runs EXCEPT ![s] = [conn |-> c, uid |-> u]]

Leave(s) ==
  /\ Running(s)
  /\ runs' = [runs EXCEPT ![s] = Idle]

Next ==
  \E s \in Session :
    \/ \E c \in Connection, u \in Uid : Enter(s, c, u)
    \/ Leave(s)

Spec == Init /\ [][Next]_runs
=============================================================================
