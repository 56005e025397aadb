------------------------- MODULE SshIsolationProofs -------------------------
(***************************************************************************)
(* When set-ups do not overlap, ssh-isolation.py gives every connection    *)
(* its own user, for every number of sessions, connections and user ids,   *)
(* and however many set-ups are killed half-way.                           *)
(***************************************************************************)
EXTENDS SshIsolation, TLAPS

(* Where a session has the user id it will run with.                       *)
Taken == {"drop"} \cup Dropped

(* At most one set-up at a time.                                           *)
Serial == \A s, t \in Session : SettingUp(s) /\ SettingUp(t) => s = t

(* What a session relies on in the directory and in what it has read.      *)
Own(t) ==
  /\ pc[t] \in Rooted \cup Dropped => conn[t] \in Connection
  /\ pc[t] \in {"stat", "list_dir", "reuse", "remove"} =>
       \A u \in connected[t] : dir[u] = "user"
  /\ pc[t] = "remove" => uid[t] \notin connected[t]
  /\ pc[t] = "write" => user[uid[t]].by = t
  /\ pc[t] \in {"makedirs", "chown"} \cup Taken => user[uid[t]].text = conn[t]
  /\ pc[t] \in Taken => dir[uid[t]] = "user"

(* What the set-up of t knows of the session s that is already running:    *)
(* its user is among the connected ones as soon as /proc has been read,    *)
(* and, if it is of the same connection, its file is still to be read.     *)
Knows(t, s) ==
  /\ pc[t] = "stat" => s \in pids[t] \/ uid[s] \in connected[t]
  /\ pc[t] \in {"list_dir", "reuse", "remove", "pick"} => uid[s] \in connected[t]
  /\ pc[t] \in {"stat", "list_dir", "reuse", "remove"} =>
       \A u \in connected[t] : user[u].text = conn[s] => uid[s] = u
  /\ pc[t] \in {"reuse", "remove"} =>
       (conn[s] = conn[t] => uid[s] \in names[t])
  /\ pc[t] \in {"pick", "write", "makedirs", "chown"} => conn[s] # conn[t]
  /\ pc[t] \in {"write", "makedirs", "chown"} => uid[s] # uid[t]
  /\ pc[t] \in Taken => (conn[s] = conn[t] <=> uid[s] = uid[t])

(* The inductive invariant.                                                *)
IInv ==
  /\ TypeOK
  /\ Serial
  /\ \A t \in Session : Own(t)
  /\ \A s, t \in Session : pc[s] = "shell" => Knows(t, s)

-----------------------------------------------------------------------------

LEMMA InitIInv == Init => IInv
  <1>. SUFFICES ASSUME Init
                PROVE  IInv
    OBVIOUS
  <1>1. TypeOK
    <2>1. user \in [Uid -> [by: Session \cup {None},
                            text: Connection \cup {None}]]
      BY DEF Init, NoFile
    <2>2. kills \in 0..MaxKills
      BY KillsAssumption DEF Init
    <2>. QED
      BY <2>1, <2>2 DEF Init, TypeOK, Named, Dropped, Rooted
  <1>. QED
    BY <1>1 DEF Init, IInv, Serial, Own, Knows, SettingUp, Rooted, Dropped, Taken

(* A process that ends leaves its variables as they were at the beginning. *)
LEMMA LeaveTypeOK ==
  ASSUME TypeOK, NEW s \in Session, UNCHANGED <<files, kills>>,
         NEW label \in {"none", "failed", "refused"}, Leave(s, label)
  PROVE  TypeOK'
  <1>1. pids' \in [Session -> SUBSET Session]
    BY DEF TypeOK, Leave
  <1>. QED
    BY <1>1 DEF TypeOK, Leave, Goto, files, Named, Rooted, Dropped

(* A step of a set-up goes to one program point, with one user id.         *)
LEMMA StepTypeOK ==
  ASSUME TypeOK, NEW s \in Session,
         NEW label \in Rooted \cup Dropped, Goto(s, label),
         NEW v \in Uid \cup {None}, uid' = [uid EXCEPT ![s] = v],
         label \in Named => v \in Uid,
         user' \in [Uid -> [by: Session \cup {None}, text: Connection \cup {None}]],
         dir' \in [Uid -> {"absent", "root", "user"}],
         workdir' \in BOOLEAN,
         names' \in [Session -> SUBSET Uid],
         UNCHANGED <<conn, pids, connected, kills>>
  PROVE  TypeOK'
  <1>1. pc' = [pc EXCEPT ![s] = label]
    BY DEF Goto
  <1>2. pc' \in [Session -> {"none", "failed", "refused"} \cup Rooted \cup Dropped]
    BY <1>1 DEF TypeOK
  <1>3. uid' \in [Session -> Uid \cup {None}]
    BY DEF TypeOK
  <1>4. ASSUME NEW t \in Session, pc'[t] \in Named
        PROVE  uid'[t] \in Uid
    BY <1>1, <1>4 DEF TypeOK
  <1>. QED
    BY <1>2, <1>3, <1>4 DEF TypeOK

LEMMA NextTypeOK == TypeOK /\ [Next]_vars => TypeOK'
  <1>. SUFFICES ASSUME TypeOK, [Next]_vars
                PROVE  TypeOK'
    OBVIOUS
  <1>. USE NoneAssumption, KillsAssumption
       DEF TypeOK, files, locals, Goto, Named, Rooted, Dropped
  <1>1. ASSUME NEW s \in Session, NEW c \in Connection, Start(s, c)
        PROVE  TypeOK'
    BY <1>1 DEF Start
  <1>2. ASSUME NEW s \in Session, Begin(s)
        PROVE  TypeOK'
    BY <1>2 DEF Begin
  <1>3. ASSUME NEW s \in Session, Mkdir(s)
        PROVE  TypeOK'
    <2>1. CASE workdir
      BY <1>3, <2>1, LeaveTypeOK DEF Mkdir, Fail
    <2>2. CASE ~workdir
      <3>1. uid' = [uid EXCEPT ![s] = uid[s]]
        BY <1>3, <2>2 DEF Mkdir
      <3>2. Goto(s, "list_proc") /\ workdir' = TRUE
            /\ UNCHANGED <<user, dir, names, conn, pids, connected, kills>>
        BY <1>3, <2>2 DEF Mkdir
      <3>. QED
        BY ONLY TypeOK, s \in Session, <3>1, <3>2, StepTypeOK
           DEF TypeOK, Named, Rooted, Dropped
    <2>. QED
      BY <2>1, <2>2
  <1>4. ASSUME NEW s \in Session, ListProc(s)
        PROVE  TypeOK'
    BY <1>4 DEF ListProc
  <1>5. ASSUME NEW s \in Session, Stat(s)
        PROVE  TypeOK'
    <2>1. ASSUME NEW t \in pids[s],
                 pids' = [pids EXCEPT ![s] = @ \ {t}],
                 connected' = [connected EXCEPT ![s] =
                   IF Visible(t) THEN @ \cup {uid[t]} ELSE @],
                 UNCHANGED <<pc, files, conn, uid, names, kills>>
          PROVE  TypeOK'
      <3>1. Visible(t) => uid[t] \in Uid
        BY DEF Visible
      <3>2. connected' \in [Session -> SUBSET Uid]
        BY <2>1, <3>1
      <3>. QED
        BY <2>1, <3>2
    <2>2. CASE pids[s] = {}
      BY <1>5, <2>2 DEF Stat
    <2>. QED
      BY <1>5, <2>1, <2>2 DEF Stat
  <1>6. ASSUME NEW s \in Session, ListDir(s)
        PROVE  TypeOK'
    BY <1>6 DEF ListDir
  <1>7. ASSUME NEW s \in Session, NEW u \in Uid, RemoveTree(s, u)
        PROVE  TypeOK'
    <2>1. CASE dir[u] = "absent"
      BY <1>7, <2>1, LeaveTypeOK DEF RemoveTree, Fail
    <2>2. CASE dir[u] # "absent"
      <3>1. /\ Goto(s, "remove") /\ uid' = [uid EXCEPT ![s] = u]
            /\ UNCHANGED <<user, workdir, names, conn, pids, connected, kills>>
        BY <1>7, <2>2 DEF RemoveTree
      <3>2. dir' \in [Uid -> {"absent", "root", "user"}]
        BY <1>7, <2>2 DEF RemoveTree
      <3>. QED
        BY <3>1, <3>2, StepTypeOK
    <2>. QED
      BY <2>1, <2>2
  <1>8. ASSUME NEW s \in Session, RemoveFile(s)
        PROVE  TypeOK'
    <2>1. CASE ~Exists(uid[s])
      BY <1>8, <2>1, LeaveTypeOK DEF RemoveFile, Fail
    <2>2. CASE Exists(uid[s])
      <3>1. /\ Goto(s, "reuse") /\ uid' = [uid EXCEPT ![s] = None]
            /\ names' = [names EXCEPT ![s] = @ \ {uid[s]}]
            /\ UNCHANGED <<dir, workdir, conn, pids, connected, kills>>
        BY <1>8, <2>2 DEF RemoveFile
      <3>2. user' \in [Uid -> [by: Session \cup {None}, text: Connection \cup {None}]]
        <4>1. user' = [user EXCEPT ![uid[s]] = NoFile]
          BY <1>8, <2>2 DEF RemoveFile
        <4>. QED
          BY <4>1 DEF NoFile
      <3>3. names' \in [Session -> SUBSET Uid]
        BY <3>1
      <3>. QED
        BY ONLY TypeOK, s \in Session, <3>1, <3>2, <3>3, StepTypeOK
           DEF TypeOK, Named, Rooted, Dropped
    <2>. QED
      BY <2>1, <2>2
  <1>9. ASSUME NEW s \in Session, NEW u \in Uid, ReadUser(s, u)
        PROVE  TypeOK'
    <2>1. CASE ~Exists(u)
      BY <1>9, <2>1, LeaveTypeOK DEF ReadUser, Fail
    <2>2. CASE Exists(u)
      <3>1. CASE user[u].text = conn[s]
        <4>1. /\ Goto(s, "drop") /\ uid' = [uid EXCEPT ![s] = u]
              /\ UNCHANGED <<files, names, conn, pids, connected, kills>>
          BY <1>9, <2>2, <3>1 DEF ReadUser
        <4>. QED
          BY <4>1, StepTypeOK
      <3>2. CASE user[u].text # conn[s]
        BY <1>9, <2>2, <3>2 DEF ReadUser
      <3>. QED
        BY <3>1, <3>2
    <2>. QED
      BY <2>1, <2>2
  <1>10. ASSUME NEW s \in Session, NoReuse(s)
         PROVE  TypeOK'
    BY <1>10 DEF NoReuse
  <1>11. ASSUME NEW s \in Session, NEW u \in Uid, Pick(s, u)
         PROVE  TypeOK'
    <2>1. CASE Exists(u)
      BY <1>11, <2>1 DEF Pick
    <2>2. CASE ~Exists(u)
      <3>1. /\ Goto(s, "write") /\ uid' = [uid EXCEPT ![s] = u]
            /\ UNCHANGED <<dir, workdir, names, conn, pids, connected, kills>>
        BY <1>11, <2>2 DEF Pick
      <3>2. user' \in [Uid -> [by: Session \cup {None}, text: Connection \cup {None}]]
        BY <1>11, <2>2 DEF Pick
      <3>. QED
        BY <3>1, <3>2, StepTypeOK
    <2>. QED
      BY <2>1, <2>2
  <1>20. ASSUME NEW s \in Session, PickNone(s)
         PROVE  TypeOK'
    BY <1>20, LeaveTypeOK DEF PickNone
  <1>12. ASSUME NEW s \in Session, Write(s)
         PROVE  TypeOK'
    BY <1>12 DEF Write
  <1>13. ASSUME NEW s \in Session, Makedirs(s)
         PROVE  TypeOK'
    BY <1>13 DEF Makedirs
  <1>14. ASSUME NEW s \in Session, Chown(s)
         PROVE  TypeOK'
    <2>1. CASE dir[uid[s]] = "absent"
      BY <1>14, <2>1, LeaveTypeOK DEF Chown, Fail
    <2>2. CASE dir[uid[s]] # "absent"
      <3>1. \A t \in Session : pc'[t] \in Named => uid'[t] \in Uid
        BY <1>14, <2>2 DEF Chown
      <3>2. dir' \in [Uid -> {"absent", "root", "user"}]
        BY <1>14, <2>2 DEF Chown
      <3>3. pc' \in [Session -> {"none", "failed", "refused"} \cup Rooted \cup Dropped]
        BY <1>14, <2>2 DEF Chown
      <3>. QED
        BY <1>14, <2>2, <3>1, <3>2, <3>3 DEF Chown
    <2>. QED
      BY <2>1, <2>2
  <1>15. ASSUME NEW s \in Session, DropPrivileges(s)
         PROVE  TypeOK'
    BY <1>15 DEF DropPrivileges
  <1>16. ASSUME NEW s \in Session, EnterDir(s)
         PROVE  TypeOK'
    <2>1. CASE dir[uid[s]] # "user"
      BY <1>16, <2>1, LeaveTypeOK DEF EnterDir, Fail
    <2>2. CASE dir[uid[s]] = "user"
      BY <1>16, <2>2 DEF EnterDir
    <2>. QED
      BY <2>1, <2>2
  <1>17. ASSUME NEW s \in Session, Exit(s)
         PROVE  TypeOK'
    BY <1>17, LeaveTypeOK DEF Exit
  <1>18. ASSUME NEW s \in Session, Kill(s)
         PROVE  TypeOK'
    BY <1>18 DEF Kill, Leave
  <1>19. CASE UNCHANGED vars
    BY <1>19 DEF vars
  <1>. QED
    BY <1>1, <1>2, <1>3, <1>4, <1>5, <1>6, <1>7, <1>8, <1>9, <1>10, <1>11,
       <1>12, <1>13, <1>14, <1>15, <1>16, <1>17, <1>18, <1>19, <1>20 DEF Next, Step
-----------------------------------------------------------------------------

(* While a session is being set up, the others run their shell or are no   *)
(* longer, or not yet, there.                                              *)
LEMMA OthersSettled ==
  ASSUME IInv, NEW s \in Session, SettingUp(s), NEW t \in Session, t # s
  PROVE  pc[t] \in {"none", "failed", "refused", "shell"}
  BY DEF IInv, Serial, SettingUp, TypeOK, Rooted, Dropped

(* A step of one session leaves at most one set-up.                        *)
LEMMA NextSerial ==
  ASSUME ~Overlap, IInv, [Next]_vars
  PROVE  Serial'
  <1>. USE DEF IInv, Serial, SettingUp, TypeOK, Goto, Rooted, Dropped
  <1>1. ASSUME NEW s \in Session, NEW c \in Connection, Start(s, c)
        PROVE  Serial'
    BY <1>1 DEF Start
  <1>2. ASSUME NEW s \in Session, Begin(s)
        PROVE  Serial'
    BY <1>2 DEF Begin
  <1>3. ASSUME NEW s \in Session, Mkdir(s)
        PROVE  Serial'
    BY <1>3 DEF Mkdir, Fail, Leave
  <1>4. ASSUME NEW s \in Session, ListProc(s)
        PROVE  Serial'
    BY <1>4 DEF ListProc
  <1>5. ASSUME NEW s \in Session, Stat(s)
        PROVE  Serial'
    BY <1>5 DEF Stat
  <1>6. ASSUME NEW s \in Session, ListDir(s)
        PROVE  Serial'
    BY <1>6 DEF ListDir
  <1>7. ASSUME NEW s \in Session, NEW u \in Uid, RemoveTree(s, u)
        PROVE  Serial'
    BY <1>7 DEF RemoveTree, Fail, Leave
  <1>8. ASSUME NEW s \in Session, RemoveFile(s)
        PROVE  Serial'
    BY <1>8 DEF RemoveFile, Fail, Leave
  <1>9. ASSUME NEW s \in Session, NEW u \in Uid, ReadUser(s, u)
        PROVE  Serial'
    BY <1>9 DEF ReadUser, Fail, Leave
  <1>10. ASSUME NEW s \in Session, NoReuse(s)
        PROVE  Serial'
    BY <1>10 DEF NoReuse
  <1>11. ASSUME NEW s \in Session, NEW u \in Uid, Pick(s, u)
        PROVE  Serial'
    BY <1>11 DEF Pick
  <1>12. ASSUME NEW s \in Session, PickNone(s)
        PROVE  Serial'
    BY <1>12 DEF PickNone, Leave
  <1>13. ASSUME NEW s \in Session, Write(s)
        PROVE  Serial'
    BY <1>13 DEF Write
  <1>14. ASSUME NEW s \in Session, Makedirs(s)
        PROVE  Serial'
    BY <1>14 DEF Makedirs
  <1>15. ASSUME NEW s \in Session, Chown(s)
        PROVE  Serial'
    BY <1>15 DEF Chown, Fail, Leave
  <1>16. ASSUME NEW s \in Session, DropPrivileges(s)
        PROVE  Serial'
    BY <1>16 DEF DropPrivileges
  <1>17. ASSUME NEW s \in Session, EnterDir(s)
        PROVE  Serial'
    BY <1>17 DEF EnterDir, Fail, Leave
  <1>18. ASSUME NEW s \in Session, Exit(s)
        PROVE  Serial'
    BY <1>18 DEF Exit, Leave
  <1>19. ASSUME NEW s \in Session, Kill(s)
        PROVE  Serial'
    BY <1>19 DEF Kill, Leave
  <1>20. CASE UNCHANGED vars
    BY <1>20 DEF vars
  <1>. QED
    BY <1>1, <1>2, <1>3, <1>4, <1>5, <1>6, <1>7, <1>8, <1>9, <1>10, <1>11,
       <1>12, <1>13, <1>14, <1>15, <1>16, <1>17, <1>18, <1>19, <1>20 DEF Next, Step

(* What the others rely on survives the end of a process.                  *)
LEMMA LeaveKeeps ==
  ASSUME IInv, NEW s \in Session, UNCHANGED files,
         NEW label \in {"none", "failed", "refused"}, Leave(s, label),
         NEW t \in Session
  PROVE  /\ Own(t)'
         /\ \A x \in Session : pc'[x] = "shell" => Knows(t, x)'
  <1>. USE DEF Leave, Goto, IInv, TypeOK, files, Rooted, Dropped, Taken
  <1>1. pc' = [pc EXCEPT ![s] = label]
    OBVIOUS
  <1>2. CASE t = s
    BY <1>1, <1>2 DEF Own, Knows
  <1>3. CASE t # s
    <2>1. UNCHANGED <<pc[t], conn[t], uid[t], connected[t], names[t], user, dir>>
          /\ pids'[t] = pids[t] \ {s}
      BY <1>3
    <2>2. Own(t)'
      BY <2>1 DEF Own
    <2>3. ASSUME NEW x \in Session, pc'[x] = "shell"
          PROVE  Knows(t, x)'
      <3>1. x # s /\ pc[x] = "shell" /\ UNCHANGED <<conn[x], uid[x]>>
        BY <1>1, <2>3
      <3>. QED
        BY <2>1, <3>1 DEF Knows
    <2>. QED
      BY <2>2, <2>3
  <1>. QED
    BY <1>2, <1>3

(* What a session relies on stays true.                                    *)
LEMMA NextOwn ==
  ASSUME IInv, [Next]_vars
  PROVE  \A t \in Session : Own(t)'
  <1>. USE NoneAssumption
       DEF IInv, TypeOK, Own, Knows, Goto, SettingUp, Named, Rooted, Dropped, Taken,
           files, locals
  <1>1. ASSUME NEW s \in Session, NEW c \in Connection, Start(s, c),
               NEW t \in Session
        PROVE  Own(t)'
    BY <1>1 DEF Start
  <1>2. ASSUME NEW s \in Session, Begin(s),
               NEW t \in Session
        PROVE  Own(t)'
    BY <1>2, OthersSettled DEF Begin
  <1>3. ASSUME NEW s \in Session, Mkdir(s),
               NEW t \in Session
        PROVE  Own(t)'
    <2>1. CASE workdir
      BY <1>3, <2>1, LeaveKeeps DEF Mkdir, Fail
    <2>2. CASE ~workdir
      BY <1>3, <2>2, OthersSettled DEF Mkdir
    <2>. QED
      BY <2>1, <2>2
  <1>4. ASSUME NEW s \in Session, ListProc(s),
               NEW t \in Session
        PROVE  Own(t)'
    BY <1>4, OthersSettled DEF ListProc
  <1>5. ASSUME NEW s \in Session, Stat(s),
               NEW t \in Session
        PROVE  Own(t)'
    <2>1. ASSUME NEW x \in pids[s], Visible(x)
          PROVE  dir[uid[x]] = "user"
      BY <1>5, <2>1, OthersSettled DEF Stat, Visible
    <2>2. CASE t = s
      BY <1>5, <2>1, <2>2 DEF Stat
    <2>3. CASE t # s
      BY <1>5, <2>3 DEF Stat
    <2>. QED
      BY <2>2, <2>3
  <1>6. ASSUME NEW s \in Session, ListDir(s),
               NEW t \in Session
        PROVE  Own(t)'
    BY <1>6, OthersSettled DEF ListDir
  <1>7. ASSUME NEW s \in Session, NEW u \in Uid, RemoveTree(s, u),
               NEW t \in Session
        PROVE  Own(t)'
    <2>1. CASE dir[u] = "absent"
      BY <1>7, <2>1, LeaveKeeps DEF RemoveTree, Fail
    <2>2. CASE dir[u] # "absent"
      <3>1. pc[t] = "shell" => uid[t] # u
        BY <1>7 DEF RemoveTree
      <3>2. CASE t = s
        BY <1>7, <2>2, <3>2 DEF RemoveTree
      <3>3. CASE t # s
        <4>1. pc[t] \in {"none", "failed", "refused", "shell"}
          BY <1>7, <3>3, OthersSettled DEF RemoveTree
        <4>. QED
          BY <1>7, <2>2, <3>1, <3>3, <4>1 DEF RemoveTree
      <3>. QED
        BY <3>2, <3>3
    <2>. QED
      BY <2>1, <2>2
  <1>8. ASSUME NEW s \in Session, RemoveFile(s),
               NEW t \in Session
        PROVE  Own(t)'
    <2>1. CASE t = s
      BY <1>8, <2>1 DEF RemoveFile, Fail, Leave
    <2>2. CASE t # s
      <3>1. pc[t] \in {"none", "failed", "refused", "shell"}
        BY <1>8, <2>2, OthersSettled DEF RemoveFile
      <3>2. pc[t] = "shell" => uid[t] # uid[s]
        BY <1>8 DEF RemoveFile
      <3>. QED
        BY <1>8, <2>2, <3>1, <3>2 DEF RemoveFile, Fail, Leave
    <2>. QED
      BY <2>1, <2>2
  <1>9. ASSUME NEW s \in Session, NEW u \in Uid, ReadUser(s, u),
               NEW t \in Session
        PROVE  Own(t)'
    <2>1. CASE ~Exists(u)
      BY <1>9, <2>1, LeaveKeeps DEF ReadUser, Fail
    <2>2. CASE Exists(u)
      BY <1>9, <2>2, OthersSettled DEF ReadUser
    <2>. QED
      BY <2>1, <2>2
  <1>10. ASSUME NEW s \in Session, NoReuse(s),
               NEW t \in Session
        PROVE  Own(t)'
    BY <1>10, OthersSettled DEF NoReuse
  <1>11. ASSUME NEW s \in Session, NEW u \in Uid, Pick(s, u),
               NEW t \in Session
        PROVE  Own(t)'
    <2>1. CASE t = s
      BY <1>11, <2>1 DEF Pick
    <2>2. CASE t # s
      <3>1. pc[t] \in {"none", "failed", "refused", "shell"}
        BY <1>11, <2>2, OthersSettled DEF Pick
      <3>2. pc[t] = "shell" => uid[t] # u
        BY <1>11 DEF Pick, Least, Free
      <3>. QED
        BY <1>11, <2>2, <3>1, <3>2 DEF Pick
    <2>. QED
      BY <2>1, <2>2
  <1>12. ASSUME NEW s \in Session, PickNone(s),
               NEW t \in Session
        PROVE  Own(t)'
    BY <1>12, LeaveKeeps DEF PickNone
  <1>13. ASSUME NEW s \in Session, Write(s),
               NEW t \in Session
        PROVE  Own(t)'
    <2>1. user' = [user EXCEPT ![uid[s]] = [by |-> s, text |-> conn[s]]]
      BY <1>13 DEF Write
    <2>2. CASE t = s
      BY <1>13, <2>1, <2>2 DEF Write
    <2>3. CASE t # s
      <3>1. pc[t] \in {"none", "failed", "refused", "shell"}
        BY <1>13, <2>3, OthersSettled DEF Write
      <3>2. pc[t] = "shell" => user'[uid[t]] = user[uid[t]]
        BY <1>13, <2>1 DEF Write
      <3>. QED
        BY <1>13, <2>3, <3>1, <3>2 DEF Write
    <2>. QED
      BY <2>2, <2>3
  <1>14. ASSUME NEW s \in Session, Makedirs(s),
               NEW t \in Session
        PROVE  Own(t)'
    BY <1>14, OthersSettled DEF Makedirs
  <1>15. ASSUME NEW s \in Session, Chown(s),
               NEW t \in Session
        PROVE  Own(t)'
    <2>1. CASE dir[uid[s]] = "absent"
      BY <1>15, <2>1, LeaveKeeps DEF Chown, Fail
    <2>2. CASE dir[uid[s]] # "absent"
      BY <1>15, <2>2, OthersSettled DEF Chown
    <2>. QED
      BY <2>1, <2>2
  <1>16. ASSUME NEW s \in Session, DropPrivileges(s),
               NEW t \in Session
        PROVE  Own(t)'
    BY <1>16, OthersSettled DEF DropPrivileges
  <1>17. ASSUME NEW s \in Session, EnterDir(s),
               NEW t \in Session
        PROVE  Own(t)'
    <2>1. CASE dir[uid[s]] # "user"
      BY <1>17, <2>1, LeaveKeeps DEF EnterDir, Fail
    <2>2. CASE dir[uid[s]] = "user"
      BY <1>17, <2>2, OthersSettled DEF EnterDir
    <2>. QED
      BY <2>1, <2>2
  <1>18. ASSUME NEW s \in Session, Exit(s),
               NEW t \in Session
        PROVE  Own(t)'
    BY <1>18, LeaveKeeps DEF Exit
  <1>19. ASSUME NEW s \in Session, Kill(s),
               NEW t \in Session
        PROVE  Own(t)'
    BY <1>19, LeaveKeeps DEF Kill
  <1>20. CASE UNCHANGED vars
    BY <1>20 DEF vars
  <1>. QED
    BY <1>1, <1>2, <1>3, <1>4, <1>5, <1>6, <1>7, <1>8, <1>9, <1>10, <1>11,
       <1>12, <1>13, <1>14, <1>15, <1>16, <1>17, <1>18, <1>19, <1>20 DEF Next, Step

(* What a set-up knows of the running sessions stays true.                 *)
LEMMA NextKnows ==
  ASSUME IInv, [Next]_vars
  PROVE  \A t, x \in Session : (pc[x] = "shell" => Knows(t, x))'
  <1>. USE NoneAssumption
       DEF IInv, TypeOK, Own, Knows, Goto, SettingUp, Named, Rooted, Dropped, Taken,
           files, locals
  <1>1. ASSUME NEW s \in Session, NEW c \in Connection, Start(s, c),
               NEW t \in Session, NEW x \in Session, pc'[x] = "shell"
        PROVE  Knows(t, x)'
    BY <1>1 DEF Start
  <1>2. ASSUME NEW s \in Session, Begin(s),
               NEW t \in Session, NEW x \in Session, pc'[x] = "shell"
        PROVE  Knows(t, x)'
    BY <1>2, OthersSettled DEF Begin
  <1>3. ASSUME NEW s \in Session, Mkdir(s),
               NEW t \in Session, NEW x \in Session, pc'[x] = "shell"
        PROVE  Knows(t, x)'
    <2>1. CASE workdir
      BY <1>3, <2>1, LeaveKeeps DEF Mkdir, Fail
    <2>2. CASE ~workdir
      BY <1>3, <2>2, OthersSettled DEF Mkdir
    <2>. QED
      BY <2>1, <2>2
  <1>4. ASSUME NEW s \in Session, ListProc(s),
               NEW t \in Session, NEW x \in Session, pc'[x] = "shell"
        PROVE  Knows(t, x)'
    BY <1>4, OthersSettled DEF ListProc
  <1>5. ASSUME NEW s \in Session, Stat(s),
               NEW t \in Session, NEW x \in Session, pc'[x] = "shell"
        PROVE  Knows(t, x)'
    <2>. pc[x] = "shell" /\ x # s
      BY <1>5 DEF Stat
    <2>1. CASE t = s
      <3>1. ASSUME NEW y \in pids[s], Visible(y)
            PROVE  pc[y] = "shell"
        BY <1>5, <3>1, OthersSettled DEF Stat, Visible
      <3>2. ASSUME NEW y \in Session, pc[y] = "shell", user[uid[y]].text = conn[x]
            PROVE  uid[x] = uid[y]
        BY <3>2
      <3>3. CASE pids[s] = {}
        BY <1>5, <2>1, <3>3 DEF Stat
      <3>4. ASSUME NEW y \in pids[s],
                   pids' = [pids EXCEPT ![s] = @ \ {y}],
                   connected' = [connected EXCEPT ![s] =
                     IF Visible(y) THEN @ \cup {uid[y]} ELSE @],
                   UNCHANGED pc
            PROVE  Knows(t, x)'
        <4>1. CASE Visible(y)
          BY <1>5, <2>1, <3>1, <3>2, <3>4, <4>1 DEF Stat
        <4>2. CASE ~Visible(y)
          BY <1>5, <2>1, <3>4, <4>2 DEF Stat, Visible
        <4>. QED
          BY <4>1, <4>2
      <3>. QED
        BY <1>5, <3>3, <3>4 DEF Stat
    <2>2. CASE t # s
      BY <1>5, <2>2, OthersSettled DEF Stat
    <2>. QED
      BY <2>1, <2>2
  <1>6. ASSUME NEW s \in Session, ListDir(s),
               NEW t \in Session, NEW x \in Session, pc'[x] = "shell"
        PROVE  Knows(t, x)'
    BY <1>6, OthersSettled DEF ListDir, Exists, NoFile
  <1>7. ASSUME NEW s \in Session, NEW u \in Uid, RemoveTree(s, u),
               NEW t \in Session, NEW x \in Session, pc'[x] = "shell"
        PROVE  Knows(t, x)'
    <2>1. CASE dir[u] = "absent"
      BY <1>7, <2>1, LeaveKeeps DEF RemoveTree, Fail
    <2>2. CASE dir[u] # "absent"
      BY <1>7, <2>2, OthersSettled DEF RemoveTree
    <2>. QED
      BY <2>1, <2>2
  <1>8. ASSUME NEW s \in Session, RemoveFile(s),
               NEW t \in Session, NEW x \in Session, pc'[x] = "shell"
        PROVE  Knows(t, x)'
    <2>. pc[x] = "shell" /\ x # s
      BY <1>8 DEF RemoveFile, Fail, Leave
    <2>1. CASE t = s /\ ~Exists(uid[s])
      BY <1>8, <2>1 DEF RemoveFile, Fail, Leave
    <2>2. CASE t = s /\ Exists(uid[s])
      <3>1. uid[s] \notin connected[s] /\ uid[x] # uid[s]
        BY <1>8 DEF RemoveFile
      <3>2. pc'[s] = "reuse" /\ names'[s] = names[s] \ {uid[s]}
            /\ UNCHANGED <<conn, connected>> /\ uid'[x] = uid[x]
            /\ \A u \in connected[s] : user'[u] = user[u]
        BY <1>8, <2>2, <3>1 DEF RemoveFile
      <3>. QED
        BY <1>8, <2>2, <3>1, <3>2 DEF RemoveFile
    <2>3. CASE t # s
      <3>1. pc[t] \in {"none", "failed", "refused", "shell"}
        BY <1>8, <2>3, OthersSettled DEF RemoveFile
      <3>. QED
        BY <1>8, <2>3, <3>1 DEF RemoveFile, Fail, Leave
    <2>. QED
      BY <2>1, <2>2, <2>3
  <1>9. ASSUME NEW s \in Session, NEW u \in Uid, ReadUser(s, u),
               NEW t \in Session, NEW x \in Session, pc'[x] = "shell"
        PROVE  Knows(t, x)'
    <2>1. CASE ~Exists(u)
      BY <1>9, <2>1, LeaveKeeps DEF ReadUser, Fail
    <2>2. CASE Exists(u)
      BY <1>9, <2>2, OthersSettled DEF ReadUser
    <2>. QED
      BY <2>1, <2>2
  <1>10. ASSUME NEW s \in Session, NoReuse(s),
               NEW t \in Session, NEW x \in Session, pc'[x] = "shell"
        PROVE  Knows(t, x)'
    BY <1>10, OthersSettled DEF NoReuse
  <1>11. ASSUME NEW s \in Session, NEW u \in Uid, Pick(s, u),
               NEW t \in Session, NEW x \in Session, pc'[x] = "shell"
        PROVE  Knows(t, x)'
    <2>. pc[x] = "shell" /\ x # s
      BY <1>11 DEF Pick
    <2>1. CASE t = s
      <3>1. uid[x] # u
        BY <1>11 DEF Pick, Least, Free
      <3>. QED
        BY <1>11, <2>1, <3>1 DEF Pick
    <2>2. CASE t # s
      <3>1. pc[t] \in {"none", "failed", "refused", "shell"}
        BY <1>11, <2>2, OthersSettled DEF Pick
      <3>. QED
        BY <1>11, <2>2, <3>1 DEF Pick
    <2>. QED
      BY <2>1, <2>2
  <1>12. ASSUME NEW s \in Session, PickNone(s),
               NEW t \in Session, NEW x \in Session, pc'[x] = "shell"
        PROVE  Knows(t, x)'
    BY <1>12, LeaveKeeps DEF PickNone
  <1>13. ASSUME NEW s \in Session, Write(s),
               NEW t \in Session, NEW x \in Session, pc'[x] = "shell"
        PROVE  Knows(t, x)'
    BY <1>13, OthersSettled DEF Write
  <1>14. ASSUME NEW s \in Session, Makedirs(s),
               NEW t \in Session, NEW x \in Session, pc'[x] = "shell"
        PROVE  Knows(t, x)'
    BY <1>14, OthersSettled DEF Makedirs
  <1>15. ASSUME NEW s \in Session, Chown(s),
               NEW t \in Session, NEW x \in Session, pc'[x] = "shell"
        PROVE  Knows(t, x)'
    <2>1. CASE dir[uid[s]] = "absent"
      BY <1>15, <2>1, LeaveKeeps DEF Chown, Fail
    <2>2. CASE dir[uid[s]] # "absent"
      BY <1>15, <2>2, OthersSettled DEF Chown
    <2>. QED
      BY <2>1, <2>2
  <1>16. ASSUME NEW s \in Session, DropPrivileges(s),
               NEW t \in Session, NEW x \in Session, pc'[x] = "shell"
        PROVE  Knows(t, x)'
    BY <1>16, OthersSettled DEF DropPrivileges
  <1>17. ASSUME NEW s \in Session, EnterDir(s),
               NEW t \in Session, NEW x \in Session, pc'[x] = "shell"
        PROVE  Knows(t, x)'
    <2>1. CASE dir[uid[s]] # "user"
      BY <1>17, <2>1, LeaveKeeps DEF EnterDir, Fail
    <2>2. CASE dir[uid[s]] = "user"
      BY <1>17, <2>2, OthersSettled DEF EnterDir
    <2>. QED
      BY <2>1, <2>2
  <1>18. ASSUME NEW s \in Session, Exit(s),
               NEW t \in Session, NEW x \in Session, pc'[x] = "shell"
        PROVE  Knows(t, x)'
    BY <1>18, LeaveKeeps DEF Exit
  <1>19. ASSUME NEW s \in Session, Kill(s),
               NEW t \in Session, NEW x \in Session, pc'[x] = "shell"
        PROVE  Knows(t, x)'
    BY <1>19, LeaveKeeps DEF Kill
  <1>20. CASE UNCHANGED vars
    BY <1>20 DEF vars
  <1>21. ASSUME NEW s \in Session, Step(s),
                NEW t \in Session, NEW x \in Session, pc'[x] = "shell"
         PROVE  Knows(t, x)'
    BY ONLY <1>2, <1>3, <1>4, <1>5, <1>6, <1>7, <1>8, <1>9, <1>10, <1>11, <1>12,
       <1>13, <1>14, <1>15, <1>16, <1>17, <1>21 DEF Step
  <1>. QED
    BY ONLY [Next]_vars, <1>1, <1>18, <1>19, <1>20, <1>21 DEF Next

LEMMA NextIInv ==
  ASSUME ~Overlap, IInv, [Next]_vars
  PROVE  IInv'
  <1>1. TypeOK'
    BY NextTypeOK DEF IInv
  <1>. QED
    BY <1>1, NextSerial, NextOwn, NextKnows DEF IInv

-----------------------------------------------------------------------------

(* The variables keep their types, with set-ups that overlap or not.       *)
THEOREM TypeCorrect == Spec => []TypeOK
  <1>1. Init => TypeOK
    BY InitIInv DEF IInv
  <1>. QED
    BY <1>1, NextTypeOK, PTL DEF Spec

THEOREM Invariance == ASSUME ~Overlap PROVE Spec => []IInv
  <1>1. IInv /\ [Next]_vars => IInv'
    BY NextIInv
  <1>. QED
    BY <1>1, InitIInv, PTL DEF Spec

(* The directory of a running session is its own and its file names its    *)
(* connection: no set-up of another session (reuse_connection,             *)
(* remove_user) takes them away.                                           *)
THEOREM DirectoryKept == ASSUME ~Overlap PROVE Spec => []OwnDirectory
  <1>1. IInv => OwnDirectory
    BY DEF IInv, Own, OwnDirectory, Visible, Taken
  <1>. QED
    BY <1>1, Invariance, PTL

(* "Give a different UID to each SSH connection" (ssh-isolation.py:4).     *)
THEOREM UidsDiffer == ASSUME ~Overlap PROVE Spec => []DifferentUid
  <1>1. IInv => DifferentUid
    BY DEF IInv, Own, DifferentUid, Visible, Taken
  <1>. QED
    BY <1>1, Invariance, PTL

(* Of two sessions that have their user id, one is running.                *)
LEMMA PairKnown ==
  ASSUME IInv, NEW s \in Session, NEW t \in Session, s # t,
         pc[s] \in Taken, pc[t] \in Taken
  PROVE  conn[s] = conn[t] <=> uid[s] = uid[t]
  <1>1. pc[s] = "shell" \/ pc[t] = "shell"
    BY DEF IInv, Serial, SettingUp, Rooted, Taken, Dropped
  <1>. QED
    BY <1>1 DEF IInv, Knows

(* The sessions of a connection share their user (reuse_connection).       *)
THEOREM UidsShared == ASSUME ~Overlap PROVE Spec => []SameUid
  <1>1. IInv => SameUid
    BY PairKnown DEF SameUid, Visible, Taken
  <1>. QED
    BY <1>1, Invariance, PTL

-----------------------------------------------------------------------------
(* The refinement.                                                         *)

(* A step that changes no session's visibility, and no visible session's   *)
(* user, is a stutter.                                                     *)
LEMMA SameRuns ==
  ASSUME \A s \in Session :
           /\ Visible(s)' <=> Visible(s)
           /\ Visible(s) => conn'[s] = conn[s] /\ uid'[s] = uid[s]
  PROVE  Runs' = Runs
  BY DEF Runs

LEMMA RunningVisible ==
  ASSUME IInv, NEW s \in Session
  PROVE  Pool!Running(s) <=> Visible(s)
  <1>1. Visible(s) => conn[s] # None
    BY NoneAssumption DEF IInv, Own, Visible
  <1>. QED
    BY <1>1 DEF Runs, Visible, Pool!Running, Pool!Idle

(* DropPrivileges is where the pool sees a session enter.                  *)
LEMMA DropEnters ==
  ASSUME IInv, NEW s \in Session, DropPrivileges(s)
  PROVE  Pool!Enter(s, conn[s], uid[s])
  <1>1. ~Visible(s)
    BY DEF DropPrivileges, Visible, Dropped
  <1>2. Pool!MayUse(s, conn[s], uid[s])
    <2>. SUFFICES ASSUME NEW t \in Session \ {s}, Visible(t)
                  PROVE  Runs[t].conn = conn[s] <=> Runs[t].uid = uid[s]
      BY RunningVisible DEF Pool!MayUse
    <2>1. conn[t] = conn[s] <=> uid[t] = uid[s]
      BY PairKnown DEF DropPrivileges, Visible, Taken
    <2>. QED
      BY <2>1 DEF Runs
  <1>3. Runs' = [Runs EXCEPT ![s] = [conn |-> conn[s], uid |-> uid[s]]]
    <2>1. pc' = [pc EXCEPT ![s] = "chdir"] /\ UNCHANGED <<conn, uid>>
      BY DEF DropPrivileges, Goto, locals
    <2>2. \A t \in Session : Visible(t)' <=> Visible(t) \/ t = s
      BY <2>1 DEF Visible, Dropped, IInv, TypeOK
    <2>. QED
      BY <2>1, <2>2 DEF Runs
  <1>. QED
    BY <1>1, <1>2, <1>3, RunningVisible DEF Pool!Enter

(* The end of a visible process is where the pool sees a session leave.    *)
LEMMA LeaveLeaves ==
  ASSUME IInv, NEW s \in Session, Visible(s),
         NEW label \in {"none", "failed", "refused"}, Leave(s, label)
  PROVE  Pool!Leave(s)
  <1>1. \A t \in Session : Visible(t)' <=> Visible(t) /\ t # s
    BY DEF Leave, Goto, Visible, Dropped, IInv, TypeOK
  <1>2. \A t \in Session \ {s} : conn'[t] = conn[t] /\ uid'[t] = uid[t]
    BY DEF Leave, IInv, TypeOK
  <1>3. Runs' = [Runs EXCEPT ![s] = Pool!Idle]
    BY <1>1, <1>2 DEF Runs, Pool!Idle
  <1>. QED
    BY <1>3, RunningVisible DEF Pool!Leave

LEMMA PoolStep ==
  ASSUME IInv, [Next]_vars
  PROVE  [Pool!Next]_Runs
  <1>. USE DEF IInv, TypeOK, Goto, Visible, Dropped, files, locals
  <1>1. ASSUME NEW s \in Session, NEW c \in Connection, Start(s, c)
        PROVE  Runs' = Runs
    BY <1>1, SameRuns DEF Start
  <1>2. ASSUME NEW s \in Session, Begin(s)
        PROVE  Runs' = Runs
    BY <1>2, SameRuns DEF Begin
  <1>3. ASSUME NEW s \in Session, Mkdir(s)
        PROVE  Runs' = Runs
    BY <1>3, SameRuns DEF Mkdir, Fail, Leave
  <1>4. ASSUME NEW s \in Session, ListProc(s)
        PROVE  Runs' = Runs
    BY <1>4, SameRuns DEF ListProc
  <1>5. ASSUME NEW s \in Session, Stat(s)
        PROVE  Runs' = Runs
    BY <1>5, SameRuns DEF Stat
  <1>6. ASSUME NEW s \in Session, ListDir(s)
        PROVE  Runs' = Runs
    BY <1>6, SameRuns DEF ListDir
  <1>7. ASSUME NEW s \in Session, NEW u \in Uid, RemoveTree(s, u)
        PROVE  Runs' = Runs
    BY <1>7, SameRuns DEF RemoveTree, Fail, Leave
  <1>8. ASSUME NEW s \in Session, RemoveFile(s)
        PROVE  Runs' = Runs
    BY <1>8, SameRuns DEF RemoveFile, Fail, Leave
  <1>9. ASSUME NEW s \in Session, NEW u \in Uid, ReadUser(s, u)
        PROVE  Runs' = Runs
    BY <1>9, SameRuns DEF ReadUser, Fail, Leave
  <1>10. ASSUME NEW s \in Session, NoReuse(s)
        PROVE  Runs' = Runs
    BY <1>10, SameRuns DEF NoReuse
  <1>11. ASSUME NEW s \in Session, NEW u \in Uid, Pick(s, u)
        PROVE  Runs' = Runs
    BY <1>11, SameRuns DEF Pick
  <1>12. ASSUME NEW s \in Session, PickNone(s)
        PROVE  Runs' = Runs
    BY <1>12, SameRuns DEF PickNone, Leave
  <1>13. ASSUME NEW s \in Session, Write(s)
        PROVE  Runs' = Runs
    BY <1>13, SameRuns DEF Write
  <1>14. ASSUME NEW s \in Session, Makedirs(s)
        PROVE  Runs' = Runs
    BY <1>14, SameRuns DEF Makedirs
  <1>15. ASSUME NEW s \in Session, Chown(s)
        PROVE  Runs' = Runs
    BY <1>15, SameRuns DEF Chown, Fail, Leave
  <1>16. ASSUME NEW s \in Session, DropPrivileges(s)
         PROVE  Pool!Next
    <2>1. conn[s] \in Connection /\ uid[s] \in Uid
      BY <1>16 DEF DropPrivileges, Own, Rooted, Named
    <2>. QED
      BY <1>16, <2>1, DropEnters DEF Pool!Next
  <1>17. ASSUME NEW s \in Session, EnterDir(s)
         PROVE  Pool!Next \/ Runs' = Runs
    <2>1. CASE dir[uid[s]] # "user"
      BY <1>17, <2>1, LeaveLeaves DEF EnterDir, Fail, Pool!Next
    <2>2. CASE dir[uid[s]] = "user"
      BY <1>17, <2>2, SameRuns DEF EnterDir
    <2>. QED
      BY <2>1, <2>2
  <1>18. ASSUME NEW s \in Session, Exit(s)
         PROVE  Pool!Next
    BY <1>18, LeaveLeaves DEF Exit, Pool!Next
  <1>19. ASSUME NEW s \in Session, Kill(s)
         PROVE  Pool!Next \/ Runs' = Runs
    <2>1. CASE Visible(s)
      BY <1>19, <2>1, LeaveLeaves DEF Kill, Pool!Next
    <2>2. CASE ~Visible(s)
      BY <1>19, <2>2, SameRuns DEF Kill, Leave
    <2>. QED
      BY <2>1, <2>2
  <1>20. CASE UNCHANGED vars
    BY <1>20, SameRuns DEF vars
  <1>. QED
    BY <1>1, <1>2, <1>3, <1>4, <1>5, <1>6, <1>7, <1>8, <1>9, <1>10, <1>11,
       <1>12, <1>13, <1>14, <1>15, <1>16, <1>17, <1>18, <1>19, <1>20 DEF Next, Step

(* ssh-isolation.py implements UidPool: one user per connection, one       *)
(* connection per user, and no session changes its user while it runs.     *)
THEOREM UidsPooled == ASSUME ~Overlap PROVE Spec => PoolSpec
  <1>1. Init => Pool!Init
    BY DEF Init, Pool!Init, Pool!Idle, Runs, Visible, Dropped
  <1>2. IInv /\ [Next]_vars => [Pool!Next]_Runs
    BY PoolStep
  <1>. QED
    BY <1>1, <1>2, Invariance, PTL DEF Spec, PoolSpec, Pool!Spec
-----------------------------------------------------------------------------

(* What keeps the set-up of t from an exception.                           *)
Safe(t) ==
  /\ pc[t] # "failed"
  /\ pc[t] = "mkdir" => ~workdir
  /\ pc[t] \in {"reuse", "remove"} =>
       \A u \in names[t] :
         Exists(u) /\ (dir[u] # "absent" \/ (pc[t] = "remove" /\ u = uid[t]))
  /\ pc[t] = "remove" => Exists(uid[t])
  /\ pc[t] = "chown" => dir[uid[t]] # "absent"

(* A file has its directory, or the set-up under way deals with it.        *)
Kept(u) ==
  Exists(u) =>
    \/ dir[u] # "absent"
    \/ \E t \in Session : pc[t] \in {"remove", "write", "makedirs"} /\ uid[t] = u

Clean == kills = 0 => /\ \A t \in Session : Safe(t)
                      /\ \A u \in Uid : Kept(u)

(* A step that leaves every set-up safe and every file kept.               *)
LEMMA NextClean ==
  ASSUME ~Overlap, IInv, Clean, [Next]_vars
  PROVE  Clean'
  <1>. USE DEF files, locals, Goto, Exists
  <1>t. TypeOK /\ IInv'
    BY NextIInv DEF IInv
  <1>k. kills' = 0 => kills = 0
    <2>1. kills \in Nat
      BY KillsAssumption, <1>t DEF TypeOK
    <2>2. ASSUME NEW s \in Session, Step(s) PROVE kills' = kills
      <3>1. CASE Begin(s) \/ Mkdir(s) \/ ListProc(s) \/ Stat(s) \/ ListDir(s)
        BY <3>1 DEF Begin, Mkdir, ListProc, Stat, ListDir
      <3>2. CASE NoReuse(s) \/ RemoveFile(s) \/ PickNone(s) \/ Write(s)
        BY <3>2 DEF NoReuse, RemoveFile, PickNone, Write
      <3>3. CASE Makedirs(s) \/ Chown(s) \/ DropPrivileges(s) \/ EnterDir(s)
        BY <3>3 DEF Makedirs, Chown, DropPrivileges, EnterDir
      <3>4. ASSUME NEW u \in Uid, RemoveTree(s, u) \/ ReadUser(s, u) \/ Pick(s, u)
            PROVE  kills' = kills
        BY <3>4 DEF RemoveTree, ReadUser, Pick
      <3>. QED
        BY <2>2, <3>1, <3>2, <3>3, <3>4 DEF Step
    <2>3. ASSUME NEW s \in Session, NEW c \in Connection, Start(s, c)
          PROVE  kills' = kills
      BY <2>3 DEF Start
    <2>4. ASSUME NEW s \in Session, Exit(s) PROVE kills' = kills
      BY <2>4 DEF Exit
    <2>5. ASSUME NEW s \in Session, Kill(s) PROVE kills' = kills + 1
      BY <2>5 DEF Kill
    <2>6. UNCHANGED vars => kills' = kills
      BY DEF vars
    <2>7. kills' = kills \/ kills' = kills + 1
      BY <2>2, <2>3, <2>4, <2>5, <2>6 DEF Next
    <2>. QED
      BY <2>1, <2>7
  <1>. SUFFICES ASSUME kills = 0, kills' = 0
                PROVE  (\A t \in Session : Safe(t)') /\ \A u \in Uid : Kept(u)'
    BY <1>k DEF Clean
  <1>c. (\A t \in Session : Safe(t)) /\ \A u \in Uid : Kept(u)
    BY DEF Clean
  <1>1. ASSUME NEW s \in Session,
               pc'[s] # "failed",
               pc'[s] \notin {"mkdir", "reuse", "remove", "chown"},
               pc[s] \notin {"remove", "write", "makedirs"},
               \A t \in Session \ {s} : UNCHANGED <<pc[t], uid[t], names[t]>>,
               UNCHANGED files
        PROVE  (\A t \in Session : Safe(t)') /\ \A u \in Uid : Kept(u)'
    <2>1. ASSUME NEW t \in Session PROVE Safe(t)'
      BY <1>1, <1>c DEF Safe
    <2>2. ASSUME NEW u \in Uid PROVE Kept(u)'
      BY <1>1, <1>c DEF Kept
    <2>. QED
      BY <2>1, <2>2
  <1>2. ASSUME NEW s \in Session, SettingUp(s), Safe(s)', \A u \in Uid : Kept(u)',
               \A t \in Session \ {s} : UNCHANGED <<pc[t], uid[t], names[t]>>
        PROVE  (\A t \in Session : Safe(t)') /\ \A u \in Uid : Kept(u)'
    <2>1. ASSUME NEW t \in Session, t # s PROVE Safe(t)'
      <3>1. pc[t] \in {"none", "failed", "refused", "shell"} /\ pc'[t] = pc[t]
        BY <1>2, <2>1, OthersSettled
      <3>. QED
        BY <2>1, <3>1, <1>c DEF Safe
    <2>. QED
      BY <1>2, <2>1
  <1>3. ASSUME NEW s \in Session, NEW c \in Connection, Start(s, c)
        PROVE  (\A t \in Session : Safe(t)') /\ \A u \in Uid : Kept(u)'
    BY <1>1, <1>3, <1>t DEF Start, TypeOK
  <1>4. ASSUME NEW s \in Session, Begin(s)
        PROVE  (\A t \in Session : Safe(t)') /\ \A u \in Uid : Kept(u)'
    <2>1. SettingUp(s)
      BY <1>4 DEF Begin, SettingUp, Rooted
    <2>2. Safe(s)'
      BY <1>4, <1>t DEF Begin, Safe, TypeOK
    <2>3. \A u \in Uid : Kept(u)'
      BY <1>4, <1>c, <1>t DEF Begin, Kept, TypeOK
    <2>. QED
      BY <1>2, <1>4, <1>t, <2>1, <2>2, <2>3 DEF Begin, TypeOK
  <1>5. ASSUME NEW s \in Session, Mkdir(s)
        PROVE  (\A t \in Session : Safe(t)') /\ \A u \in Uid : Kept(u)'
    <2>0. ~workdir
      BY <1>5, <1>c DEF Mkdir, Safe
    <2>1. SettingUp(s)
      BY <1>5 DEF Mkdir, SettingUp, Rooted
    <2>2. Safe(s)'
      BY <1>5, <2>0, <1>t DEF Mkdir, Safe, TypeOK
    <2>3. \A u \in Uid : Kept(u)'
      BY <1>5, <2>0, <1>c, <1>t DEF Mkdir, Kept, TypeOK
    <2>. QED
      BY <1>2, <1>5, <1>t, <2>0, <2>1, <2>2, <2>3 DEF Mkdir, TypeOK
  <1>6. ASSUME NEW s \in Session, ListProc(s) \/ Stat(s) \/ DropPrivileges(s)
        PROVE  (\A t \in Session : Safe(t)') /\ \A u \in Uid : Kept(u)'
    BY <1>1, <1>6, <1>t DEF ListProc, Stat, DropPrivileges, TypeOK
  <1>7. ASSUME NEW s \in Session, ListDir(s)
        PROVE  (\A t \in Session : Safe(t)') /\ \A u \in Uid : Kept(u)'
    <2>1. SettingUp(s)
      BY <1>7 DEF ListDir, SettingUp, Rooted
    <2>2. \A t \in Session : pc[t] \notin {"remove", "write", "makedirs"}
      BY <1>7, <2>1, OthersSettled DEF ListDir
    <2>3. Safe(s)'
      BY <1>7, <1>c, <1>t, <2>2 DEF ListDir, Safe, Kept, TypeOK
    <2>4. \A u \in Uid : Kept(u)'
      BY <1>7, <1>c, <1>t DEF ListDir, Kept, TypeOK
    <2>. QED
      BY <1>2, <1>7, <1>t, <2>1, <2>3, <2>4 DEF ListDir, TypeOK
  <1>8. ASSUME NEW s \in Session, NEW u \in Uid, RemoveTree(s, u)
        PROVE  (\A t \in Session : Safe(t)') /\ \A v \in Uid : Kept(v)'
    <2>1. SettingUp(s)
      BY <1>8 DEF RemoveTree, SettingUp, Rooted
    <2>2. Exists(u) /\ dir[u] # "absent"
      BY <1>8, <1>c DEF RemoveTree, Safe
    <2>3. /\ pc' = [pc EXCEPT ![s] = "remove"] /\ uid' = [uid EXCEPT ![s] = u]
          /\ dir' = [dir EXCEPT ![u] = "absent"] /\ UNCHANGED <<names, user, workdir>>
          /\ pc[s] = "reuse"
      BY <1>8, <2>2 DEF RemoveTree
    <2>4. Safe(s)'
      BY <2>2, <2>3, <1>c, <1>t DEF Safe, TypeOK
    <2>5. \A v \in Uid : Kept(v)'
      BY <2>3, <1>c, <1>t DEF Kept, TypeOK
    <2>. QED
      BY <1>2, <1>t, <2>1, <2>3, <2>4, <2>5 DEF TypeOK
  <1>9. ASSUME NEW s \in Session, RemoveFile(s)
        PROVE  (\A t \in Session : Safe(t)') /\ \A v \in Uid : Kept(v)'
    <2>1. SettingUp(s) /\ uid[s] \in Uid
      BY <1>9, <1>t DEF RemoveFile, SettingUp, Rooted, TypeOK, Named
    <2>2. Exists(uid[s])
      BY <1>9, <1>c DEF RemoveFile, Safe
    <2>3. /\ pc' = [pc EXCEPT ![s] = "reuse"] /\ uid' = [uid EXCEPT ![s] = None]
          /\ names' = [names EXCEPT ![s] = @ \ {uid[s]}]
          /\ user' = [user EXCEPT ![uid[s]] = NoFile] /\ UNCHANGED <<dir, workdir>>
          /\ pc[s] = "remove"
      BY <1>9, <2>2 DEF RemoveFile
    <2>4. Safe(s)'
      BY <2>1, <2>3, <1>c, <1>t DEF Safe, TypeOK
    <2>5. \A v \in Uid : Kept(v)'
      BY <2>1, <2>3, <1>c, <1>t DEF Kept, TypeOK
    <2>. QED
      BY <1>2, <1>t, <2>1, <2>3, <2>4, <2>5 DEF TypeOK
  <1>10. ASSUME NEW s \in Session, NEW u \in Uid, ReadUser(s, u)
        PROVE  (\A t \in Session : Safe(t)') /\ \A v \in Uid : Kept(v)'
    <2>1. SettingUp(s) /\ pc[s] = "reuse" /\ u \in names[s] /\ UNCHANGED files
      BY <1>10 DEF ReadUser, SettingUp, Rooted
    <2>2. Exists(u)
      BY <2>1, <1>c DEF Safe
    <2>3. Safe(s)'
      BY <1>10, <2>1, <2>2, <1>c, <1>t DEF ReadUser, Safe, TypeOK
    <2>4. \A v \in Uid : Kept(v)'
      BY <1>10, <2>1, <2>2, <1>c, <1>t DEF ReadUser, Kept, TypeOK
    <2>5. \A t \in Session \ {s} : UNCHANGED <<pc[t], uid[t], names[t]>>
      BY <1>10, <2>2, <1>t DEF ReadUser, TypeOK
    <2>. QED
      BY <1>2, <2>1, <2>3, <2>4, <2>5
  <1>11. ASSUME NEW s \in Session, NoReuse(s)
        PROVE  (\A t \in Session : Safe(t)') /\ \A u \in Uid : Kept(u)'
    BY <1>1, <1>11, <1>t DEF NoReuse, TypeOK
  <1>12. ASSUME NEW s \in Session, NEW u \in Uid, Pick(s, u)
        PROVE  (\A t \in Session : Safe(t)') /\ \A v \in Uid : Kept(v)'
    <2>1. SettingUp(s) /\ pc[s] = "pick" /\ UNCHANGED <<dir, workdir, names>>
      BY <1>12 DEF Pick, SettingUp, Rooted
    <2>2. CASE Exists(u)
      BY <1>1, <1>12, <2>2, <1>t DEF Pick, TypeOK
    <2>3. CASE ~Exists(u)
      <3>1. /\ pc' = [pc EXCEPT ![s] = "write"] /\ uid' = [uid EXCEPT ![s] = u]
            /\ user' = [user EXCEPT ![u] = [by |-> s, text |-> None]]
        BY <1>12, <2>3 DEF Pick
      <3>2. Safe(s)'
        BY <2>1, <3>1, <1>t DEF Safe, TypeOK
      <3>3. \A v \in Uid : Kept(v)'
        BY <2>1, <3>1, <1>c, <1>t DEF Kept, TypeOK
      <3>. QED
        BY <1>2, <1>t, <2>1, <3>1, <3>2, <3>3 DEF TypeOK
    <2>. QED
      BY <2>2, <2>3
  <1>13. ASSUME NEW s \in Session, PickNone(s) \/ Exit(s)
        PROVE  (\A t \in Session : Safe(t)') /\ \A u \in Uid : Kept(u)'
    <2>1. PICK label \in {"none", "refused"} : Leave(s, label)
      BY <1>13 DEF PickNone, Exit
    <2>. QED
      BY <1>1, <1>13, <2>1, <1>t DEF PickNone, Exit, Leave, TypeOK
  <1>14. ASSUME NEW s \in Session, Write(s)
        PROVE  (\A t \in Session : Safe(t)') /\ \A v \in Uid : Kept(v)'
    <2>1. SettingUp(s) /\ uid[s] \in Uid /\ pc[s] = "write" /\ user[uid[s]].by = s
      BY <1>14, <1>t DEF Write, SettingUp, Rooted, TypeOK, Named, IInv, Own
    <2>2. /\ pc' = [pc EXCEPT ![s] = "makedirs"]
          /\ user' = [user EXCEPT ![uid[s]] = [by |-> s, text |-> conn[s]]]
          /\ UNCHANGED <<dir, workdir, uid, names>>
      BY <1>14, <2>1 DEF Write
    <2>3. Safe(s)'
      BY <2>2, <1>t DEF Safe, TypeOK
    <2>4. \A v \in Uid : Kept(v)'
      BY <2>1, <2>2, <1>c, <1>t DEF Kept, TypeOK
    <2>. QED
      BY <1>2, <1>t, <2>1, <2>2, <2>3, <2>4 DEF TypeOK
  <1>15. ASSUME NEW s \in Session, Makedirs(s)
        PROVE  (\A t \in Session : Safe(t)') /\ \A v \in Uid : Kept(v)'
    <2>1. SettingUp(s) /\ uid[s] \in Uid /\ pc[s] = "makedirs"
      BY <1>15, <1>t DEF Makedirs, SettingUp, Rooted, TypeOK, Named
    <2>2. /\ pc' = [pc EXCEPT ![s] = "chown"]
          /\ dir' = [dir EXCEPT ![uid[s]] = IF @ = "absent" THEN "root" ELSE @]
          /\ UNCHANGED <<user, workdir, uid, names>>
      BY <1>15 DEF Makedirs
    <2>3. Safe(s)'
      BY <2>1, <2>2, <1>t DEF Safe, TypeOK
    <2>4. \A v \in Uid : Kept(v)'
      BY <2>1, <2>2, <1>c, <1>t DEF Kept, TypeOK
    <2>. QED
      BY <1>2, <1>t, <2>1, <2>2, <2>3, <2>4 DEF TypeOK
  <1>16. ASSUME NEW s \in Session, Chown(s)
        PROVE  (\A t \in Session : Safe(t)') /\ \A v \in Uid : Kept(v)'
    <2>1. /\ SettingUp(s) /\ uid[s] \in Uid /\ pc[s] = "chown"
          /\ dir[uid[s]] # "absent"
      BY <1>16, <1>c, <1>t DEF Chown, SettingUp, Rooted, TypeOK, Named, Safe
    <2>2. /\ pc' = [pc EXCEPT ![s] = "drop"]
          /\ dir' = [dir EXCEPT ![uid[s]] = "user"]
          /\ UNCHANGED <<user, workdir, uid, names>>
      BY <1>16, <2>1 DEF Chown
    <2>3. Safe(s)'
      BY <2>2, <1>t DEF Safe, TypeOK
    <2>4. \A v \in Uid : Kept(v)'
      BY <2>1, <2>2, <1>c, <1>t DEF Kept, TypeOK
    <2>. QED
      BY <1>2, <1>t, <2>1, <2>2, <2>3, <2>4 DEF TypeOK
  <1>17. ASSUME NEW s \in Session, EnterDir(s)
        PROVE  (\A t \in Session : Safe(t)') /\ \A u \in Uid : Kept(u)'
    <2>1. dir[uid[s]] = "user"
      BY <1>17 DEF EnterDir, IInv, Own, Taken, Dropped
    <2>. QED
      BY <1>1, <1>17, <2>1, <1>t DEF EnterDir, TypeOK
  <1>18. ASSUME NEW s \in Session, Kill(s)
        PROVE  (\A t \in Session : Safe(t)') /\ \A u \in Uid : Kept(u)'
    BY <1>18 DEF Kill
  <1>19. CASE UNCHANGED vars
    BY <1>19, <1>c DEF vars, Safe, Kept
  <1>. QED
    BY <1>3, <1>4, <1>5, <1>6, <1>7, <1>8, <1>9, <1>10, <1>11, <1>12, <1>13,
       <1>14, <1>15, <1>16, <1>17, <1>18, <1>19 DEF Next, Step

(* As long as no set-up is killed none meets an exception: what remove_user *)
(* deletes is there, and what create_user needs has been created.           *)
THEOREM NoException == ASSUME ~Overlap PROVE Spec => []FailsOnlyAfterKill
  <1>1. Init => IInv /\ Clean
    <2>1. Init => Clean
      BY DEF Init, Clean, Safe, Kept, Exists
    <2>. QED
      BY <2>1, InitIInv
  <1>2. IInv /\ Clean /\ [Next]_vars => IInv' /\ Clean'
    BY NextIInv, NextClean
  <1>3. Clean => FailsOnlyAfterKill
    BY DEF Clean, Safe, FailsOnlyAfterKill, NoFailure
  <1>. QED
    BY <1>1, <1>2, <1>3, PTL DEF Spec
=============================================================================
