---------------------------- MODULE SshIsolation ----------------------------
(***************************************************************************)
(* ssh-isolation.py, the command sshd forces on every session: it looks    *)
(* for the user id of the session's connection, or takes a free one, drops *)
(* its privileges and becomes a shell.                                     *)
(*                                                                         *)
(* The sessions are processes that share a directory and /proc and hold no *)
(* lock.  One step is one system call on what they share, so set-ups may   *)
(* interleave anywhere (Overlap) or may run one after the other.  A set-up *)
(* may be killed between two steps (at most MaxKills times).               *)
(***************************************************************************)
EXTENDS Naturals

CONSTANTS
  Session,      \* processes: every one runs the script once, then a shell
  Connection,   \* values of SSH_CONNECTION
  MIN_UID,      \* 3000
  MAX_UID,      \* 3100, excluded
  Overlap,      \* may a session begin while another is being set up?
  MaxKills,
  None

ASSUME UidAssumption == MIN_UID \in Nat /\ MAX_UID \in Nat
ASSUME OverlapAssumption == Overlap \in BOOLEAN
ASSUME KillsAssumption == MaxKills \in Nat
ASSUME NoneAssumption == None \notin Connection /\ None \notin Session

VARIABLES
  user,       \* the files <uid>.user: who created it, and its text
  dir,        \* the directories <uid>/ and their owner
  workdir,    \* WORKDIR exists
  pc,
  conn,       \* the session's SSH_CONNECTION
  uid,        \* the user id it removes, creates or has taken
  pids,       \* connected_uids(): the processes listed and not yet examined
  connected,
  names,      \* reuse_connection(): the uids listed and not yet examined
  kills

files == <<user, dir, workdir>>
locals == <<conn, uid, pids, connected, names>>
vars == <<files, pc, locals, kills>>

-----------------------------------------------------------------------------

Uid == MIN_UID..(MAX_UID - 1)

(* No file; a file has its creator, and no text until it is closed.        *)
NoFile == [by |-> None, text |-> None]

Exists(u) == user[u] # NoFile

(* Where the script runs as root, and where as its new user.               *)
Rooted == {"begin", "mkdir", "list_proc", "stat", "list_dir", "reuse",
           "remove", "pick", "write", "makedirs", "chown", "drop"}
Dropped == {"chdir", "symlink", "shell"}

(* Where the script has chosen the user id it works on.                    *)
Named == {"remove", "write", "makedirs", "chown", "drop"} \cup Dropped

SettingUp(s) == pc[s] \in Rooted \cup {"chdir", "symlink"}

(* The user id of a process of the range, as a stat of /proc/<pid> has it. *)
Visible(s) == pc[s] \in Dropped

TypeOK ==
  /\ user \in [Uid -> [by: Session \cup {None}, text: Connection \cup {None}]]
  /\ dir \in [Uid -> {"absent", "root", "user"}]
  /\ workdir \in BOOLEAN
  /\ pc \in [Session -> {"none", "failed", "refused"} \cup Rooted \cup Dropped]
  /\ conn \in [Session -> Connection \cup {None}]
  /\ uid \in [Session -> Uid \cup {None}]
  /\ pids \in [Session -> SUBSET Session]
  /\ connected \in [Session -> SUBSET Uid]
  /\ names \in [Session -> SUBSET Uid]
  /\ kills \in 0..MaxKills
  /\ \A s \in Session : pc[s] \in Named => uid[s] \in Uid

Init ==
  /\ user = [u \in Uid |-> NoFile]
  /\ dir = [u \in Uid |-> "absent"]
  /\ workdir = FALSE
  /\ pc = [s \in Session |-> "none"]
  /\ conn = [s \in Session |-> None]
  /\ uid = [s \in Session |-> None]
  /\ pids = [s \in Session |-> {}]
  /\ connected = [s \in Session |-> {}]
  /\ names = [s \in Session |-> {}]
  /\ kills = 0

Goto(s, label) == pc' = [pc EXCEPT ![s] = label]

(* The process of s is gone, from /proc too: a later stat skips it.        *)
Leave(s, label) ==
  /\ Goto(s, label)
  /\ conn' = [conn EXCEPT ![s] = None]
  /\ uid' = [uid EXCEPT ![s] = None]
  /\ pids' = [t \in Session |-> IF t = s THEN {} ELSE pids[t] \ {s}]
  /\ connected' = [connected EXCEPT ![s] = {}]
  /\ names' = [names EXCEPT ![s] = {}]

(* An exception no one catches.                                            *)
Fail(s) == Leave(s, "failed")

-----------------------------------------------------------------------------

Start(s, c) ==
  /\ pc[s] \in {"none", "failed", "refused"}
  /\ Overlap \/ \A t \in Session : ~SettingUp(t)
  /\ Goto(s, "begin")
  /\ conn' = [conn EXCEPT ![s] = c]
  /\ UNCHANGED <<files, uid, pids, connected, names, kills>>

Begin(s) ==
  /\ pc[s] = "begin"
  /\ Goto(s, IF workdir THEN "list_proc" ELSE "mkdir")
  /\ UNCHANGED <<files, locals, kills>>

Mkdir(s) ==
  /\ pc[s] = "mkdir"
  /\ \/ /\ workdir
        /\ Fail(s)
        /\ UNCHANGED workdir
     \/ /\ ~workdir
        /\ workdir' = TRUE
        /\ Goto(s, "list_proc")
        /\ UNCHANGED locals
  /\ UNCHANGED <<user, dir, kills>>

(* connected_uids(): the list of processes, then one stat for each.        *)
ListProc(s) ==
  /\ pc[s] = "list_proc"
  /\ pids' = [pids EXCEPT ![s] = {t \in Session \ {s} :
                                    pc[t] \in Rooted \cup Dropped}]
  /\ connected' = [connected EXCEPT ![s] = {}]
  /\ Goto(s, "stat")
  /\ UNCHANGED <<files, conn, uid, names, kills>>

(* Mutant: the last user id is taken to be outside the range.              *)
StatShort(s) ==
  /\ pc[s] = "stat"
  /\ \/ \E t \in pids[s] :
          /\ pids' = [pids EXCEPT ![s] = @ \ {t}]
          /\ connected' = [connected EXCEPT ![s] =
               IF Visible(t) /\ uid[t] # MAX_UID - 1 THEN @ \cup {uid[t]} ELSE @]
          /\ UNCHANGED pc
     \/ /\ pids[s] = {}
        /\ Goto(s, "list_dir")
        /\ UNCHANGED <<pids, connected>>
  /\ UNCHANGED <<files, conn, uid, names, kills>>

Stat(s) ==
  /\ pc[s] = "stat"
  /\ \/ \E t \in pids[s] :
          /\ pids' = [pids EXCEPT ![s] = @ \ {t}]
          /\ connected' = [connected EXCEPT ![s] =
               IF Visible(t) THEN @ \cup {uid[t]} ELSE @]
          /\ UNCHANGED pc
     \/ /\ pids[s] = {}
        /\ Goto(s, "list_dir")
        /\ UNCHANGED <<pids, connected>>
  /\ UNCHANGED <<files, conn, uid, names, kills>>

(* reuse_connection(): the list of the directory, then one user at a time. *)
ListDir(s) ==
  /\ pc[s] = "list_dir"
  /\ names' = [names EXCEPT ![s] = {u \in Uid : Exists(u)}]
  /\ Goto(s, "reuse")
  /\ UNCHANGED <<files, conn, uid, pids, connected, kills>>

(* remove_user() of a disconnected user: the rmtree.                       *)
RemoveTree(s, u) ==
  /\ pc[s] = "reuse"
  /\ u \in names[s] \ connected[s]
  /\ \/ /\ dir[u] = "absent"
        /\ Fail(s)
        /\ UNCHANGED dir
     \/ /\ dir[u] # "absent"
        /\ dir' = [dir EXCEPT ![u] = "absent"]
        /\ uid' = [uid EXCEPT ![s] = u]
        /\ Goto(s, "remove")
        /\ UNCHANGED <<conn, pids, connected, names>>
  /\ UNCHANGED <<user, workdir, kills>>

(* Mutant: os.remove() is forgotten.                                       *)
RemoveFileKeep(s) ==
  /\ pc[s] = "remove"
  /\ names' = [names EXCEPT ![s] = @ \ {uid[s]}]
  /\ uid' = [uid EXCEPT ![s] = None]
  /\ Goto(s, "reuse")
  /\ UNCHANGED <<conn, pids, connected>>
  /\ UNCHANGED <<user, dir, workdir, kills>>

(* remove_user(): os.remove().                                             *)
RemoveFile(s) ==
  /\ pc[s] = "remove"
  /\ \/ /\ ~Exists(uid[s])
        /\ Fail(s)
        /\ UNCHANGED user
     \/ /\ Exists(uid[s])
        /\ user' = [user EXCEPT ![uid[s]] = NoFile]
        /\ names' = [names EXCEPT ![s] = @ \ {uid[s]}]
        /\ uid' = [uid EXCEPT ![s] = None]
        /\ Goto(s, "reuse")
        /\ UNCHANGED <<conn, pids, connected>>
  /\ UNCHANGED <<dir, workdir, kills>>

(* Mutant: the file's text is not compared.                                *)
ReadUserAny(s, u) ==
  /\ pc[s] = "reuse"
  /\ u \in names[s] \cap connected[s]
  /\ uid' = [uid EXCEPT ![s] = u]
  /\ Goto(s, "drop")
  /\ UNCHANGED <<files, conn, pids, connected, names, kills>>

(* Mutant: the session's connection is never recognised.                   *)
ReadUserNever(s, u) ==
  /\ pc[s] = "reuse"
  /\ u \in names[s] \cap connected[s]
  /\ names' = [names EXCEPT ![s] = @ \ {u}]
  /\ UNCHANGED <<files, pc, conn, uid, pids, connected, kills>>

ReadUser(s, u) ==
  /\ pc[s] = "reuse"
  /\ u \in names[s] \cap connected[s]
  /\ \/ /\ ~Exists(u)
        /\ Fail(s)
     \/ /\ Exists(u) /\ user[u].text = conn[s]
        /\ uid' = [uid EXCEPT ![s] = u]
        /\ Goto(s, "drop")
        /\ UNCHANGED <<conn, pids, connected, names>>
     \/ /\ Exists(u) /\ user[u].text # conn[s]
        /\ names' = [names EXCEPT ![s] = @ \ {u}]
        /\ UNCHANGED <<pc, conn, uid, pids, connected>>
  /\ UNCHANGED <<files, kills>>

(* Mutant: the result -1 of reuse_connection() is not tested.              *)
NoReuseDrop(s) ==
  /\ pc[s] = "reuse"
  /\ names[s] = {}
  /\ Goto(s, "drop")
  /\ UNCHANGED <<files, locals, kills>>

NoReuse(s) ==
  /\ pc[s] = "reuse"
  /\ names[s] = {}
  /\ Goto(s, "pick")
  /\ UNCHANGED <<files, locals, kills>>

Free(s) == Uid \ connected[s]

Least(s, u) == u \in Free(s) /\ \A v \in Free(s) : u <= v

(* Mutant: the user id that exists is not added to `connected`.            *)
PickSame(s, u) ==
  /\ pc[s] = "pick"
  /\ Least(s, u)
  /\ ~Exists(u)
  /\ user' = [user EXCEPT ![u] = [by |-> s, text |-> None]]
  /\ uid' = [uid EXCEPT ![s] = u]
  /\ Goto(s, "write")
  /\ UNCHANGED <<dir, workdir, conn, pids, connected, names, kills>>

(* pick_user(), up to the exclusive open() of create_user().               *)
Pick(s, u) ==
  /\ pc[s] = "pick"
  /\ Least(s, u)
  /\ \/ /\ ~Exists(u)
        /\ user' = [user EXCEPT ![u] = [by |-> s, text |-> None]]
        /\ uid' = [uid EXCEPT ![s] = u]
        /\ Goto(s, "write")
        /\ UNCHANGED connected
     \/ /\ Exists(u)
        /\ connected' = [connected EXCEPT ![s] = @ \cup {u}]
        /\ UNCHANGED <<user, pc, uid>>
  /\ UNCHANGED <<dir, workdir, conn, pids, names, kills>>

PickNone(s) ==
  /\ pc[s] = "pick"
  /\ Free(s) = {}
  /\ Leave(s, "refused")
  /\ UNCHANGED <<files, kills>>

(* The text reaches the file s opened, which may have been removed since.  *)
Write(s) ==
  /\ pc[s] = "write"
  /\ user' = IF user[uid[s]].by = s
               THEN [user EXCEPT ![uid[s]] = [by |-> s, text |-> conn[s]]]
               ELSE user
  /\ Goto(s, "makedirs")
  /\ UNCHANGED <<dir, workdir, locals, kills>>

Makedirs(s) ==
  /\ pc[s] = "makedirs"
  /\ dir' = [dir EXCEPT ![uid[s]] = IF @ = "absent" THEN "root" ELSE @]
  /\ Goto(s, "chown")
  /\ UNCHANGED <<user, workdir, locals, kills>>

Chown(s) ==
  /\ pc[s] = "chown"
  /\ \/ /\ dir[uid[s]] = "absent"
        /\ Fail(s)
        /\ UNCHANGED dir
     \/ /\ dir[uid[s]] # "absent"
        /\ dir' = [dir EXCEPT ![uid[s]] = "user"]
        /\ Goto(s, "drop")
        /\ UNCHANGED locals
  /\ UNCHANGED <<user, workdir, kills>>

DropPrivileges(s) ==
  /\ pc[s] = "drop"
  /\ Goto(s, "chdir")
  /\ UNCHANGED <<files, locals, kills>>

(* The user may enter its directory, mode 0700, and write there, only when *)
(* it owns it.                                                             *)
EnterDir(s) ==
  /\ pc[s] \in {"chdir", "symlink"}
  /\ \/ /\ dir[uid[s]] # "user"
        /\ Fail(s)
     \/ /\ dir[uid[s]] = "user"
        /\ Goto(s, IF pc[s] = "chdir" THEN "symlink" ELSE "shell")
        /\ UNCHANGED locals
  /\ UNCHANGED <<files, kills>>

(* The shell and the processes it started have ended.                      *)
Exit(s) ==
  /\ pc[s] = "shell"
  /\ Leave(s, "none")
  /\ UNCHANGED <<files, kills>>

Kill(s) ==
  /\ SettingUp(s)
  /\ kills < MaxKills
  /\ kills' = kills + 1
  /\ Leave(s, "none")
  /\ UNCHANGED files

-----------------------------------------------------------------------------

Step(s) ==
  \/ Begin(s) \/ Mkdir(s)
  \/ ListProc(s) \/ Stat(s)
  \/ ListDir(s) \/ NoReuse(s) \/ RemoveFile(s)
  \/ \E u \in Uid : RemoveTree(s, u) \/ ReadUser(s, u) \/ Pick(s, u)
  \/ PickNone(s) \/ Write(s) \/ Makedirs(s) \/ Chown(s)
  \/ DropPrivileges(s) \/ EnterDir(s)

Next ==
  \E s \in Session :
    \/ \E c \in Connection : Start(s, c)
    \/ Step(s)
    \/ Exit(s)
    \/ Kill(s)

Spec == Init /\ [][Next]_vars

(* A process that can run does.                                            *)
FairSpec == Spec /\ \A s \in Session : WF_vars(Step(s))

-----------------------------------------------------------------------------

(* "Give a different UID to each SSH connection" (ssh-isolation.py:4): two *)
(* sessions that run as the same user belong to the same connection.       *)
DifferentUid ==
  \A s, t \in Session :
    Visible(s) /\ Visible(t) /\ uid[s] = uid[t] => conn[s] = conn[t]

(* What reuse_connection() is for: the sessions of a connection run as the *)
(* same user and share a directory.                                        *)
SameUid ==
  \A s, t \in Session :
    Visible(s) /\ Visible(t) /\ conn[s] = conn[t] => uid[s] = uid[t]

(* While a session runs, its user's directory is there and its own, and    *)
(* the file that reserves the user id names its connection: no set-up of   *)
(* another session has taken it for a disconnected one.                    *)
OwnDirectory ==
  \A s \in Session : Visible(s) =>
    dir[uid[s]] = "user" /\ user[uid[s]].text = conn[s]

(* A session is refused when every user id is taken (pick_user), never     *)
(* because of what an earlier one left in the directory.                   *)
NoFailure == \A s \in Session : pc[s] # "failed"

(* As long as no set-up was killed, none meets an exception.               *)
FailsOnlyAfterKill == kills = 0 => NoFailure

(* However set-ups interleave, each one ends: the loops over /proc and the *)
(* directory and the recursion of pick_user() do.                          *)
SetUpEnds == \A s \in Session : SettingUp(s) ~> ~SettingUp(s)

(* The running sessions, for UidPool.                                      *)
Runs == [s \in Session |->
  [conn |-> IF Visible(s) THEN conn[s] ELSE None,
   uid |-> IF Visible(s) THEN uid[s] ELSE None]]

Pool == INSTANCE UidPool WITH runs <- Runs

(* One user per connection and one connection per user, from the moment a  *)
(* session drops its privileges to its end.                                *)
PoolSpec == Pool!Spec
=============================================================================
