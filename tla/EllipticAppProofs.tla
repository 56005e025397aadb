-------------------------- MODULE EllipticAppProofs --------------------------
(***************************************************************************)
(* EllipticApp's invariants, for every grid, every set of lines and every  *)
(* length of a FILL command.                                               *)
(***************************************************************************)
EXTENDS EllipticApp, TLAPS

(* While the user is asked to confirm, the grid is the one that was        *)
(* checked.                                                                *)
GridKept == screen = "success" => GridHolds(array)

AppInv == TypeOK /\ OneReplyEach /\ GridKept /\ FlagOfAcceptedGrid

(* What a FILL command puts into the grid: primes below the limit, into    *)
(* cells that were empty.                                                  *)
LEMMA FillFills ==
  ASSUME TypeOK,
         NEW k \in Nat, NEW n \in 0..k,
         NEW data \in [1..k -> [pos : Position, value : Byte]],
         Takes(data, n)
  PROVE  LET g == Fill(array, SubSeq(data, 1, n))
         IN  /\ g \in Grid
             /\ \A c \in Cell : \/ g[c] = array[c]
                                \/ array[c] = 0 /\ IsPrime(g[c]) /\ g[c] < Limit
<1> DEFINE e == SubSeq(data, 1, n)
           g == Fill(array, e)
<1>1. DOMAIN e = 1..n /\ \A i \in 1..n : e[i] = data[i]
  <2> DEFINE Entry == [pos : Position, value : Byte]
  <2>1. data \in [1..k -> Entry]
    OBVIOUS
  <2> HIDE DEF Entry
  <2>2. data \in Seq(Entry) /\ Len(data) = k
    BY <2>1
  <2> QED
    BY <2>2
<1>2. \A i \in 1..n : /\ data[i].pos \in Cell
                      /\ array[data[i].pos] = 0
                      /\ IsPrime(data[i].value) /\ data[i].value < Limit
                      /\ data[i].value \in Nat
  <2> TAKE i \in 1..n
  <2>1. Accepted(data, i)
    BY DEF Takes
  <2>2. data[i] \in [pos : Position, value : Byte]
    OBVIOUS
  <2> QED
    BY <2>1, <2>2, HostAssumption DEF Accepted, Fillable
<1>3. \A c \in Cell :
        \/ g[c] = array[c]
        \/ \E i \in 1..n : data[i].pos = c /\ g[c] = data[i].value
  <2> SUFFICES ASSUME NEW c \in Cell, g[c] # array[c]
               PROVE  \E i \in 1..n : data[i].pos = c /\ g[c] = data[i].value
    OBVIOUS
  <2>1. \E i \in DOMAIN e : e[i].pos = c
    BY DEF Fill
  <2> DEFINE i == CHOOSE i \in DOMAIN e : e[i].pos = c
  <2>2. i \in DOMAIN e /\ e[i].pos = c
    BY <2>1
  <2>3. g[c] = e[i].value
    BY <2>1 DEF Fill
  <2> QED
    BY <1>1, <2>2, <2>3
<1>4. g = [c \in Cell |-> g[c]]
  BY DEF Fill
<1>5. \A c \in Cell : g[c] \in Nat
  BY <1>2, <1>3 DEF TypeOK, Grid
<1>6. g \in Grid
  BY <1>4, <1>5 DEF Grid
<1> HIDE DEF g
<1>7. \A c \in Cell : \/ g[c] = array[c]
                      \/ array[c] = 0 /\ IsPrime(g[c]) /\ g[c] < Limit
  <2> TAKE c \in Cell
  <2>1. CASE g[c] = array[c]
    BY <2>1
  <2>2. CASE g[c] # array[c]
    <3>1. PICK i \in 1..n : data[i].pos = c /\ g[c] = data[i].value
      BY <1>3, <2>2
    <3>2. /\ array[data[i].pos] = 0
          /\ IsPrime(data[i].value)
          /\ data[i].value < Limit
      BY <1>2
    <3>3. IsPrime(g[c])
      BY <3>1, <3>2, Zenon
    <3> QED
      BY <3>1, <3>2, <3>3
  <2> QED
    BY <2>1, <2>2
<1> QED
  BY <1>6, <1>7 DEF g

LEMMA InitInv == Init => AppInv
BY GivenAssumption, TransportAssumption
   DEF Init, AppInv, TypeOK, OneReplyEach, GridKept, FlagOfAcceptedGrid, Grid,
       Reply, Answer, StatusWord

(* Whatever the transport does, a reply is owed while the user is asked to *)
(* confirm.                                                                *)
Owes == TypeOK /\ (screen = "success" => owed > 0)

LEMMA HandleTypes ==
  ASSUME Owes, NEW sw \in StatusWord, Handle(sw)
  PROVE  reply' \in Reply /\ owed' = owed
BY DEF Handle, Answer, Reply

LEMMA NextOwes == ASSUME Owes, [Next]_vars PROVE Owes'
<1>1. CASE Refuse
  <2>1. PICK sw \in StatusWord : Handle(sw)
    BY <1>1 DEF Refuse, StatusWord
  <2> QED
    BY <1>1, <2>1, HandleTypes DEF Refuse, Owes, TypeOK
<1>2. CASE Reset
  <2>1. reply' \in Reply /\ owed' = owed
    BY <1>2, HandleTypes DEF Reset, StatusWord
  <2> QED
    BY <1>2, <2>1, GivenAssumption DEF Reset, Owes, TypeOK, Grid
<1>3. CASE FillCommand
  <2>1. PICK k \in 0..Pairs :
          \E data \in [1..k -> [pos : Position, value : Byte]], n \in 0..k :
            /\ Takes(data, n)
            /\ Handle(IF n = k THEN "9000" ELSE "6984")
            /\ array' = Fill(array, SubSeq(data, 1, n))
            /\ UNCHANGED screen
    BY <1>3 DEF FillCommand
  <2>2. PICK data \in [1..k -> [pos : Position, value : Byte]], n \in 0..k :
            /\ Takes(data, n)
            /\ Handle(IF n = k THEN "9000" ELSE "6984")
            /\ array' = Fill(array, SubSeq(data, 1, n))
            /\ UNCHANGED screen
    BY <2>1
  <2>3. k \in Nat /\ TypeOK
    BY HostAssumption DEF Owes
  <2>4. array' \in Grid
    BY <2>2, <2>3, FillFills
  <2>5. reply' \in Reply /\ owed' = owed
    BY <2>2, HandleTypes DEF StatusWord
  <2>6. screen' = screen
    BY <2>2
  <2> QED
    BY ONLY Owes, <2>4, <2>5, <2>6 DEF Owes, TypeOK
<1>4. CASE CheckFails
  <2>1. reply' \in Reply /\ owed' = owed
    BY <1>4, HandleTypes DEF CheckFails, StatusWord
  <2> QED
    BY <1>4, <2>1, GivenAssumption DEF CheckFails, Owes, TypeOK, Grid
<1>5. CASE CheckThrows
  <2>1. reply' \in Reply /\ owed' = owed
    BY <1>5, HandleTypes DEF CheckThrows, StatusWord
  <2> QED
    BY <1>5, <2>1 DEF CheckThrows, Owes, TypeOK
<1>6. CASE CheckHolds
  BY <1>6, TransportAssumption DEF CheckHolds, Take, Owes, TypeOK
<1>7. CASE Confirm
  <2>1. reply' \in Reply
    BY <1>7 DEF Confirm, Answer, Reply, StatusWord, Owes, TypeOK
  <2> QED
    BY <1>7, <2>1, TransportAssumption DEF Confirm, Owes, TypeOK
<1>8. CASE Quit
  BY <1>8 DEF Quit, Owes, TypeOK
<1>9. CASE UNCHANGED vars
  BY <1>9 DEF vars, Owes, TypeOK
<1> QED
  BY <1>1, <1>2, <1>3, <1>4, <1>5, <1>6, <1>7, <1>8, <1>9 DEF Next

LEMMA AlwaysOwes == Spec => []Owes
<1>1. Init => Owes
  BY InitInv DEF AppInv, Owes, Init
<1>2. Owes /\ [Next]_vars => Owes'
  BY NextOwes
<1> QED
  BY <1>1, <1>2, PTL DEF Spec

(* The grid holds numbers, every reply has a status word and a bounded     *)
(* number of replies is owed, even by a transport that takes a command     *)
(* while it owes one.                                                      *)
THEOREM TypeCorrect == Spec => []TypeOK
<1>1. Owes => TypeOK
  BY DEF Owes
<1> QED
  BY <1>1, AlwaysOwes, PTL

(* No command is handled while a reply is owed.                            *)
LEMMA HandledIdle ==
  ASSUME AppInv, OneAtATime, Take
  PROVE  owed = 0 /\ screen # "success"
BY DEF AppInv, OneReplyEach, Take

LEMMA HandleInv ==
  ASSUME AppInv, NEW sw \in StatusWord, Handle(sw)
  PROVE  reply' \in Reply /\ reply'.flag = {} /\ owed' = owed
BY DEF Handle, Answer, Reply

LEMMA NextInv == ASSUME AppInv, OneAtATime, [Next]_vars PROVE AppInv'
<1> USE DEF AppInv
<1>1. CASE Refuse
  <2>1. PICK sw \in StatusWord : Handle(sw)
    BY <1>1 DEF Refuse, StatusWord
  <2> QED
    BY <1>1, <2>1, HandleInv DEF Refuse, TypeOK, OneReplyEach, GridKept, FlagOfAcceptedGrid
<1>2. CASE Reset
  <2>1. "9000" \in StatusWord /\ Handle("9000")
    BY <1>2 DEF Reset, StatusWord
  <2>2. reply' \in Reply /\ reply'.flag = {} /\ owed' = owed
    BY <2>1, HandleInv
  <2>3. screen' # "success"
    BY <1>2, HandledIdle DEF Reset, Handle
  <2> QED
    BY <1>2, <2>2, <2>3, GivenAssumption
       DEF Reset, TypeOK, Grid, OneReplyEach, GridKept, FlagOfAcceptedGrid
<1>3. CASE FillCommand
  <2>1. PICK k \in 0..Pairs :
          \E data \in [1..k -> [pos : Position, value : Byte]], n \in 0..k :
            /\ Takes(data, n)
            /\ Handle(IF n = k THEN "9000" ELSE "6984")
            /\ array' = Fill(array, SubSeq(data, 1, n))
            /\ UNCHANGED screen
    BY <1>3 DEF FillCommand
  <2>2. PICK data \in [1..k -> [pos : Position, value : Byte]], n \in 0..k :
            /\ Takes(data, n)
            /\ Handle(IF n = k THEN "9000" ELSE "6984")
            /\ array' = Fill(array, SubSeq(data, 1, n))
            /\ UNCHANGED screen
    BY <2>1
  <2>3. k \in Nat
    BY HostAssumption
  <2>4. array' \in Grid
    BY <2>2, <2>3, FillFills
  <2>5. reply' \in Reply /\ reply'.flag = {} /\ owed' = owed
    BY <2>2, HandleInv DEF StatusWord
  <2>6. screen # "success"
    BY <2>2, HandledIdle DEF Handle
  <2> QED
    <3>1. screen' = screen /\ screen' # "success"
      BY <2>2, <2>6
    <3> QED
      BY ONLY AppInv, <2>4, <2>5, <3>1
         DEF AppInv, TypeOK, OneReplyEach, GridKept, FlagOfAcceptedGrid
<1>4. CASE CheckFails
  <2>1. reply' \in Reply /\ reply'.flag = {} /\ owed' = owed
    BY <1>4, HandleInv DEF CheckFails, StatusWord
  <2>2. owed = 0
    BY <1>4, HandledIdle DEF CheckFails, Handle
  <2> QED
    BY <1>4, <2>1, <2>2, GivenAssumption
       DEF CheckFails, TypeOK, Grid, OneReplyEach, GridKept, FlagOfAcceptedGrid
<1>5. CASE CheckThrows
  <2>1. reply' \in Reply /\ reply'.flag = {} /\ owed' = owed
    BY <1>5, HandleInv DEF CheckThrows, StatusWord
  <2> QED
    BY <1>5, <2>1 DEF CheckThrows, TypeOK, OneReplyEach, GridKept, FlagOfAcceptedGrid
<1>6. CASE CheckHolds
  <2>1. owed = 0
    BY <1>6, HandledIdle DEF CheckHolds
  <2> QED
    BY <1>6, <2>1, TransportAssumption
       DEF CheckHolds, TypeOK, OneReplyEach, GridKept, FlagOfAcceptedGrid
<1>7. CASE Confirm
  <2>1. owed = 1 /\ GridHolds(array)
    BY <1>7 DEF Confirm, OneReplyEach, GridKept
  <2>2. owed' = 0 /\ screen' = "idle" /\ array' = array
    BY <1>7, <2>1 DEF Confirm
  <2>3. reply' \in Reply /\ reply'.flag = {array}
    BY <1>7 DEF Confirm, Answer, Reply, StatusWord, TypeOK
  <2>4. \A g \in reply'.flag : GridHolds(g)
    BY <2>1, <2>3
  <2>5. FlagOfAcceptedGrid'
    BY <2>4, Zenon DEF FlagOfAcceptedGrid
  <2>6. TypeOK' /\ OneReplyEach' /\ GridKept'
    BY <2>2, <2>3, TransportAssumption DEF TypeOK, OneReplyEach, GridKept
  <2> QED
    BY <2>5, <2>6
<1>8. CASE Quit
  BY <1>8 DEF Quit, TypeOK, OneReplyEach, GridKept, FlagOfAcceptedGrid
<1>9. CASE UNCHANGED vars
  BY <1>9 DEF vars, TypeOK, OneReplyEach, GridKept, FlagOfAcceptedGrid
<1> QED
  BY <1>1, <1>2, <1>3, <1>4, <1>5, <1>6, <1>7, <1>8, <1>9 DEF Next

(* When the transport takes one command at a time, every flag is derived   *)
(* from a grid all of whose lines hold.                                    *)
THEOREM FlagAccepted ==
  ASSUME OneAtATime PROVE Spec => []FlagOfAcceptedGrid
<1>1. Init => AppInv
  BY InitInv
<1>2. AppInv /\ [Next]_vars => AppInv'
  BY NextInv
<1>3. AppInv => FlagOfAcceptedGrid
  BY DEF AppInv
<1> QED
  BY <1>1, <1>2, <1>3, PTL DEF Spec

(* And a reply is owed exactly while the user is asked to confirm.         *)
THEOREM RepliesOwed ==
  ASSUME OneAtATime PROVE Spec => [](TypeOK /\ OneReplyEach)
<1>1. Init => AppInv
  BY InitInv
<1>2. AppInv /\ [Next]_vars => AppInv'
  BY NextInv
<1>3. AppInv => TypeOK /\ OneReplyEach
  BY DEF AppInv
<1> QED
  BY <1>1, <1>2, <1>3, PTL DEF Spec

(* The grid only fills up, or is put back whole, whatever the transport    *)
(* does.                                                                   *)
THEOREM GridFills == Spec => GridOnlyFills
<1>1. Owes /\ [Next]_vars => [OnlyFills]_vars
  <2> SUFFICES ASSUME Owes, Next PROVE OnlyFills
    BY DEF vars
  <2>1. CASE FillCommand
    <3>1. PICK k \in 0..Pairs :
            \E data \in [1..k -> [pos : Position, value : Byte]], n \in 0..k :
              Takes(data, n) /\ array' = Fill(array, SubSeq(data, 1, n))
      BY <2>1 DEF FillCommand
    <3>2. PICK data \in [1..k -> [pos : Position, value : Byte]], n \in 0..k :
              Takes(data, n) /\ array' = Fill(array, SubSeq(data, 1, n))
      BY <3>1
    <3>3. k \in Nat /\ TypeOK
      BY HostAssumption DEF Owes
    <3> QED
      BY <3>2, <3>3, FillFills DEF OnlyFills
  <2>2. CASE Reset \/ CheckFails
    BY <2>2 DEF Reset, CheckFails, OnlyFills
  <2>3. CASE Refuse \/ CheckThrows \/ CheckHolds \/ Confirm \/ Quit
    BY <2>3 DEF Refuse, CheckThrows, CheckHolds, Confirm, Quit, OnlyFills
  <2> QED
    BY <2>1, <2>2, <2>3 DEF Next
<1> QED
  BY <1>1, AlwaysOwes, PTL DEF Spec, GridOnlyFills
==============================================================================
