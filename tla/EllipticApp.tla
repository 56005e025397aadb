----------------------------- MODULE EllipticApp -----------------------------
(***************************************************************************)
(* The "elliptic relations" application of a hardware wallet (app-ctf): a  *)
(* grid of numbers the host fills over APDUs, a check of its lines, and a  *)
(* flag that is derived from the grid when the user confirms.              *)
(*                                                                         *)
(* One thread handles a command or a button at a time, so each handler is  *)
(* one action.  The exception is the confirmation: a check that succeeds   *)
(* owes its reply, and the grid is hashed when the button is pressed.      *)
(*                                                                         *)
(* The system library and its transport are external.  Multiplying the     *)
(* secret point is multiplying numbers: nine primes below 64 have a        *)
(* product far below the order of the curve.                               *)
(***************************************************************************)
EXTENDS Naturals, Sequences

CONSTANTS
  Cell,          \* positions of the grid: 0..80
  Position,      \* bytes a host may send as a position
  Byte,          \* bytes a host may send as a value
  Pairs,         \* the most entries of one FILL command
  Limit,         \* values are below it: 64
  Given,         \* initial_array: the first cells, already filled
  Lines,         \* pos: the positions of each line
  Secret,        \* expected_point: what a line multiplies to
  OneAtATime,    \* the transport takes no command while a reply is owed
  OwedBound      \* most replies owed, when it does

ASSUME GivenAssumption == Given \in [Cell -> Nat]
ASSUME LinesAssumption == \A i \in DOMAIN Lines : Lines[i] \in Seq(Cell)
ASSUME HostAssumption == Byte \subseteq Nat /\ Pairs \in Nat /\ Limit \in Nat
ASSUME TransportAssumption == OneAtATime \in BOOLEAN /\ OwedBound \in Nat \ {0}

VARIABLES
  array,         \* the grid; 0 is an empty cell
  screen,        \* the flow on display; "left" when the application ended
  owed,          \* commands taken by the transport and not yet replied to
  reply          \* the last reply, with the grids its data is the hash of

vars == <<array, screen, owed, reply>>

IsPrime(n) == n > 1 /\ \A d \in 2..(n - 1) : n % d # 0

StatusWord == {"6982", "6e00", "6700", "6d00", "9000", "6984", "6985", "6802"}

Answer(sw, flag) == [sw |-> sw, flag |-> flag]
Grid == [Cell -> Nat]
Reply == [sw : StatusWord, flag : SUBSET Grid]

TypeOK ==
  /\ array \in Grid
  /\ screen \in {"idle", "success", "left"}
  /\ owed \in 0..OwedBound
  /\ reply \in Reply

-----------------------------------------------------------------------------
(* The grid.                                                               *)

(* Mutant: a cell that is not empty is filled again.                       *)
FillableAny(g, e) == e.pos \in Cell /\ IsPrime(e.value) /\ e.value < Limit

(* fill_grid_entry() accepts the entry.                                    *)
Fillable(g, e) ==
  /\ e.pos \in Cell
  /\ g[e.pos] = 0
  /\ IsPrime(e.value)
  /\ e.value < Limit

(* The i-th entry of a FILL command is accepted after those before it.     *)
Accepted(data, i) ==
  /\ Fillable(array, data[i])
  /\ \A j \in 1..(i - 1) : data[j].pos # data[i].pos

(* The n first entries are accepted, and the loop ends there.              *)
Takes(data, n) ==
  /\ \A i \in 1..n : Accepted(data, i)
  /\ n < Len(data) => ~Accepted(data, n + 1)

Fill(g, entries) ==
  [c \in Cell |->
     IF \E i \in DOMAIN entries : entries[i].pos = c
       THEN entries[CHOOSE i \in DOMAIN entries : entries[i].pos = c].value
       ELSE g[c]]

Product(g, line) ==
  LET p[i \in 0..Len(line)] == IF i = 0 THEN 1 ELSE p[i - 1] * g[line[i]]
  IN  p[Len(line)]

LineHolds(g, line) ==
  /\ \A i \in DOMAIN line : g[line[i]] # 0
  /\ Product(g, line) = Secret

GridHolds(g) == \A i \in DOMAIN Lines : LineHolds(g, Lines[i])

(* Generating a key pair from zero fails: on a device with an exception,   *)
(* in an emulator without.  The first line that does not hold decides.     *)
MayThrow(g) ==
  \E i \in DOMAIN Lines :
    /\ \A j \in 1..(i - 1) : LineHolds(g, Lines[j])
    /\ Lines[i] # << >> /\ g[Lines[i][1]] = 0

-----------------------------------------------------------------------------

Init ==
  /\ array = Given           \* reset_grid() in ctf_main()
  /\ screen = "idle"         \* ui_idle() in main()
  /\ owed = 0
  /\ reply = Answer("9000", {})

(* Mutant: the transport takes a command whatever is owed.                 *)
TakeAlways == owed < OwedBound

(* io_exchange() returns a command.                                        *)
Take ==
  /\ owed < OwedBound
  /\ OneAtATime => owed = 0

(* The handler of a command replies at once, mostly by an exception that   *)
(* ctf_main() turns into a status word.                                    *)
Handle(sw) ==
  /\ screen # "left"
  /\ Take
  /\ reply' = Answer(sw, {})
  /\ UNCHANGED owed

(* No bytes, wrong class, wrong length, unknown instruction, odd FILL.     *)
Refuse ==
  /\ \E sw \in {"6982", "6e00", "6700", "6d00", "6984"} : Handle(sw)
  /\ UNCHANGED <<array, screen>>

Reset ==
  /\ Handle("9000")
  /\ array' = Given
  /\ UNCHANGED screen

(* Entries before one that is refused stay filled.                         *)
FillCommand ==
  \E k \in 0..Pairs :
    \E data \in [1..k -> [pos : Position, value : Byte]], n \in 0..k :
      /\ Takes(data, n)
      /\ Handle(IF n = k THEN "9000" ELSE "6984")
      /\ array' = Fill(array, SubSeq(data, 1, n))
      /\ UNCHANGED screen

(* send_response(0, false) goes back to the idle flow.                     *)
CheckFails ==
  /\ ~GridHolds(array)
  /\ Handle("6985")
  /\ array' = Given
  /\ screen' = "idle"

CheckThrows ==
  /\ MayThrow(array)
  /\ Handle("6802")
  /\ UNCHANGED <<array, screen>>

CheckHolds ==
  /\ screen # "left"
  /\ Take
  /\ GridHolds(array)
  /\ screen' = "success"
  /\ owed' = owed + 1
  /\ UNCHANGED <<array, reply>>

(* Mutant: the display stays where it was.                                 *)
ConfirmAgain ==
  /\ screen = "success"
  /\ reply' = Answer("9000", {array})
  /\ owed' = owed - 1
  /\ UNCHANGED <<array, screen>>

(* The user validates ux_success_step: the flag is the hash of the grid as *)
(* it is now.                                                              *)
Confirm ==
  /\ screen = "success"
  /\ reply' = Answer("9000", {array})
  /\ owed' = owed - 1
  /\ screen' = "idle"
  /\ UNCHANGED array

(* The user validates the last step of the idle flow.                      *)
Quit ==
  /\ screen = "idle"
  /\ screen' = "left"
  /\ UNCHANGED <<array, owed, reply>>

Next ==
  \/ Refuse
  \/ Reset
  \/ FillCommand
  \/ CheckFails
  \/ CheckThrows
  \/ CheckHolds
  \/ Confirm
  \/ Quit

Spec == Init /\ [][Next]_vars

-----------------------------------------------------------------------------
(* Properties.                                                             *)

(* The flag is derived from a grid all of whose lines hold, although it is *)
(* computed at the confirmation and not at the check.                      *)
FlagOfAcceptedGrid == \A g \in reply.flag : GridHolds(g)

(* A reply is owed exactly while the user is asked to confirm: no command  *)
(* goes without its reply and none gets two.                               *)
OneReplyEach == owed = IF screen = "success" THEN 1 ELSE 0

(* Commands only ever fill empty cells, with primes below the limit, or    *)
(* put the whole grid back to its first state.                             *)
OnlyFills ==
  \/ array' = Given
  \/ \A c \in Cell : \/ array'[c] = array[c]
                     \/ array[c] = 0 /\ IsPrime(array'[c]) /\ array'[c] < Limit
GridOnlyFills == [][OnlyFills]_vars
==============================================================================
