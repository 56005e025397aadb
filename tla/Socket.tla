------------------------------- MODULE Socket -------------------------------
(***************************************************************************)
(* The picoHSM's W5500 socket driver (w5500.cxx) as main() and             *)
(* handle_client() use it, the network chip, and the client behind it.     *)
(*                                                                         *)
(* The driver has no interrupt: it polls 16-bit registers of the chip over *)
(* SPI, one byte at a time, while the chip changes them.  A value is read  *)
(* in two steps, high byte first, with Base values to a byte.              *)
(*                                                                         *)
(* The chip is external: a command byte takes effect at once, save that    *)
(* SEND only starts a transmission, and what it received stays in its RX   *)
(* buffer until it is read or the socket is opened again.  Its buffers are *)
(* addressed by 16-bit pointers, of which it uses the low bits.  What a    *)
(* client sends fits handle_client()'s buffer.                             *)
(***************************************************************************)
EXTENDS Integers, Sequences

CONSTANTS
  Byte,       \* what the two ends send each other
  Base,       \* values of a byte of a register: 256
  TxSize,     \* bytes in the socket's TX buffer: 2048
  Start,      \* what the TX pointers may be after OPEN
  Banner,     \* what handle_client() prints first
  Answers,    \* what execute_command() may print, as sequences of writes
  Line,       \* the bytes a client sends, in segments of any length
  ReadMax,    \* what read_avail() is asked for: sizeof(buf) + 256
  None

Word == Base * Base

ASSUME WordAssumption == Base \in Nat \ {0, 1} /\ TxSize \in 1..(Word - 1)
ASSUME PointerAssumption == Word % TxSize = 0 /\ Start \subseteq 0..(Word - 1)
ASSUME NoneAssumption == None \notin Nat
ASSUME LineAssumption ==
  Line \in Seq(Byte) /\ Len(Line) < Word /\ ReadMax \in Nat \ {0}
(* A connection prints less than 1 kB in all, the banner and an answer     *)
(* whose writes are all as long as the longest of them.                    *)
ASSUME OutputAssumption ==
  /\ Banner \in Seq(Byte) /\ Len(Banner) < TxSize
  /\ \A a \in Answers :
       /\ a \in Seq(Seq(Byte))
       /\ \E m \in 0..TxSize : /\ \A i \in DOMAIN a : Len(a[i]) <= m
                              /\ Len(Banner) + Len(a) * m < TxSize

VARIABLES
  \* The chip's socket 0
  sr,         \* Sn_SR
  tx,         \* the TX buffer
  tx_rd,      \* Sn_TX_RD: next byte to transmit
  tx_wr,      \* Sn_TX_WR: end of the data to transmit
  unacked,    \* bytes transmitted and not yet acknowledged
  sending,    \* a SEND is under way
  rx,         \* the bytes in the RX buffer, from Sn_RX_RD on
  \* The driver and its caller
  pc,
  high,       \* read_u16(): the high byte
  last,       \* read_u16_stable(): the value read before
  held,       \* history: the values the register had since it is polled
  tx_pointer, \* write(): where the data goes
  want,       \* read_exact(): len
  received,   \* read_exact(): bytes read so far
  dst,        \* the caller's buffer
  todo,       \* writes still to be done before the next phase
  \* The connection
  said, heard, sent,
  early,      \* history: the client left before disconnect() was called
  misplaced   \* history: a write() was not told where the last one ended

chipVars == <<sr, tx, tx_rd, tx_wr, unacked, sending, rx>>
readVars == <<high, last, held>>
callVars == <<tx_pointer, want, received, dst, todo>>
history == <<early, misplaced>>
vars == <<chipVars, pc, readVars, callVars, said, heard, sent, history>>

-----------------------------------------------------------------------------

Status == {"closed", "init", "listen", "synrecv", "synack", "established",
           "close_wait", "fin_wait", "closing", "time_wait", "last_ack"}

(* Where the program polls a register with read_u16_stable().              *)
Avail == {"wait", "size", "exact"}
Polling == Avail \cup {"free", "pointer"}
Handling == Polling \cup {"data", "send"}

Value == 0..(Word - 1)

TypeOK ==
  /\ sr \in Status
  /\ tx_rd \in Value /\ tx_wr \in Value /\ tx_pointer \in Value
  /\ unacked \in 0..TxSize
  /\ sending \in BOOLEAN /\ early \in BOOLEAN /\ misplaced \in BOOLEAN
  /\ Len(rx) \in Value
  /\ pc \in Handling \cup {"boot", "open", "listen", "await", "discon",
                           "closing", "panic"}
  /\ high \in 0..(Base - 1) \cup {None}
  /\ last \in Value \cup {None}
  /\ held \subseteq Value
  /\ want \in 0..ReadMax /\ received \in 0..want

(* Both directions of the connection.  The one to the client promises      *)
(* nothing more, until the next connection, once a write() is misplaced.   *)
Inbound == INSTANCE ByteStream WITH
  given <- sent,
  taken <- dst,
  Piece <- {SubSeq(Line, i, j) : i, j \in DOMAIN Line}

Printed == {Banner} \cup UNION {{a[i] : i \in DOMAIN a} : a \in Answers}

Outbound == INSTANCE ByteStream WITH
  given <- IF misplaced THEN << >> ELSE said,
  taken <- IF misplaced THEN << >> ELSE heard,
  Piece <- Printed

Written == INSTANCE ByteStream WITH
  given <- said,
  taken <- heard,
  Piece <- Printed

(* What the register that is polled at p holds.                            *)
Pending == (tx_wr - tx_rd) % Word
Register(p) ==
  CASE p = "free"    -> (TxSize - Pending - unacked) % Word  \* Sn_TX_FSR
    [] p = "pointer" -> tx_rd                                \* Sn_TX_RD
    [] p \in Avail   -> Len(rx)                              \* Sn_RX_RSR

Minimum(a, b) == IF a < b THEN a ELSE b

Goto(p) ==
  /\ pc' = p
  /\ high' = None
  /\ last' = None
  /\ held' = IF p \in Polling THEN {Register(pc)'} ELSE {}

(* The chip has changed a register.                                        *)
Observe ==
  held' = IF pc \in Polling THEN held \cup {Register(pc)'} ELSE held

Init ==
  /\ sr = "closed" /\ tx = [a \in 0..(TxSize - 1) |-> None]
  /\ tx_rd = 0 /\ tx_wr = 0 /\ unacked = 0 /\ sending = FALSE /\ rx = << >>
  /\ pc = "boot" /\ high = None /\ last = None /\ held = {}
  /\ tx_pointer = 0 /\ want = 0 /\ received = 0 /\ dst = << >> /\ todo = << >>
  /\ said = << >> /\ heard = << >> /\ sent = << >>
  /\ early = FALSE /\ misplaced = FALSE

-----------------------------------------------------------------------------
(* An operator whose comment begins with "Mutant" is no part of the        *)
(* specification: it is a plausible wrong version of the definition after  *)
(* it, which the properties must refute.                                   *)

(* read_u16(): the high byte of the register, then the low one.            *)
ReadHigh ==
  /\ pc \in Polling
  /\ high = None
  /\ high' = Register(pc) \div Base
  /\ UNCHANGED <<chipVars, pc, last, held, callVars, said, heard, sent, history>>

ReadValue == high * Base + (Register(pc) % Base)

(* Mutant: the second value is not compared with the first.                *)
StableOnce == high # None /\ last # None

(* read_u16_stable() returns once two values in a row agree.               *)
Stable == high # None /\ last = ReadValue

ReadAgain ==
  /\ pc \in Polling
  /\ high # None
  /\ ~Stable
  /\ high' = None
  /\ last' = ReadValue
  /\ UNCHANGED <<chipVars, pc, held, callVars, said, heard, sent, history>>

-----------------------------------------------------------------------------
(* main().                                                                 *)

Fresh ==
  /\ tx' = [a \in 0..(TxSize - 1) |-> None]
  /\ unacked' = 0
  /\ sending' = FALSE
  /\ rx' = << >>
  /\ said' = << >> /\ heard' = << >> /\ sent' = << >>
  /\ early' = FALSE /\ misplaced' = FALSE

(* setup_network() resets the chip; the rest of it sets addresses.         *)
Boot ==
  /\ pc \in {"boot", "panic"}
  /\ Goto("open")
  /\ Fresh
  /\ sr' = "closed"
  /\ tx_rd' = 0 /\ tx_wr' = 0
  /\ tx_pointer' = 0 /\ want' = 0 /\ received' = 0 /\ dst' = << >>
  /\ todo' = << >>

(* socket_t::listen(): assert, set the mode and the port, OPEN.            *)
OpenSocket ==
  /\ pc = "open"
  /\ IF sr = "closed"
       THEN /\ Goto("listen")
            /\ Fresh
            /\ sr' = "init"
            /\ \E p \in Start : tx_rd' = p /\ tx_wr' = p
            /\ dst' = << >>
            /\ UNCHANGED <<tx_pointer, want, received, todo>>
       ELSE /\ Goto("panic")
            /\ UNCHANGED <<chipVars, callVars, said, heard, sent, history>>

ListenCommand ==
  /\ pc = "listen"
  /\ Goto("await")
  /\ sr' = "listen"
  /\ UNCHANGED <<tx, tx_rd, tx_wr, unacked, sending, rx, callVars, said,
                 heard, sent, history>>

(* The loop of listen(), which reloads the watchdog, and then main().      *)
AwaitClient ==
  /\ pc = "await"
  /\ sr \notin {"listen", "synrecv", "synack"}
  /\ UNCHANGED <<chipVars, tx_pointer, want, received, dst, said, heard, sent,
                 history>>
  /\ CASE sr \in {"established", "close_wait"} -> Goto("free") /\ todo' = <<Banner>>
       [] sr = "closed" -> Goto("discon") /\ UNCHANGED todo
       [] OTHER -> Goto("panic") /\ UNCHANGED todo

-----------------------------------------------------------------------------
(* socket_t::write(), and print() which calls it.                          *)

(* assert(free > len).                                                     *)
WriteFree ==
  /\ pc = "free"
  /\ Stable
  /\ UNCHANGED <<chipVars, callVars, said, heard, sent, history>>
  /\ Goto(IF last > Len(Head(todo)) THEN "pointer" ELSE "panic")

(* Nothing waits for the last SEND: what it has still to transmit is       *)
(* overwritten.                                                            *)
WritePointer ==
  /\ pc = "pointer"
  /\ Stable
  /\ tx_pointer' = last
  /\ misplaced' = (misplaced \/ last # tx_wr)
  /\ Goto("data")
  /\ UNCHANGED <<chipVars, want, received, dst, todo, said, heard, sent, early>>

(* A burst into the TX buffer; the chip wraps the address.                 *)
WriteData ==
  /\ pc = "data"
  /\ LET m == Head(todo)
     IN  /\ tx' = [a \in 0..(TxSize - 1) |->
                     LET i == 1 + ((a - tx_pointer) % TxSize)
                     IN  IF i <= Len(m) THEN m[i] ELSE tx[a]]
         /\ said' = said \o m
  /\ Goto("send")
  /\ UNCHANGED <<sr, tx_rd, tx_wr, unacked, sending, rx, callVars, heard, sent,
                 history>>

(* Mutant: the byte after the data is sent too.                            *)
WriteSendMore ==
  /\ pc = "send"
  /\ tx_wr' = (tx_pointer + Len(Head(todo)) + 1) % Word
  /\ sending' = (sr \in {"established", "close_wait"})
  /\ todo' = Tail(todo)
  /\ UNCHANGED <<sr, tx, tx_rd, unacked, rx, tx_pointer, want, received, dst,
                 said, heard, sent, history>>
  /\ Goto(IF Tail(todo) # << >> THEN "free"
          ELSE IF dst = << >> THEN "wait" ELSE "discon")

(* TX_WR past the data, SEND; then the next write, or handle_client()      *)
(* goes on.                                                                *)
WriteSend ==
  /\ pc = "send"
  /\ tx_wr' = (tx_pointer + Len(Head(todo))) % Word
  /\ sending' = (sr \in {"established", "close_wait"})
  /\ todo' = Tail(todo)
  /\ UNCHANGED <<sr, tx, tx_rd, unacked, rx, tx_pointer, want, received, dst,
                 said, heard, sent, history>>
  /\ Goto(IF Tail(todo) # << >> THEN "free"
          ELSE IF dst = << >> THEN "wait" ELSE "discon")

-----------------------------------------------------------------------------
(* handle_client(): while (sock.avail() == 0){}, then read_avail().        *)

WaitData ==
  /\ pc = "wait"
  /\ Stable
  /\ UNCHANGED <<chipVars, callVars, said, heard, sent, history>>
  /\ Goto(IF last = 0 THEN "wait" ELSE "size")

ReadAvail ==
  /\ pc = "size"
  /\ Stable
  /\ want' = Minimum(ReadMax, last)
  /\ received' = 0
  /\ UNCHANGED <<chipVars, tx_pointer, dst, todo, said, heard, sent, history>>
  /\ Goto("exact")

(* execute_command() writes an answer of its choice.                       *)
Execute ==
  \E a \in Answers :
    /\ todo' = a
    /\ Goto(IF a = << >> THEN "discon" ELSE "free")

(* Mutant: as much as there is, whatever was asked for.                    *)
ChunkAll == last

(* Mutant: byte by byte, which dst[0..] does not support.                  *)
ChunkByte == Minimum(last, 1)

Chunk == Minimum(last, want)

(* One turn of read_exact()'s loop.  Data goes to dst[0..], whatever was   *)
(* received before, and the number still to come is never reduced.         *)
ReadExact ==
  /\ pc = "exact"
  /\ Stable
  /\ UNCHANGED <<sr, tx, tx_rd, tx_wr, unacked, sending, tx_pointer, want, said,
                 heard, sent, history>>
  /\ IF Chunk > 0
       THEN /\ dst' = SubSeq(rx, 1, Chunk) \o SubSeq(dst, Chunk + 1, Len(dst))
            /\ rx' = SubSeq(rx, Chunk + 1, Len(rx))
            /\ received' = received + Chunk
            /\ IF received' = want THEN Execute
                                   ELSE Goto("exact") /\ UNCHANGED todo
       ELSE /\ Goto(IF sr = "established" THEN "exact" ELSE "panic")
            /\ UNCHANGED <<rx, received, dst, todo>>

-----------------------------------------------------------------------------
(* socket_t::disconnect().                                                 *)

Disconnect ==
  /\ pc = "discon"
  /\ Goto("closing")
  /\ sr' = CASE sr = "established" -> "fin_wait"
             [] sr = "close_wait"  -> "last_ack"
             [] OTHER              -> sr
  /\ UNCHANGED <<tx, tx_rd, tx_wr, unacked, sending, rx, callVars, said, heard,
                 sent, history>>

(* Mutant: the simultaneous close is forgotten.                            *)
AwaitClosedNoClosing ==
  /\ pc = "closing"
  /\ sr \notin {"time_wait", "fin_wait"}
  /\ Goto(IF sr = "closed" THEN "open" ELSE "panic")
  /\ UNCHANGED <<chipVars, callVars, said, heard, sent, history>>

AwaitClosed ==
  /\ pc = "closing"
  /\ sr \notin {"closing", "time_wait", "fin_wait"}
  /\ Goto(IF sr = "closed" THEN "open" ELSE "panic")
  /\ UNCHANGED <<chipVars, callVars, said, heard, sent, history>>

Driver ==
  \/ ReadHigh
  \/ ReadAgain
  \/ Boot
  \/ OpenSocket
  \/ ListenCommand
  \/ AwaitClient
  \/ WriteFree
  \/ WritePointer
  \/ WriteData
  \/ WriteSend
  \/ WaitData
  \/ ReadAvail
  \/ ReadExact
  \/ Disconnect
  \/ AwaitClosed

(* Mutant: the watchdog is reloaded while the connection closes.           *)
GuardedServing == Handling \cup {"open", "listen"}

(* The phases in which nothing reloads the watchdog: listen()'s loop does, *)
(* and main() when a client has connected.                                 *)
Guarded == Handling \cup {"discon", "closing", "open", "listen"}

Watchdog ==
  /\ pc \in Guarded
  /\ Goto("boot")
  /\ UNCHANGED <<chipVars, callVars, said, heard, sent, history>>

-----------------------------------------------------------------------------
(* The chip and the client.                                                *)

(* The TCP connection is set up; a client may leave at any time.           *)
Handshake ==
  /\ \/ sr = "listen" /\ sr' \in {"synrecv", "synack"}
     \/ sr \in {"synrecv", "synack"} /\ sr' = "established"
  /\ UNCHANGED <<tx, tx_rd, tx_wr, unacked, sending, rx, pc, readVars, callVars,
                 said, heard, sent, history>>

(* Some of the pending bytes go out.  After a misplaced write() TX_WR may  *)
(* be behind TX_RD; what a chip does then is not documented: this one      *)
(* transmits nothing, and no property is about it.                         *)
Transmit ==
  /\ sending
  /\ sr \in {"established", "close_wait", "fin_wait", "last_ack"}
  /\ Pending <= TxSize - unacked
  /\ \E n \in 0..Pending :
       /\ n > 0 \/ Pending = 0
       /\ heard' = heard \o [i \in 1..n |-> tx[(tx_rd + i - 1) % TxSize]]
       /\ tx_rd' = (tx_rd + n) % Word
       /\ unacked' = unacked + n
       /\ sending' = (n < Pending)
  /\ UNCHANGED <<sr, tx, tx_wr, rx, pc, high, last, callVars, said, sent, history>>
  /\ Observe

Acknowledge ==
  /\ unacked > 0
  /\ unacked' = 0
  /\ UNCHANGED <<sr, tx, tx_rd, tx_wr, sending, rx, pc, high, last, callVars,
                 said, heard, sent, history>>
  /\ Observe

(* A segment of the client's line arrives.                                 *)
Receive ==
  /\ sr \in {"established", "fin_wait"}
  /\ \E j \in (Len(sent) + 1)..Len(Line) :
       LET segment == SubSeq(Line, Len(sent) + 1, j)
       IN  /\ sent' = sent \o segment
           /\ rx' = rx \o segment
  /\ UNCHANGED <<sr, tx, tx_rd, tx_wr, unacked, sending, pc, high, last,
                 callVars, said, heard, history>>
  /\ Observe

(* The client closes its end, and the connection goes its way down.        *)
ClientClose ==
  /\ \/ sr = "established" /\ sr' = "close_wait" /\ early' = TRUE
     \/ sr = "fin_wait" /\ sr' \in {"closing", "time_wait"} /\ UNCHANGED early
     \/ sr = "closing" /\ sr' = "time_wait" /\ UNCHANGED early
     \/ sr \in {"time_wait", "last_ack"} /\ sr' = "closed" /\ UNCHANGED early
  /\ UNCHANGED <<tx, tx_rd, tx_wr, unacked, sending, rx, pc, readVars, callVars,
                 said, heard, sent, misplaced>>

(* The client resets the connection, or the chip gives up on it.           *)
Abort ==
  /\ sr \in {"synrecv", "synack", "established", "close_wait", "fin_wait"}
  /\ sr' = "closed"
  /\ sending' = FALSE
  /\ early' = (early \/ pc \notin {"discon", "closing"})
  /\ UNCHANGED <<tx, tx_rd, tx_wr, unacked, rx, pc, readVars, callVars, said,
                 heard, sent, misplaced>>

Next ==
  \/ Driver
  \/ Watchdog
  \/ Handshake
  \/ Transmit
  \/ Acknowledge
  \/ Receive
  \/ ClientClose
  \/ Abort

Spec == Init /\ [][Next]_vars

(* The MCU runs and its watchdog counts.  The client and the network owe   *)
(* nothing.                                                                *)
FairSpec == Spec /\ WF_vars(Driver) /\ WF_vars(Watchdog)

-----------------------------------------------------------------------------
(* Properties.                                                             *)

(* What the program reads is a prefix of what this client sent: nothing of *)
(* an earlier connection, nothing twice, no gap.                           *)
InboundSpec == Inbound!Spec

(* What the client hears is a prefix of what this connection printed, as   *)
(* long as every write() is told where the last one ended: the polling and *)
(* the pointers add no flaw to the one of WrittenSpec.                     *)
OutboundSpec == Outbound!Spec

(* write() writes data to the socket: whatever the program prints, the     *)
(* client hears a prefix of it.                                            *)
WrittenSpec == Written!Spec

(* read_u16_stable() returns a value the register did have at some moment  *)
(* of the call, although its two bytes are read apart and the register may *)
(* wrap.  Sn_TX_FSR is left out once a write() was misplaced: what it holds*)
(* with TX_WR behind TX_RD is not documented.                              *)
StableHeld ==
  pc \in Polling /\ Stable /\ (pc = "free" => ~misplaced) => last \in held

(* The program panics on a socket status or an assertion only when the     *)
(* client has left before disconnect(), or after a write() was misplaced.  *)
PanicOnlyIfLeft == pc = "panic" => early \/ misplaced

(* The watchdog runs out between OPEN and the first turn of listen()'s     *)
(* loop, a few SPI commands later.                                         *)
Hurried == Watchdog /\ pc \in {"open", "listen"}

(* Whatever the clients do, the program awaits a client again and again,   *)
(* unless again and again the watchdog does not leave it the time to.      *)
AwaitsAgain == <>[][~Hurried]_vars => []<>(pc = "await")
=============================================================================
