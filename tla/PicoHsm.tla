------------------------------ MODULE PicoHsm ------------------------------
(***************************************************************************)
(* The two microcontrollers of the picoHSM and the serial line between     *)
(* them, one byte per step.                                                *)
(*                                                                         *)
(*   client --TCP--> MCU (STM32, firmware-mcu) <==UART==> SEC (ATmega,     *)
(*                                                        firmware-sec)    *)
(*                                                                         *)
(* The MCU parses one command per connection and speaks an opcode /        *)
(* acknowledge protocol to the SEC, which holds the PIN and the keys.      *)
(* There is no framing, no timeout on reception and no resynchronisation:  *)
(* what keeps the two in step is that the MCU resets the SEC and flushes   *)
(* its ring before every connection, and that a watchdog resets the MCU.   *)
(*                                                                         *)
(* The receive rings are the FIFO queues RxRing implements.  Bytes on the  *)
(* line may be lost (at most MaxLoss between two SEC resets), and the line *)
(* may yield garbage while the SEC is in reset (at most MaxGlitch bytes).  *)
(***************************************************************************)
EXTENDS Naturals, Sequences

CONSTANTS
  Command,              \* the lines a client may send, as records
  Pin,                  \* the PIN stored in the SEC
  PinLen,               \* 8
  BlockLen,             \* AES_BLOCK_SIZE, 16
  KeyCount,             \* KEY_COUNT, 8
  LockedKeys,           \* aes_key_locked: {2}
  MaxBlocks,            \* blocks in the MCU's 256-byte buffer, 16
  McuCap,               \* bytes the MCU's receive ring holds, 255
  SecCap,               \* bytes the SEC's receive ring holds, 63
  Garbage,              \* bytes a glitch of the line may be received as
  MaxLoss,
  MaxGlitch,
  BlockCipher(_, _),
  BlockDecipher(_, _),
  XorBlock(_, _)

ASSUME SizeAssumption ==
  /\ PinLen \in Nat \ {0}
  /\ BlockLen \in Nat \ {0}
  /\ KeyCount \in 1..256
  /\ MaxBlocks \in 1..255
  /\ McuCap \in Nat \ {0}
  /\ SecCap \in Nat \ {0}
  /\ MaxLoss \in Nat
  /\ MaxGlitch \in Nat

ASSUME PinAssumption == Len(Pin) = PinLen
ASSUME KeyAssumption == LockedKeys \subseteq 0..(KeyCount - 1)

VARIABLES
  \* The MCU
  mpc,      \* where its main loop is
  cmd,      \* the parsed command of the connection
  pos,      \* bytes of the PIN or of the block transmitted so far
  blk,      \* the block of cmd.data being processed, from 1
  resp,     \* the response bytes received so far
  reply,    \* what was printed on the socket, one element per print
  mring,    \* usart2_rx_buf
  \* The SEC
  spc,      \* where its main loop is; "off": held in reset
  ins,      \* the instruction being executed
  buf,      \* the PIN or block bytes read, or the result bytes to write
  key,      \* key_id
  iv,       \* ctx.Iv
  left,     \* blocks still to be processed: block_count - i
  sring,    \* uart_ring_buffer
  \* The serial line
  toSec,    \* the byte in the MCU's transmitter
  toMcu,    \* the bytes in the SEC's transmitter: shift register and UDR0
  losses,   \* bytes lost since the SEC was last reset
  glitches  \* garbage bytes received since the SEC was last reset

mcuVars == <<mpc, cmd, pos, blk, resp, reply>>
secVars == <<spc, ins, buf, key, iv, left>>
noise == <<losses, glitches>>
vars == <<mcuVars, mring, secVars, sring, toSec, toMcu, noise>>

-----------------------------------------------------------------------------

(* Opcodes and status bytes, the same in both programs.                    *)
INS_VERIFY_PIN == 1
INS_ENCRYPT == 2
INS_DECRYPT == 3
STATUS_OK == 1
STATUS_BAD_PIN == 2
STATUS_KEY_LOCKED == 3

ZeroBlock == [i \in 1..BlockLen |-> 0]

Service == INSTANCE HsmService WITH
  serving <- mpc \notin {"boot", "reset_low", "reset_high", "flush", "listen"}

NoCommand == Service!NoCommand
Byte == 0..255

(* What a client's line holds when it is well formed: usart_t::tx() and    *)
(* hex_to_bytes() deal in bytes, hex_string_valid() asks for whole blocks. *)
ASSUME CommandAssumption ==
  \A c \in Command : Service!WellFormed(c) =>
    /\ c.pin \in Seq(Byte)
    /\ Service!IsCrypto(c) => /\ c.key \in Nat
                              /\ c.data \in Seq([1..BlockLen -> Byte])
ASSUME RequestAssumption == NoCommand \notin Command
ASSUME GarbageAssumption == Garbage \subseteq Byte

(* Where the MCU waits in usart_t::rx(), and the SEC in uart_read_u8().    *)
Receiving == {"rx_pin", "rx_ack", "rx_key", "rx_block"}
Reading == {"ins", "pin", "key", "count", "block"}

(* Between an accepted connection and the end of handle_client().          *)
Handling == Receiving \cup {"wait_cmd", "exec", "verify_flush", "tx_ins",
                            "tx_pin", "tx_key", "tx_count", "tx_block",
                            "print_end"}

TypeOK ==
  /\ mpc \in Handling \cup {"boot", "reset_low", "reset_high", "flush",
                            "listen", "disconnect"}
  /\ cmd \in Command \cup {NoCommand}
  /\ pos \in 0..PinLen \cup 0..BlockLen
  /\ blk \in 0..MaxBlocks
  /\ resp \in Seq(Byte) /\ Len(resp) < BlockLen
  /\ mring \in Seq(Byte) /\ Len(mring) <= McuCap
  /\ spc \in Reading \cup {"off", "init", "status", "key_status", "reply"}
  /\ ins \in 0..3
  /\ buf \in Seq(Byte)
  /\ key \in 0..(KeyCount - 1)
  /\ iv \in [1..BlockLen -> Byte]
  /\ left \in Byte
  /\ sring \in Seq(Byte) /\ Len(sring) <= SecCap
  /\ toSec \in Seq(Byte) /\ Len(toSec) <= 1
  /\ toMcu \in Seq(Byte) /\ Len(toMcu) <= 2
  /\ losses \in 0..MaxLoss
  /\ glitches \in 0..MaxGlitch

Init ==
  /\ mpc = "boot"
  /\ cmd = NoCommand
  /\ pos = 0
  /\ blk = 0
  /\ resp = << >>
  /\ reply = << >>
  /\ mring = << >>
  /\ spc = "init"
  /\ ins = 0
  /\ buf = << >>
  /\ key = 0
  /\ iv = ZeroBlock
  /\ left = 0
  /\ sring = << >>
  /\ toSec = << >>
  /\ toMcu = << >>
  /\ losses = 0
  /\ glitches = 0

-----------------------------------------------------------------------------
(* An operator whose comment begins with "Mutant" is no part of the        *)
(* specification: it is a plausible wrong version of the definition after  *)
(* it, which the properties must refute.                                   *)

(* Mutant: tx() does not wait.                                             *)
TxNoWait(b) == toSec' = Append(toSec, b)

(* usart_t::tx() waits for TC: one byte at most is in the transmitter.     *)
Tx(b) ==
  /\ toSec = << >>
  /\ toSec' = <<b>>

(* usart_t::rx() and uart_read_u8() wait for a byte in the ring.           *)
Rx ==
  /\ mring # << >>
  /\ mring' = Tail(mring)

uart_read_u8 ==
  /\ sring # << >>
  /\ sring' = Tail(sring)

(* uart_write_u8() waits for UDRE: a second byte may wait in UDR0.         *)
uart_write_u8(b) ==
  /\ Len(toMcu) < 2
  /\ toMcu' = Append(toMcu, b)

sock_print(piece) == reply' = Append(reply, piece)

(* The SEC's memory after a reset: nothing of the last command survives.   *)
SecOff ==
  /\ spc' = "off"
  /\ ins' = 0
  /\ buf' = << >>
  /\ key' = 0
  /\ iv' = ZeroBlock
  /\ left' = 0
  /\ sring' = << >>
  /\ toSec' = << >>
  /\ toMcu' = << >>
  /\ losses' = 0
  /\ glitches' = 0

-----------------------------------------------------------------------------
(* The MCU: main().                                                        *)

(* From reset to the main loop.  PA11 becomes an output at level 0 before  *)
(* the USART is enabled, so the SEC is already held in reset.              *)
McuBoot ==
  /\ mpc = "boot"
  /\ mpc' = "reset_low"
  /\ mring' = << >>
  /\ SecOff
  /\ UNCHANGED <<cmd, pos, blk, resp, reply>>

(* sec_reset(): PA11 low, a delay, PA11 high, a delay.                     *)
SecResetLow ==
  /\ mpc = "reset_low"
  /\ mpc' = "reset_high"
  /\ SecOff
  /\ UNCHANGED <<cmd, pos, blk, resp, reply, mring>>

SecResetHigh ==
  /\ mpc = "reset_high"
  /\ mpc' = "flush"
  /\ spc' = IF spc = "off" THEN "init" ELSE spc
  /\ UNCHANGED <<cmd, pos, blk, resp, reply, mring, ins, buf, key, iv, left,
                 sring, toSec, toMcu, noise>>

(* Mutant: the ring is not flushed after the SEC was reset.                *)
McuFlushMissing ==
  /\ mpc = "flush"
  /\ spc \notin {"off", "init"}
  /\ toMcu = << >>
  /\ mpc' = "listen"
  /\ UNCHANGED <<cmd, pos, blk, resp, reply, mring, secVars, sring, toSec,
                 toMcu, noise>>

(* usart_sec.flush(), a delay of 1000000 loops after PA11 went high: the   *)
(* SEC has booted and no byte is on the line any more.                     *)
McuFlush ==
  /\ mpc = "flush"
  /\ spc \notin {"off", "init"}
  /\ toMcu = << >>
  /\ mring' = << >>
  /\ mpc' = "listen"
  /\ UNCHANGED <<cmd, pos, blk, resp, reply, secVars, sring, toSec, toMcu,
                 noise>>

(* sock.listen() returns true: a client is connected.                      *)
Connect ==
  /\ mpc = "listen"
  /\ mpc' = "wait_cmd"
  /\ UNCHANGED <<cmd, pos, blk, resp, reply, mring, secVars, sring, toSec,
                 toMcu, noise>>

(* sock.listen() returns false; disconnect() of a closed socket is void.   *)
ListenFails ==
  /\ mpc = "listen"
  /\ mpc' = "reset_low"
  /\ UNCHANGED <<cmd, pos, blk, resp, reply, mring, secVars, sring, toSec,
                 toMcu, noise>>

(* handle_client(): the client's line has come and is parsed.              *)
ReadCommand(c) ==
  /\ mpc = "wait_cmd"
  /\ cmd' = c
  /\ mpc' = "exec"
  /\ UNCHANGED <<pos, blk, resp, reply, mring, secVars, sring, toSec, toMcu,
                 noise>>

(* execute_command(): the dispatch and the checks of the arguments.        *)
Execute ==
  /\ mpc = "exec"
  /\ IF Service!WellFormed(cmd)
       THEN /\ mpc' = IF cmd.ins = "pin" THEN "verify_flush" ELSE "tx_ins"
            /\ UNCHANGED reply
       ELSE /\ mpc' = "disconnect"
            /\ sock_print(Service!Text)
  /\ UNCHANGED <<cmd, pos, blk, resp, mring, secVars, sring, toSec, toMcu,
                 noise>>

(* verify_pin() flushes the ring; encrypt and decrypt do not.              *)
VerifyPinFlush ==
  /\ mpc = "verify_flush"
  /\ mring' = << >>
  /\ mpc' = "tx_ins"
  /\ UNCHANGED <<cmd, pos, blk, resp, reply, secVars, sring, toSec, toMcu,
                 noise>>

Opcode(c) ==
  CASE c.ins = "pin"     -> INS_VERIFY_PIN
    [] c.ins = "encrypt" -> INS_ENCRYPT
    [] c.ins = "decrypt" -> INS_DECRYPT

TxIns ==
  /\ mpc = "tx_ins"
  /\ Tx(Opcode(cmd))
  /\ mpc' = "tx_pin"
  /\ pos' = 0
  /\ UNCHANGED <<cmd, blk, resp, reply, mring, secVars, sring, toMcu, noise>>

TxPin ==
  /\ mpc = "tx_pin"
  /\ Tx(cmd.pin[pos + 1])
  /\ IF pos + 1 < PinLen
       THEN pos' = pos + 1 /\ UNCHANGED mpc
       ELSE pos' = 0 /\ mpc' = IF cmd.ins = "pin" THEN "rx_pin" ELSE "rx_ack"
  /\ UNCHANGED <<cmd, blk, resp, reply, mring, secVars, sring, toMcu, noise>>

(* The answer to INS_VERIFY_PIN: whatever is not OK is an invalid PIN.     *)
RxPin ==
  /\ mpc = "rx_pin"
  /\ Rx
  /\ sock_print(IF Head(mring) = STATUS_OK THEN Service!Ok ELSE Service!BadPin)
  /\ mpc' = "disconnect"
  /\ UNCHANGED <<cmd, pos, blk, resp, secVars, sring, toSec, toMcu, noise>>

Unexpected == <<"unexpected">>

RxAck ==
  /\ mpc = "rx_ack"
  /\ Rx
  /\ IF Head(mring) = STATUS_OK
       THEN mpc' = "tx_key" /\ UNCHANGED reply
       ELSE /\ mpc' = "disconnect"
            /\ sock_print(IF Head(mring) = STATUS_BAD_PIN THEN Service!BadPin
                                                     ELSE Unexpected)
  /\ UNCHANGED <<cmd, pos, blk, resp, secVars, sring, toSec, toMcu, noise>>

TxKey ==
  /\ mpc = "tx_key"
  /\ Tx(cmd.key)
  /\ mpc' = "rx_key"
  /\ UNCHANGED <<cmd, pos, blk, resp, reply, mring, secVars, sring, toMcu,
                 noise>>

RxKey ==
  /\ mpc = "rx_key"
  /\ Rx
  /\ IF Head(mring) = STATUS_OK
       THEN mpc' = "tx_count" /\ UNCHANGED reply
       ELSE /\ mpc' = "disconnect"
            /\ sock_print(IF Head(mring) = STATUS_KEY_LOCKED
                        THEN Service!KeyLocked ELSE Unexpected)
  /\ UNCHANGED <<cmd, pos, blk, resp, secVars, sring, toSec, toMcu, noise>>

TxCount ==
  /\ mpc = "tx_count"
  /\ Tx(Len(cmd.data))
  /\ mpc' = "tx_block"
  /\ blk' = 1
  /\ UNCHANGED <<cmd, pos, resp, reply, mring, secVars, sring, toMcu, noise>>

(* Mutant: all blocks go out before any response is read.                  *)
TxAllBlocks ==
  /\ mpc = "tx_block"
  /\ Tx(cmd.data[blk][pos + 1])
  /\ IF pos + 1 < BlockLen
       THEN pos' = pos + 1 /\ UNCHANGED <<blk, mpc>>
       ELSE /\ pos' = 0
            /\ IF blk < Len(cmd.data)
                 THEN blk' = blk + 1 /\ UNCHANGED mpc
                 ELSE blk' = 1 /\ mpc' = "rx_block"
  /\ UNCHANGED <<cmd, resp, reply, mring, secVars, sring, toMcu, noise>>

(* One block goes out whole before any byte of its response is read.       *)
TxBlock ==
  /\ mpc = "tx_block"
  /\ Tx(cmd.data[blk][pos + 1])
  /\ IF pos + 1 < BlockLen
       THEN pos' = pos + 1 /\ UNCHANGED mpc
       ELSE pos' = 0 /\ mpc' = "rx_block"
  /\ UNCHANGED <<cmd, blk, resp, reply, mring, secVars, sring, toMcu, noise>>

RxBlock ==
  /\ mpc = "rx_block"
  /\ Rx
  /\ IF Len(resp) + 1 < BlockLen
       THEN /\ resp' = Append(resp, Head(mring))
            /\ UNCHANGED <<mpc, blk, reply>>
       ELSE /\ resp' = << >>
            /\ sock_print(Service!Block(Append(resp, Head(mring))))
            /\ IF blk < Len(cmd.data)
                 THEN blk' = blk + 1 /\ mpc' = "tx_block"
                 ELSE blk' = 0 /\ mpc' = "print_end"
  /\ UNCHANGED <<cmd, pos, secVars, sring, toSec, toMcu, noise>>

PrintEnd ==
  /\ mpc = "print_end"
  /\ sock_print(Service!End)
  /\ mpc' = "disconnect"
  /\ UNCHANGED <<cmd, pos, blk, resp, mring, secVars, sring, toSec, toMcu,
                 noise>>

(* sock.disconnect(), and the main loop starts again.                      *)
Disconnect ==
  /\ mpc = "disconnect"
  /\ mpc' = "reset_low"
  /\ cmd' = NoCommand
  /\ reply' = << >>
  /\ UNCHANGED <<pos, blk, resp, mring, secVars, sring, toSec, toMcu, noise>>

(* A reset of the MCU stops its USART, and the SEC's clock (see Clocked).  *)
McuReset ==
  /\ mpc' = "boot"
  /\ cmd' = NoCommand
  /\ pos' = 0
  /\ blk' = 0
  /\ resp' = << >>
  /\ reply' = << >>
  /\ mring' = << >>
  /\ toSec' = << >>
  /\ UNCHANGED <<secVars, sring, toMcu, noise>>

(* Mutant: handle_client() reloads the watchdog while it awaits a line.    *)
WatchdogSinceCommand ==
  /\ mpc \notin {"boot", "listen", "wait_cmd"}
  /\ McuReset

(* The watchdog is reloaded by the loop of listen() and when a connection  *)
(* was accepted, and counts everywhere else.                               *)
Watchdog ==
  /\ mpc \notin {"boot", "listen"}
  /\ McuReset

(* panic(), on a socket state listen() or disconnect() does not expect, or *)
(* the watchdog, before the first turn of listen()'s loop.                 *)
Panic ==
  /\ mpc \in {"listen", "disconnect"}
  /\ McuReset

McuStep ==
  \/ McuBoot
  \/ SecResetLow
  \/ SecResetHigh
  \/ McuFlush
  \/ Execute
  \/ VerifyPinFlush
  \/ TxIns
  \/ TxPin
  \/ RxPin
  \/ RxAck
  \/ TxKey
  \/ RxKey
  \/ TxCount
  \/ TxBlock
  \/ RxBlock
  \/ PrintEnd
  \/ Disconnect

-----------------------------------------------------------------------------
(* The SEC: main().                                                        *)

(* The SEC runs on the clock the MCU outputs on its MCO1 pin, which a      *)
(* reset of the MCU stops until configure_clock() has run: meanwhile it is *)
(* frozen, and its UART with it.                                           *)
Clocked == mpc # "boot"

(* uart_init(); a reset has emptied the ring already.                      *)
SecInit ==
  /\ spc = "init"
  /\ spc' = "ins"
  /\ sring' = << >>
  /\ UNCHANGED <<mcuVars, mring, ins, buf, key, iv, left, toSec, toMcu, noise>>

(* The instruction byte; an unknown one is skipped.                        *)
SecReadIns ==
  /\ spc = "ins"
  /\ uart_read_u8
  /\ IF Head(sring) \in {INS_VERIFY_PIN, INS_ENCRYPT, INS_DECRYPT}
       THEN spc' = "pin" /\ ins' = Head(sring)
       ELSE UNCHANGED <<spc, ins>>
  /\ UNCHANGED <<mcuVars, mring, buf, key, iv, left, toSec, toMcu, noise>>

(* Mutant: off by one in the loop over the digits.                         *)
SecReadPinOneMore ==
  /\ spc = "pin"
  /\ uart_read_u8
  /\ buf' = Append(buf, Head(sring))
  /\ spc' = IF Len(buf') > PinLen THEN "status" ELSE "pin"
  /\ UNCHANGED <<mcuVars, mring, ins, key, iv, left, toSec, toMcu, noise>>

(* verify_pin(): read the digits.                                          *)
SecReadPin ==
  /\ spc = "pin"
  /\ uart_read_u8
  /\ buf' = Append(buf, Head(sring))
  /\ spc' = IF Len(buf') = PinLen THEN "status" ELSE "pin"
  /\ UNCHANGED <<mcuVars, mring, ins, key, iv, left, toSec, toMcu, noise>>

(* verify_pin(): compare them; answer.                                     *)
SecStatus ==
  /\ spc = "status"
  /\ IF buf = Pin
       THEN /\ uart_write_u8(STATUS_OK)
            /\ spc' = IF ins = INS_VERIFY_PIN THEN "ins" ELSE "key"
       ELSE /\ uart_write_u8(STATUS_BAD_PIN)
            /\ spc' = "ins"
  /\ buf' = << >>
  /\ UNCHANGED <<mcuVars, mring, ins, key, iv, left, sring, toSec, noise>>

SecReadKey ==
  /\ spc = "key"
  /\ uart_read_u8
  /\ key' = Head(sring) % KeyCount
  /\ spc' = "key_status"
  /\ UNCHANGED <<mcuVars, mring, ins, buf, iv, left, toSec, toMcu, noise>>

(* Mutant: no acknowledgement of the key.                                  *)
SecKeyStatusSilent ==
  /\ spc = "key_status"
  /\ IF key \in LockedKeys
       THEN uart_write_u8(STATUS_KEY_LOCKED) /\ spc' = "ins" /\ UNCHANGED iv
       ELSE /\ spc' = "count"
            /\ iv' = ZeroBlock
            /\ UNCHANGED toMcu
  /\ UNCHANGED <<mcuVars, mring, ins, buf, key, left, sring, toSec, noise>>

(* Answer, and AES_init_ctx_iv() with a zero vector.                       *)
SecKeyStatus ==
  /\ spc = "key_status"
  /\ IF key \in LockedKeys
       THEN uart_write_u8(STATUS_KEY_LOCKED) /\ spc' = "ins" /\ UNCHANGED iv
       ELSE /\ uart_write_u8(STATUS_OK)
            /\ spc' = "count"
            /\ iv' = ZeroBlock
  /\ UNCHANGED <<mcuVars, mring, ins, buf, key, left, sring, toSec, noise>>

SecReadCount ==
  /\ spc = "count"
  /\ uart_read_u8
  /\ left' = Head(sring)
  /\ spc' = IF Head(sring) = 0 THEN "ins" ELSE "block"
  /\ UNCHANGED <<mcuVars, mring, ins, buf, key, iv, toSec, toMcu, noise>>

(* AES_CBC_encrypt_buffer() and AES_CBC_decrypt_buffer() of one block,     *)
(* with the chaining vector kept in ctx.                                   *)
CbcEncrypt(block) ==
  LET out == BlockCipher(key, XorBlock(block, iv))
  IN  buf' = out /\ iv' = out

CbcDecrypt(block) ==
  /\ buf' = XorBlock(BlockDecipher(key, block), iv)
  /\ iv' = block

SecReadBlock ==
  /\ spc = "block"
  /\ uart_read_u8
  /\ LET block == Append(buf, Head(sring))
     IN  IF Len(block) < BlockLen
           THEN buf' = block /\ UNCHANGED <<spc, iv>>
           ELSE /\ spc' = "reply"
                /\ IF ins = INS_ENCRYPT THEN CbcEncrypt(block)
                                        ELSE CbcDecrypt(block)
  /\ UNCHANGED <<mcuVars, mring, ins, key, left, toSec, toMcu, noise>>

(* uart_write_buf(), and the next turn of the loop over the blocks.        *)
SecWriteBlock ==
  /\ spc = "reply"
  /\ uart_write_u8(Head(buf))
  /\ buf' = Tail(buf)
  /\ IF buf' # << >>
       THEN UNCHANGED <<spc, left>>
       ELSE /\ left' = left - 1
            /\ spc' = IF left' = 0 THEN "ins" ELSE "block"
  /\ UNCHANGED <<mcuVars, mring, ins, key, iv, sring, toSec, noise>>

SecStep ==
  /\ Clocked
  /\ \/ SecInit
     \/ SecReadIns
     \/ SecReadPin
     \/ SecStatus
     \/ SecReadKey
     \/ SecKeyStatus
     \/ SecReadCount
     \/ SecReadBlock
     \/ SecWriteBlock

-----------------------------------------------------------------------------
(* The serial line and the receive interrupts.                             *)

(* USART0_RX_vect: a byte is dropped when the ring is full.                *)
DeliverToSec ==
  /\ Clocked
  /\ toSec # << >>
  /\ toSec' = << >>
  /\ sring' = IF Len(sring) < SecCap THEN sring \o toSec ELSE sring
  /\ UNCHANGED <<mcuVars, mring, secVars, toMcu, noise>>

(* usart2_handler().                                                       *)
DeliverToMcu ==
  /\ Clocked
  /\ toMcu # << >>
  /\ toMcu' = Tail(toMcu)
  /\ mring' = IF Len(mring) < McuCap THEN Append(mring, Head(toMcu)) ELSE mring
  /\ UNCHANGED <<mcuVars, secVars, sring, toSec, noise>>

LoseToSec ==
  /\ toSec # << >>
  /\ losses < MaxLoss
  /\ toSec' = << >>
  /\ losses' = losses + 1
  /\ UNCHANGED <<mcuVars, mring, secVars, sring, toMcu, glitches>>

LoseToMcu ==
  /\ toMcu # << >>
  /\ losses < MaxLoss
  /\ toMcu' = Tail(toMcu)
  /\ losses' = losses + 1
  /\ UNCHANGED <<mcuVars, mring, secVars, sring, toSec, glitches>>

(* The SEC's TX pin is not driven while the SEC is in reset.               *)
Glitch(g) ==
  /\ spc \in {"off", "init"}
  /\ glitches < MaxGlitch
  /\ toMcu = << >>
  /\ toMcu' = <<g>>
  /\ glitches' = glitches + 1
  /\ UNCHANGED <<mcuVars, mring, secVars, sring, toSec, losses>>

-----------------------------------------------------------------------------

Next ==
  \/ McuStep
  \/ SecStep
  \/ DeliverToSec
  \/ DeliverToMcu
  \/ Connect
  \/ ListenFails
  \/ \E c \in Command : ReadCommand(c)
  \/ Watchdog
  \/ Panic
  \/ LoseToSec
  \/ LoseToMcu
  \/ \E g \in Garbage : Glitch(g)

Spec == Init /\ [][Next]_vars

(* Both processors run, and bytes on the line arrive.  Clients owe nothing.*)
Progress ==
  /\ WF_vars(McuStep)
  /\ WF_vars(SecStep)
  /\ WF_vars(DeliverToSec)
  /\ WF_vars(DeliverToMcu)

FairSpec == Spec /\ Progress

-----------------------------------------------------------------------------
(* Properties.                                                             *)

(* The client is served as HsmService says: whatever bytes are lost, what- *)
(* ever the SEC was doing when the MCU was reset, the pieces printed are a *)
(* prefix of the answer to its own command, PIN OK is said only to the     *)
(* right PIN, and a locked key or a wrong PIN yields no block.             *)
ServiceSpec == Service!Spec

(* While the MCU listens or waits for a command, the SEC waits for an      *)
(* instruction and no byte of an earlier exchange is in a ring or on the   *)
(* line: encrypt and decrypt, which do not flush, rely on it.              *)
InStep ==
  mpc \in {"listen", "wait_cmd", "exec"} =>
    /\ spc = "ins"
    /\ mring = << >>
    /\ sring = << >>
    /\ toSec = << >>
    /\ toMcu = << >>

(* While a client is handled no ring drops a byte: neither side is ever so *)
(* far ahead of the other that a received byte finds the ring full.  (What *)
(* is received while the SEC is reset is garbage, and is flushed.)         *)
NoOverrun ==
  mpc \in Handling =>
    /\ toSec # << >> => Len(sring) < SecCap
    /\ toMcu # << >> => Len(mring) < McuCap

(* The two programs never wait for each other: as long as the line has     *)
(* lost nothing, when both wait for a byte one is on its way.              *)
NoMutualWait ==
  /\ losses = 0
  /\ mpc \in Receiving /\ mring = << >>
  /\ spc \in Reading /\ sring = << >>
  => toSec # << >> \/ toMcu # << >>

(* On a line that loses nothing, a command that was read is answered in    *)
(* full, with no help from the watchdog, unless the MCU is reset.          *)
CommandAnswered ==
  [](losses = 0) =>
    (mpc = "exec" ~>
       \/ mpc = "disconnect" /\ Len(reply) = Service!Pieces(cmd)
       \/ mpc = "boot")

(* The watchdog runs out before sec_reset() and flush() are done.          *)
Hurried == Watchdog /\ mpc \in {"reset_low", "reset_high", "flush"}

(* A lost byte leaves both sides waiting and a silent client holds the     *)
(* connection, but the device always comes back to listening, thanks to    *)
(* the independent watchdog, which counts down whatever the MCU is stuck   *)
(* in, unless again and again it does not leave the MCU the time to begin. *)
ListensAgain ==
  WF_vars(Watchdog) /\ <>[][~Hurried]_vars => []<>(mpc = "listen")
=============================================================================
