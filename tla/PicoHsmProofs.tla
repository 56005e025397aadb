---------------------------- MODULE PicoHsmProofs ----------------------------
(***************************************************************************)
(* The protocol between the picoHSM's two processors, for PINs, blocks and *)
(* keys of any number and any lines of a client: the two are in step when  *)
(* a connection begins, no ring overflows, on a line that loses nothing    *)
(* they never wait for each other, and they implement HsmService.          *)
(*                                                                         *)
(* The invariant, IInv, is Typed /\ Flow /\ Answered.  Flow says for each  *)
(* place of the MCU where the SEC is and which bytes are under way, with   *)
(* their values; once a byte is lost, only how many there can be.          *)
(* Answered relates what was printed to the command.                       *)
(***************************************************************************)
EXTENDS PicoHsm, SequenceTheorems, TLAPS

Cipherblock == [1..BlockLen -> Byte]

(* AES maps blocks to blocks.                                              *)
Ciphers ==
  /\ \A k \in 0..(KeyCount - 1), x \in Cipherblock :
       BlockCipher(k, x) \in Cipherblock /\ BlockDecipher(k, x) \in Cipherblock
  /\ \A x, y \in Cipherblock : XorBlock(x, y) \in Cipherblock

(* The rings hold what the protocol may have outstanding: an opcode and a  *)
(* PIN, a count and a block, a block.                                      *)
Roomy == PinLen < SecCap /\ BlockLen < SecCap /\ BlockLen <= McuCap

(* Where the MCU deals with a well-formed command, and with its blocks.    *)
Crypto == {"rx_ack", "tx_key", "rx_key", "tx_count", "tx_block", "rx_block"}
Serving == Crypto \cup {"verify_flush", "tx_ins", "tx_pin", "rx_pin"}

McuTyped ==
  /\ mpc \in Handling \cup {"boot", "reset_low", "reset_high", "flush",
                            "listen", "disconnect"}
  /\ cmd \in Command \cup {NoCommand}
  /\ pos \in Nat
  /\ blk \in 0..MaxBlocks
  /\ resp \in Seq(Byte) /\ Len(resp) < BlockLen
  /\ mpc \in Serving => cmd \in Command /\ Service!WellFormed(cmd)
  /\ mpc \in Crypto => Service!IsCrypto(cmd)
  /\ mpc = "tx_pin" => pos < PinLen
  /\ mpc = "tx_block" => pos < BlockLen
  /\ mpc \notin {"tx_pin", "tx_block"} => pos = 0
  /\ mpc # "rx_block" => resp = << >>
  /\ mpc \in {"tx_block", "rx_block"} => blk \in 1..Len(cmd.data)

SecTyped ==
  /\ spc \in Reading \cup {"off", "init", "status", "key_status", "reply"}
  /\ ins \in 0..3
  /\ buf \in Seq(Byte)
  /\ key \in 0..(KeyCount - 1)
  /\ iv \in Cipherblock
  /\ left \in Byte
  /\ spc = "pin" => Len(buf) < PinLen
  /\ spc = "status" => Len(buf) = PinLen
  /\ spc = "block" => Len(buf) < BlockLen
  /\ spc = "reply" => Len(buf) \in 1..BlockLen
  /\ spc \in {"block", "reply"} => left # 0
  /\ spc \notin {"pin", "status", "block", "reply"} => buf = << >>

LineTyped ==
  /\ mring \in Seq(Byte) /\ Len(mring) <= McuCap
  /\ sring \in Seq(Byte) /\ Len(sring) <= SecCap
  /\ toSec \in Seq(Byte) /\ Len(toSec) <= 1
  /\ toMcu \in Seq(Byte) /\ Len(toMcu) <= 2
  /\ losses \in 0..MaxLoss
  /\ glitches \in 0..MaxGlitch

Typed == McuTyped /\ SecTyped /\ LineTyped

-----------------------------------------------------------------------------
(* Types.                                                                  *)

(* What a well-formed command consists of.                                 *)
LEMMA CommandParts ==
  ASSUME McuTyped, mpc \in Serving
  PROVE  /\ Opcode(cmd) \in 1..3
         /\ cmd.pin \in Seq(Byte) /\ Len(cmd.pin) = PinLen
         /\ Service!IsCrypto(cmd) =>
              /\ cmd.key \in Byte
              /\ cmd.data \in Seq(Cipherblock)
              /\ Len(cmd.data) \in 1..MaxBlocks
<1>1. cmd \in Command /\ Service!WellFormed(cmd)
  BY DEF McuTyped
<1>2. Opcode(cmd) \in 1..3
  BY <1>1 DEF Opcode, Service!WellFormed, Service!IsCrypto,
     INS_VERIFY_PIN, INS_ENCRYPT, INS_DECRYPT
<1>3. cmd.pin \in Seq(Byte) /\ Len(cmd.pin) = PinLen
  BY <1>1, CommandAssumption DEF Service!WellFormed
<1>4. ASSUME Service!IsCrypto(cmd)
      PROVE  /\ cmd.key \in Byte
             /\ cmd.data \in Seq(Cipherblock)
             /\ Len(cmd.data) \in 1..MaxBlocks
  <2>1. cmd.key \in Nat /\ cmd.data \in Seq(Cipherblock)
    BY <1>1, <1>4, CommandAssumption DEF Cipherblock
  <2>2. cmd.key < KeyCount /\ Len(cmd.data) \in 1..MaxBlocks
    BY <1>1, <1>4 DEF Service!WellFormed, Service!IsCrypto
  <2>3. KeyCount \in 1..256
    BY SizeAssumption
  <2>4. ASSUME NEW k \in Nat, k < KeyCount PROVE k \in Byte
    BY <2>3, <2>4 DEF Byte
  <2> QED
    BY <2>1, <2>2, <2>4
<1> QED
  BY <1>2, <1>3, <1>4

LEMMA InitTyped == Init => Typed
<1> SUFFICES ASSUME Init PROVE Typed
  OBVIOUS
<1> USE SizeAssumption DEF Init
<1>1. McuTyped
  BY DEF McuTyped, Handling, Receiving, Serving, Crypto
<1>2. iv \in Cipherblock
  BY DEF Cipherblock, ZeroBlock, Byte
<1>3. SecTyped
  BY <1>2 DEF SecTyped, Reading, Byte
<1>4. LineTyped
  BY DEF LineTyped
<1> QED
  BY <1>1, <1>3, <1>4 DEF Typed

(* A block is a sequence of BlockLen bytes.                                *)
LEMMA WholeBlock ==
  ASSUME NEW x \in Seq(Byte), Len(x) = BlockLen
  PROVE  x \in Cipherblock
BY DEF Cipherblock

(* The MCU's variables keep their types.                                   *)
LEMMA NextMcuTyped == Typed /\ Next => McuTyped'
<1> SUFFICES ASSUME Typed, Next PROVE McuTyped'
  OBVIOUS
<1> USE DEF McuTyped, Handling, Receiving, Serving, Crypto
<1>t. McuTyped /\ mring \in Seq(Byte)
  BY DEF Typed, LineTyped
<1>n. BlockLen \in Nat \ {0} /\ PinLen \in Nat \ {0} /\ MaxBlocks \in 1..255
  BY SizeAssumption
<1>1. CASE UNCHANGED mcuVars
  BY <1>1, <1>t DEF mcuVars
<1>2. CASE McuReset
  BY <1>2, <1>n DEF McuReset
<1>3. CASE McuBoot \/ SecResetLow \/ SecResetHigh \/ McuFlush \/ Connect \/ ListenFails
  BY <1>3, <1>t DEF McuBoot, SecResetLow, SecResetHigh, McuFlush, Connect, ListenFails
<1>4. ASSUME NEW c \in Command, ReadCommand(c) PROVE McuTyped'
  BY <1>4, <1>t DEF ReadCommand
<1>5. CASE Execute
  <2>1. CASE Service!WellFormed(cmd)
    <3>1. cmd \in Command
      BY <1>t, <2>1 DEF NoCommand, Service!NoCommand, Service!WellFormed, Service!IsCrypto
    <3> QED
      BY <1>5, <1>t, <2>1, <3>1 DEF Execute
  <2>2. CASE ~Service!WellFormed(cmd)
    BY <1>5, <1>t, <2>2 DEF Execute
  <2> QED
    BY <2>1, <2>2
<1>6. CASE VerifyPinFlush \/ TxIns
  BY <1>6, <1>t, <1>n DEF VerifyPinFlush, TxIns
<1>7. CASE TxPin
  <2>1. cmd.ins # "pin" => Service!IsCrypto(cmd)
    BY <1>7, <1>t DEF TxPin, Service!WellFormed
  <2> QED
    BY <1>7, <1>t, <2>1, <1>n DEF TxPin
<1>8. CASE RxPin \/ RxAck \/ TxKey \/ RxKey
  BY <1>8, <1>t DEF RxPin, RxAck, TxKey, RxKey
<1>9. CASE TxCount
  <2>1. Len(cmd.data) \in 1..MaxBlocks
    BY <1>9, <1>t, CommandParts DEF TxCount
  <2> QED
    BY <1>9, <1>t, <1>n, <2>1 DEF TxCount
<1>10. CASE TxBlock
  BY <1>10, <1>t, <1>n DEF TxBlock
<1>11. CASE RxBlock
  <2>1. Len(cmd.data) \in 1..MaxBlocks
    BY <1>11, <1>t, CommandParts DEF RxBlock
  <2>2. Head(mring) \in Byte
    BY <1>11, <1>t DEF RxBlock, Rx
  <2>3. CASE Len(resp) + 1 < BlockLen
    <3>1. resp' = Append(resp, Head(mring)) /\ UNCHANGED <<mpc, blk, cmd, pos>>
      BY <1>11, <2>3 DEF RxBlock
    <3>2. resp' \in Seq(Byte) /\ Len(resp') < BlockLen
      BY <1>t, <2>2, <2>3, <3>1
    <3> QED
      BY <1>11, <1>t, <3>1, <3>2 DEF RxBlock
  <2>4. CASE ~(Len(resp) + 1 < BlockLen)
    <3>1. /\ resp' = << >> /\ UNCHANGED <<cmd, pos>>
          /\ \/ blk < Len(cmd.data) /\ blk' = blk + 1 /\ mpc' = "tx_block"
             \/ blk' = 0 /\ mpc' = "print_end"
      BY <1>11, <2>4 DEF RxBlock
    <3> QED
      BY <1>11, <1>t, <1>n, <2>1, <3>1 DEF RxBlock
  <2> QED
    BY <2>3, <2>4
<1>12. CASE PrintEnd \/ Disconnect
  BY <1>12, <1>t DEF PrintEnd, Disconnect
<1>13. CASE SecStep \/ DeliverToSec \/ DeliverToMcu \/ LoseToSec \/ LoseToMcu
  BY <1>1, <1>13 DEF SecStep, SecInit, SecReadIns, SecReadPin, SecStatus, SecReadKey,
     SecKeyStatus, SecReadCount, SecReadBlock, SecWriteBlock, DeliverToSec,
     DeliverToMcu, LoseToSec, LoseToMcu
<1>14. ASSUME NEW g \in Garbage, Glitch(g) PROVE McuTyped'
  BY <1>1, <1>14 DEF Glitch
<1> QED
  BY <1>2, <1>3, <1>4, <1>5, <1>6, <1>7, <1>8, <1>9, <1>10, <1>11, <1>12, <1>13, <1>14
     DEF Next, McuStep, Watchdog, Panic

(* The SEC's variables keep their types.                                   *)
LEMMA NextSecTyped == Ciphers /\ Typed /\ Next => SecTyped'
<1> SUFFICES ASSUME Ciphers, Typed, Next PROVE SecTyped'
  OBVIOUS
<1> USE DEF SecTyped, Reading
<1>t. SecTyped /\ sring \in Seq(Byte)
  BY DEF Typed, LineTyped
<1>n. /\ BlockLen \in Nat \ {0} /\ PinLen \in Nat \ {0} /\ KeyCount \in 1..256
      /\ ZeroBlock \in Cipherblock /\ 0 \in Byte
  BY SizeAssumption DEF ZeroBlock, Cipherblock, Byte
<1>1. CASE UNCHANGED secVars
  BY <1>1, <1>t DEF secVars
<1>2. CASE SecOff
  BY <1>2, <1>n DEF SecOff
<1>3. CASE SecResetHigh
  BY <1>3, <1>t DEF SecResetHigh
<1>17. CASE SecInit
  BY <1>17, <1>t DEF SecInit
<1>4. CASE SecStatus
  <2>1. spc' \in {"ins", "key"} /\ buf' = << >> /\ UNCHANGED <<ins, key, iv, left>>
    BY <1>4 DEF SecStatus
  <2> QED
    BY <1>t, <2>1
<1>5. CASE SecReadIns
  BY <1>5, <1>t, <1>n DEF SecReadIns, INS_VERIFY_PIN, INS_ENCRYPT, INS_DECRYPT
<1>r. sring # << >> => Head(sring) \in Byte
  BY <1>t
<1>6. CASE SecReadPin
  <2>1. /\ buf' = Append(buf, Head(sring)) /\ Head(sring) \in Byte
        /\ spc = "pin" /\ UNCHANGED <<ins, key, iv, left>>
    BY <1>6, <1>r DEF SecReadPin, uart_read_u8
  <2>2. buf' \in Seq(Byte) /\ Len(buf') = Len(buf) + 1 /\ Len(buf) < PinLen
    BY <1>t, <2>1
  <2>3. spc' = IF Len(buf') = PinLen THEN "status" ELSE "pin"
    BY <1>6 DEF SecReadPin
  <2>4. Len(buf') \in Nat
    BY <2>2
  <2> QED
    BY <1>t, <1>n, <2>1, <2>2, <2>3, <2>4
<1>7. CASE SecReadKey
  <2>0. Head(sring) \in Byte
    BY <1>7, <1>r DEF SecReadKey, uart_read_u8
  <2>1. Head(sring) \in Nat
    BY <2>0 DEF Byte
  <2>2. key' \in 0..(KeyCount - 1)
    BY <1>7, <1>n, <2>1 DEF SecReadKey
  <2> QED
    BY <1>7, <1>t, <2>2 DEF SecReadKey
<1>8. CASE SecKeyStatus
  BY <1>8, <1>t, <1>n DEF SecKeyStatus
<1>9. CASE SecReadCount
  BY <1>9, <1>t, <1>r, <1>n DEF SecReadCount, uart_read_u8
<1>10. CASE SecReadBlock
  <2> DEFINE block == Append(buf, Head(sring))
  <2>1. /\ spc = "block" /\ Head(sring) \in Byte /\ UNCHANGED <<ins, key, left>>
    BY <1>10, <1>r DEF SecReadBlock, uart_read_u8
  <2>2. block \in Seq(Byte) /\ Len(block) = Len(buf) + 1 /\ Len(buf) < BlockLen
        /\ Len(buf) \in Nat
    BY <1>t, <2>1
  <2>3. CASE Len(block) < BlockLen
    BY <1>10, <1>t, <2>1, <2>2, <2>3 DEF SecReadBlock
  <2>4. CASE ~(Len(block) < BlockLen)
    <3>1. spc' = "reply" /\ (CbcEncrypt(block) \/ CbcDecrypt(block))
      BY <1>10, <2>4 DEF SecReadBlock
    <3>2. Len(block) = BlockLen
      BY <1>n, <2>2, <2>4
    <3>3. block \in Cipherblock
      BY <2>2, <3>2, WholeBlock
    <3>4. key \in 0..(KeyCount - 1) /\ iv \in Cipherblock
      BY <1>t
    <3>5. buf' \in Cipherblock /\ iv' \in Cipherblock
      BY <3>1, <3>3, <3>4 DEF CbcEncrypt, CbcDecrypt, Ciphers
    <3>6. buf' \in Seq(Byte) /\ Len(buf') = BlockLen
      BY <3>5, <1>n DEF Cipherblock
    <3> QED
      BY <1>t, <1>n, <2>1, <3>1, <3>5, <3>6
  <2> QED
    BY <2>3, <2>4
<1>11. CASE SecWriteBlock
  <2>1. /\ spc = "reply" /\ buf' = Tail(buf) /\ UNCHANGED <<ins, key, iv>>
    BY <1>11 DEF SecWriteBlock
  <2>2. /\ buf' \in Seq(Byte) /\ Len(buf') = Len(buf) - 1 /\ Len(buf) \in 1..BlockLen
        /\ left \in Byte /\ left # 0
    BY <1>t, <2>1
  <2>3. left - 1 \in Byte
    BY <2>2 DEF Byte
  <2>4. CASE buf' # << >>
    <3>1. UNCHANGED <<spc, left>>
      BY <1>11, <2>4 DEF SecWriteBlock
    <3>2. Len(buf') # 0
      BY <2>2, <2>4
    <3> QED
      BY <1>t, <1>n, <2>1, <2>2, <3>1, <3>2
  <2>5. CASE buf' = << >>
    <3>1. left' = left - 1 /\ spc' = IF left' = 0 THEN "ins" ELSE "block"
      BY <1>11, <2>5 DEF SecWriteBlock
    <3> QED
      BY <1>t, <1>n, <2>1, <2>2, <2>3, <2>5, <3>1
  <2> QED
    BY <2>4, <2>5
<1>12. CASE McuStep
  <2>1. CASE McuBoot \/ SecResetLow \/ SecResetHigh
    BY <1>2, <1>3, <2>1 DEF McuBoot, SecResetLow
  <2> QED
    BY <1>1, <1>12, <2>1 DEF McuStep, McuFlush, Execute, VerifyPinFlush, TxIns, TxPin,
       RxPin, RxAck, TxKey, RxKey, TxCount, TxBlock, RxBlock, PrintEnd, Disconnect
<1>13. CASE Connect \/ ListenFails \/ Watchdog \/ Panic
  BY <1>1, <1>13 DEF Connect, ListenFails, Watchdog, Panic, McuReset
<1>14. ASSUME NEW c \in Command, ReadCommand(c) PROVE SecTyped'
  BY <1>1, <1>14 DEF ReadCommand
<1>15. CASE DeliverToSec \/ DeliverToMcu \/ LoseToSec \/ LoseToMcu
  BY <1>1, <1>15 DEF DeliverToSec, DeliverToMcu, LoseToSec, LoseToMcu
<1>16. ASSUME NEW g \in Garbage, Glitch(g) PROVE SecTyped'
  BY <1>1, <1>16 DEF Glitch
<1> QED
  BY <1>4, <1>5, <1>6, <1>7, <1>8, <1>9, <1>10, <1>11, <1>12, <1>13, <1>14, <1>15, <1>16,
     <1>17
     DEF Next, SecStep

(* What is sent is a byte.                                                 *)
LEMMA SentByte ==
  ASSUME Typed, NEW b, Tx(b),
         \/ mpc \in Serving /\ b = Opcode(cmd)
         \/ mpc = "tx_pin" /\ b = cmd.pin[pos + 1]
         \/ mpc = "tx_key" /\ b = cmd.key
         \/ mpc = "tx_count" /\ b = Len(cmd.data)
         \/ mpc = "tx_block" /\ b = cmd.data[blk][pos + 1]
  PROVE  toSec' \in Seq(Byte) /\ Len(toSec') = 1
<1>1. McuTyped /\ MaxBlocks \in 1..255
  BY SizeAssumption DEF Typed
<1>2. b \in Byte
  <2>1. CASE mpc \in Serving /\ b = Opcode(cmd)
    <3>1. Opcode(cmd) \in 1..3
      BY <1>1, <2>1, CommandParts
    <3> QED
      BY <2>1, <3>1 DEF Byte
  <2>2. CASE mpc = "tx_pin" /\ b = cmd.pin[pos + 1]
    <3>1. cmd.pin \in Seq(Byte) /\ Len(cmd.pin) = PinLen
      BY <1>1, <2>2, CommandParts DEF Serving
    <3>2. pos + 1 \in 1..PinLen
      BY <1>1, <2>2, SizeAssumption DEF McuTyped
    <3> QED
      BY <2>2, <3>1, <3>2
  <2>3. CASE mpc = "tx_key" /\ b = cmd.key
    BY <1>1, <2>3, CommandParts DEF Serving, Crypto, McuTyped
  <2>4. CASE mpc = "tx_count" /\ b = Len(cmd.data)
    <3>1. Len(cmd.data) \in 1..MaxBlocks
      BY <1>1, <2>4, CommandParts DEF Serving, Crypto, McuTyped
    <3>2. ASSUME NEW k \in 1..MaxBlocks PROVE k \in Byte
      BY <1>1 DEF Byte
    <3> QED
      BY <2>4, <3>1, <3>2
  <2>5. CASE mpc = "tx_block" /\ b = cmd.data[blk][pos + 1]
    <3>1. cmd.data \in Seq(Cipherblock) /\ blk \in 1..Len(cmd.data)
      BY <1>1, <2>5, CommandParts DEF Serving, Crypto, McuTyped
    <3>2. cmd.data[blk] \in Cipherblock
      BY <3>1
    <3>3. pos + 1 \in 1..BlockLen
      BY <1>1, <2>5, SizeAssumption DEF McuTyped
    <3> QED
      BY <2>5, <3>2, <3>3 DEF Cipherblock
  <2> QED
    BY <2>1, <2>2, <2>3, <2>4, <2>5
<1>3. toSec' = <<b>>
  BY DEF Tx
<1> QED
  BY <1>2, <1>3

(* The rings and the line keep their types.                                *)
LEMMA NextLineTyped == Typed /\ Next => LineTyped'
<1> SUFFICES ASSUME Typed, Next PROVE LineTyped'
  OBVIOUS
<1> USE DEF LineTyped
<1>t. LineTyped /\ buf \in Seq(Byte)
  BY DEF Typed, SecTyped
<1>n. McuCap \in Nat \ {0} /\ SecCap \in Nat \ {0} /\ MaxLoss \in Nat /\ MaxGlitch \in Nat
  BY SizeAssumption
<1>1. CASE UNCHANGED <<mring, sring, toSec, toMcu, noise>>
  BY <1>1, <1>t DEF noise
<1>e. << >> \in Seq(Byte) /\ Len(<< >>) = 0
  OBVIOUS
<1>2. CASE McuBoot \/ SecResetLow
  <2>1. /\ sring' = << >> /\ toSec' = << >> /\ toMcu' = << >>
        /\ losses' = 0 /\ glitches' = 0 /\ (mring' = mring \/ mring' = << >>)
    BY <1>2 DEF McuBoot, SecResetLow, SecOff
  <2>2. mring' \in Seq(Byte) /\ Len(mring') <= McuCap
    <3>1. CASE mring' = mring
      BY <1>t, <3>1
    <3>2. CASE mring' = << >>
      BY <1>e, <1>n, <3>2
    <3> QED
      BY <2>1, <3>1, <3>2
  <2>3. sring' \in Seq(Byte) /\ Len(sring') <= SecCap
    BY <1>n, <1>e, <2>1
  <2>4. toSec' \in Seq(Byte) /\ Len(toSec') <= 1 /\ toMcu' \in Seq(Byte) /\ Len(toMcu') <= 2
    BY <1>e, <2>1
  <2> QED
    BY <1>n, <2>1, <2>2, <2>3, <2>4
<1>3. CASE McuFlush \/ VerifyPinFlush \/ McuReset
  <2>1. /\ mring' = << >> /\ (toSec' = toSec \/ toSec' = << >>)
        /\ UNCHANGED <<sring, toMcu, losses, glitches>>
    BY <1>3 DEF McuFlush, VerifyPinFlush, McuReset, noise
  <2>2. mring' \in Seq(Byte) /\ Len(mring') <= McuCap
    BY <1>n, <1>e, <2>1
  <2>3. toSec' \in Seq(Byte) /\ Len(toSec') <= 1
    <3>1. CASE toSec' = toSec
      BY <1>t, <3>1
    <3>2. CASE toSec' = << >>
      BY <1>e, <3>2
    <3> QED
      BY <2>1, <3>1, <3>2
  <2> QED
    BY <1>t, <2>1, <2>2, <2>3
<1>4. ASSUME Rx, UNCHANGED <<sring, toSec, toMcu, noise>>
      PROVE  LineTyped'
  <2>1. mring' \in Seq(Byte) /\ Len(mring') = Len(mring) - 1
    BY <1>4, <1>t DEF Rx
  <2> QED
    BY <1>4, <1>t, <1>n, <2>1 DEF noise
<1>5. ASSUME toSec' \in Seq(Byte), Len(toSec') = 1, UNCHANGED <<mring, sring, toMcu, noise>>
      PROVE  LineTyped'
  BY <1>5, <1>t DEF noise
<1>6. CASE TxIns \/ TxPin \/ TxKey \/ TxCount \/ TxBlock
  <2>1. CASE TxIns
    BY <1>5, <2>1, SentByte DEF TxIns, Serving
  <2>2. CASE TxPin
    BY <1>5, <2>2, SentByte DEF TxPin
  <2>3. CASE TxKey
    BY <1>5, <2>3, SentByte DEF TxKey
  <2>4. CASE TxCount
    BY <1>5, <2>4, SentByte DEF TxCount
  <2>5. CASE TxBlock
    BY <1>5, <2>5, SentByte DEF TxBlock
  <2> QED
    BY <1>6, <2>1, <2>2, <2>3, <2>4, <2>5
<1>7. CASE McuStep
  <2>1. CASE RxPin \/ RxAck \/ RxKey \/ RxBlock
    BY <1>4, <2>1 DEF RxPin, RxAck, RxKey, RxBlock
  <2>2. CASE SecResetHigh \/ Execute \/ PrintEnd \/ Disconnect
    BY <1>1, <2>2 DEF SecResetHigh, Execute, PrintEnd, Disconnect
  <2> QED
    BY <1>2, <1>3, <1>6, <1>7, <2>1, <2>2 DEF McuStep
<1>8. CASE Connect \/ ListenFails
  BY <1>1, <1>8 DEF Connect, ListenFails
<1>9. ASSUME NEW c \in Command, ReadCommand(c) PROVE LineTyped'
  BY <1>1, <1>9 DEF ReadCommand
<1>10. ASSUME uart_read_u8, UNCHANGED <<mring, toSec, toMcu, noise>>
       PROVE  LineTyped'
  <2>1. sring' \in Seq(Byte) /\ Len(sring') = Len(sring) - 1
    BY <1>10, <1>t DEF uart_read_u8
  <2> QED
    BY <1>10, <1>t, <1>n, <2>1 DEF noise
<1>11. ASSUME NEW b \in Byte, uart_write_u8(b), UNCHANGED <<mring, sring, toSec, noise>>
       PROVE  LineTyped'
  <2>1. toMcu' \in Seq(Byte) /\ Len(toMcu') = Len(toMcu) + 1 /\ Len(toMcu) < 2
    BY <1>11, <1>t DEF uart_write_u8
  <2> QED
    BY <1>11, <1>t, <1>n, <2>1 DEF noise
<1>12. CASE SecStep
  <2>1. STATUS_OK \in Byte /\ STATUS_BAD_PIN \in Byte /\ STATUS_KEY_LOCKED \in Byte
    BY DEF STATUS_OK, STATUS_BAD_PIN, STATUS_KEY_LOCKED, Byte
  <2>2. CASE SecInit
    BY <2>2, <1>t, <1>n DEF SecInit, noise
  <2>3. CASE SecReadIns \/ SecReadPin \/ SecReadKey \/ SecReadCount \/ SecReadBlock
    BY <1>10, <2>3 DEF SecReadIns, SecReadPin, SecReadKey, SecReadCount, SecReadBlock
  <2>4. CASE SecStatus
    BY <1>11, <2>1, <2>4 DEF SecStatus
  <2>5. CASE SecKeyStatus
    BY <1>11, <2>1, <2>5 DEF SecKeyStatus
  <2>6. CASE SecWriteBlock
    <3>1. spc = "reply" /\ SecTyped
      BY <2>6 DEF SecWriteBlock, Typed
    <3>2. Len(buf) \in 1..BlockLen /\ BlockLen \in Nat
      BY <3>1, SizeAssumption DEF SecTyped
    <3>3. Head(buf) \in Byte
      BY <3>2, <1>t
    <3> QED
      BY <1>11, <2>6, <3>3 DEF SecWriteBlock
  <2> QED
    BY <1>12, <2>2, <2>3, <2>4, <2>5, <2>6 DEF SecStep
<1>13. CASE DeliverToSec
  <2>1. /\ toSec' = << >> /\ UNCHANGED <<mring, toMcu, noise>>
        /\ sring' = IF Len(sring) < SecCap THEN sring \o toSec ELSE sring
    BY <1>13 DEF DeliverToSec
  <2>2. /\ sring \o toSec \in Seq(Byte)
        /\ Len(sring \o toSec) = Len(sring) + Len(toSec)
        /\ Len(sring) \in Nat /\ Len(toSec) \in Nat
    BY <1>t
  <2>3. sring' \in Seq(Byte) /\ Len(sring') <= SecCap
    BY <1>t, <1>n, <2>1, <2>2
  <2> QED
    BY <1>t, <2>1, <2>3 DEF noise
<1>14. CASE DeliverToMcu
  <2>1. /\ toMcu # << >> /\ toMcu' = Tail(toMcu) /\ UNCHANGED <<sring, toSec, noise>>
        /\ mring' = IF Len(mring) < McuCap THEN Append(mring, Head(toMcu)) ELSE mring
    BY <1>14 DEF DeliverToMcu
  <2>2. /\ Head(toMcu) \in Byte /\ toMcu' \in Seq(Byte) /\ Len(toMcu') = Len(toMcu) - 1
        /\ Len(toMcu) \in Nat
    BY <1>t, <2>1
  <2>3. /\ Append(mring, Head(toMcu)) \in Seq(Byte)
        /\ Len(Append(mring, Head(toMcu))) = Len(mring) + 1 /\ Len(mring) \in Nat
    BY <1>t, <2>2
  <2>4. mring' \in Seq(Byte) /\ Len(mring') <= McuCap
    BY <1>t, <1>n, <2>1, <2>3
  <2> QED
    BY <1>t, <2>1, <2>2, <2>4 DEF noise
<1>15. CASE LoseToSec
  BY <1>15, <1>t, <1>n DEF LoseToSec
<1>16. CASE LoseToMcu
  <2>1. /\ toMcu' \in Seq(Byte) /\ Len(toMcu') = Len(toMcu) - 1
        /\ losses < MaxLoss /\ losses' = losses + 1
        /\ UNCHANGED <<mring, sring, toSec, glitches>>
    BY <1>16, <1>t DEF LoseToMcu
  <2> QED
    BY <1>t, <1>n, <2>1
<1>17. ASSUME NEW g \in Garbage, Glitch(g) PROVE LineTyped'
  <2>1. g \in Byte
    BY GarbageAssumption
  <2> QED
    BY <1>17, <1>t, <1>n, <2>1 DEF Glitch
<1> QED
  BY <1>3, <1>7, <1>8, <1>9, <1>12, <1>13, <1>14, <1>15, <1>16, <1>17
     DEF Next, Watchdog, Panic

(* The types, put together.                                                *)
LEMMA NextTyped == Ciphers /\ Typed /\ [Next]_vars => Typed'
<1> SUFFICES ASSUME Ciphers, Typed, [Next]_vars PROVE Typed'
  OBVIOUS
<1>1. CASE Next
  BY <1>1, NextMcuTyped, NextSecTyped, NextLineTyped DEF Typed
<1>2. CASE UNCHANGED vars
  <2>1. McuTyped'
    BY <1>2 DEF Typed, vars, mcuVars, McuTyped
  <2>2. SecTyped'
    BY <1>2 DEF Typed, vars, secVars, SecTyped
  <2>3. LineTyped'
    BY <1>2 DEF Typed, vars, noise, LineTyped
  <2> QED
    BY <2>1, <2>2, <2>3 DEF Typed
<1> QED
  BY <1>1, <1>2

LEMMA TypedTypes == Typed => TypeOK
<1> SUFFICES ASSUME Typed PROVE TypeOK
  OBVIOUS
<1>1. pos \in 0..PinLen \cup 0..BlockLen
  BY SizeAssumption DEF Typed, McuTyped
<1> QED
  BY <1>1 DEF Typed, McuTyped, SecTyped, LineTyped, TypeOK, Cipherblock

(* Type correctness: in particular neither processor's buffers nor a ring  *)
(* ever holds more than it has room for.                                   *)
THEOREM Types ==
  ASSUME Ciphers
  PROVE  Spec => []TypeOK
<1>1. Init => Typed
  BY InitTyped
<1>2. Typed /\ [Next]_vars => Typed'
  BY NextTyped
<1> QED
  BY <1>1, <1>2, TypedTypes, PTL DEF Spec

-----------------------------------------------------------------------------
(* Bytes that are passed on: sequences.                                    *)

LEMMA HeadFirst ==
  ASSUME NEW t \in Seq(Byte), t # << >>
  PROVE  /\ Head(t) \in Byte /\ Head(t) = t[1]
         /\ Tail(t) \in Seq(Byte) /\ Len(Tail(t)) = Len(t) - 1
         /\ t = <<Head(t)>> \o Tail(t)
<1>1. Len(t) \in Nat /\ Len(t) >= 1
  BY EmptySeq
<1>2. /\ Head(t) \in Byte /\ Tail(t) \in Seq(Byte) /\ Len(Tail(t)) = Len(t) - 1
  BY HeadTailProperties
<1>3. /\ Head(t) = t[1] /\ 1 \in 1..Len(t) /\ Len(t) \in 1..Len(t)
  BY <1>1
<1>4. SubSeq(t, 1, Len(t)) = <<t[1]>> \o SubSeq(t, 1 + 1, Len(t))
  BY ONLY <1>3, t \in Seq(Byte), SubSeqRecursiveFirst
<1>5. SubSeq(t, 1, Len(t)) = t /\ Tail(t) = SubSeq(t, 2, Len(t))
  BY SubSeqFull, TailIsSubSeq
<1> QED
  BY <1>2, <1>3, <1>4, <1>5

(* A byte is put behind.                                                   *)
LEMMA Behind ==
  ASSUME NEW s \in Seq(Byte), NEW t \in Seq(Byte), NEW b \in Byte
  PROVE  /\ s \o Append(t, b) = Append(s \o t, b)
         /\ Append(t, b) \in Seq(Byte) /\ Len(Append(t, b)) = Len(t) + 1
<1>1. <<b>> \in Seq(Byte) /\ s \o t \in Seq(Byte)
  BY ConcatProperties
<1>2. Append(t, b) = t \o <<b>> /\ Append(s \o t, b) = (s \o t) \o <<b>>
  BY <1>1, AppendIsConcat
<1>3. (s \o t) \o <<b>> = s \o (t \o <<b>>)
  BY <1>1, ConcatAssociative
<1> QED
  BY <1>2, <1>3, AppendProperties

(* The first byte of one sequence is put behind another.                   *)
LEMMA Passed ==
  ASSUME NEW s \in Seq(Byte), NEW t \in Seq(Byte), t # << >>
  PROVE  /\ Append(s, Head(t)) \o Tail(t) = s \o t
         /\ Append(s, Head(t)) \in Seq(Byte) /\ Len(Append(s, Head(t))) = Len(s) + 1
<1>1. Head(t) \in Byte /\ Tail(t) \in Seq(Byte) /\ t = <<Head(t)>> \o Tail(t)
  BY HeadFirst
<1>2. Append(s, Head(t)) = s \o <<Head(t)>> /\ <<Head(t)>> \in Seq(Byte)
  BY <1>1, AppendIsConcat
<1>3. (s \o <<Head(t)>>) \o Tail(t) = s \o (<<Head(t)>> \o Tail(t))
  BY <1>1, <1>2, ConcatAssociative
<1> QED
  BY <1>1, <1>2, <1>3, AppendProperties

LEMMA OneMore ==
  ASSUME NEW m \in Seq(Byte), NEW n \in Nat, n < Len(m)
  PROVE  /\ Append(SubSeq(m, 1, n), m[n + 1]) = SubSeq(m, 1, n + 1)
         /\ SubSeq(m, 1, n) \in Seq(Byte) /\ Len(SubSeq(m, 1, n)) = n /\ m[n + 1] \in Byte
<1>1. 1 \in 1..Len(m) /\ n + 1 \in 1..Len(m) /\ (n + 1) - 1 = n /\ Len(m) \in Nat
  BY LenProperties
<1>2. SubSeq(m, 1, n + 1) = SubSeq(m, 1, (n + 1) - 1) \o <<m[n + 1]>>
  BY ONLY <1>1, m \in Seq(Byte), SubSeqRecursiveSecond
<1>3. \A i \in 1..n : m[i] \in Byte
  BY <1>1
<1>4. 1 \in Int /\ n \in Int
  OBVIOUS
<1>5. /\ SubSeq(m, 1, n) \in Seq(Byte)
      /\ Len(SubSeq(m, 1, n)) = IF 1 <= n THEN n - 1 + 1 ELSE 0
  BY ONLY <1>3, <1>4, SubSeqProperties
<1>6. m[n + 1] \in Byte /\ Len(SubSeq(m, 1, n)) = n
  BY <1>1, <1>5
<1>7. Append(SubSeq(m, 1, n), m[n + 1]) = SubSeq(m, 1, n) \o <<m[n + 1]>>
  BY <1>5, <1>6, AppendIsConcat
<1> QED
  BY <1>1, <1>2, <1>5, <1>6, <1>7

-----------------------------------------------------------------------------
(* The exchange.  ToSeq and FromSeq are the bytes on their way to the SEC  *)
(* and to the MCU, in a ring or in a transmitter.                          *)

ToSeq == sring \o toSec
FromSeq == mring \o toMcu
To == Len(toSec) + Len(sring)
From == Len(toMcu) + Len(mring)

(* Both programs are at the beginning of an exchange.                      *)
AtRest == {"listen", "wait_cmd", "exec", "verify_flush", "tx_ins", "print_end"}
Quiet == spc = "ins" /\ To = 0 /\ From = 0

(* An opcode and a PIN: what of them the MCU has sent, and what the SEC    *)
(* has read.                                                               *)
Message == <<Opcode(cmd)>> \o cmd.pin
Told == IF mpc = "tx_pin" THEN 1 + pos ELSE 1 + PinLen
Heard == IF spc = "ins" THEN << >> ELSE <<ins>> \o buf
Got == IF spc = "ins" THEN 0 ELSE 1 + Len(buf)

(* The SEC has not answered.  Of what was lost it never hears, and then it *)
(* never hears the whole.                                                  *)
Asking ==
  /\ spc \in {"ins", "pin", "status"}
  /\ From = 0
  /\ \/ /\ To + Got = Told
        /\ Heard \o ToSeq = SubSeq(Message, 1, Told)
     \/ /\ losses > 0
        /\ To + Got < Told

Verdict == IF cmd.pin = Pin THEN STATUS_OK ELSE STATUS_BAD_PIN

PinAnswered ==
  /\ mpc # "tx_pin"
  /\ To = 0
  /\ ins = Opcode(cmd)
  /\ spc = IF ins # INS_VERIFY_PIN /\ cmd.pin = Pin THEN "key" ELSE "ins"
  /\ \/ From = 1 /\ FromSeq = <<Verdict>>
     \/ From = 0 /\ losses > 0

(* The number of the key: the MCU is about to send it, or has sent it.     *)
KeyDue == spc = "key" /\ ins = Opcode(cmd) /\ To = 0 /\ From = 0

Prepared == ins = Opcode(cmd) /\ key = cmd.key /\ iv = ZeroBlock /\ key \notin LockedKeys

KeyAsked ==
  \/ spc = "key" /\ ins = Opcode(cmd) /\ To = 1 /\ ToSeq = <<cmd.key>> /\ From = 0
  \/ spc = "key_status" /\ ins = Opcode(cmd) /\ key = cmd.key /\ To = 0 /\ From = 0
  \/ spc = "count" /\ Prepared /\ To = 0 /\ From = 1 /\ FromSeq = <<STATUS_OK>>
  \/ spc = "ins" /\ cmd.key \in LockedKeys /\ To = 0 /\ From = 1
                 /\ FromSeq = <<STATUS_KEY_LOCKED>>
  \/ spc \in {"key", "count", "ins"} /\ To = 0 /\ From = 0 /\ losses > 0

CountDue == spc = "count" /\ Prepared /\ To = 0 /\ From = 0

(* Of the block blk the MCU has sent Put bytes; Out is the block it shall  *)
(* have in return, and resp what it has of it.                             *)
Put == IF mpc = "tx_block" THEN pos ELSE BlockLen
ToDo == Len(cmd.data) - blk
Out == IF cmd.ins = "encrypt" THEN Service!Encrypted(cmd, reply)
                              ELSE Service!Decrypted(cmd, reply)
NextVector == IF cmd.ins = "encrypt" THEN Out ELSE cmd.data[blk]

CountSent ==
  /\ spc = "count" /\ blk = 1
  /\ To = 1 + Put
  /\ ToSeq = <<Len(cmd.data)>> \o SubSeq(cmd.data[blk], 1, Put)
  /\ iv = ZeroBlock
  /\ From = 0 /\ resp = << >>

BlockSent ==
  /\ spc = "block" /\ left = ToDo + 1
  /\ To + Len(buf) = Put
  /\ buf \o ToSeq = SubSeq(cmd.data[blk], 1, Put)
  /\ iv = Service!Vector(cmd, reply)
  /\ From = 0 /\ resp = << >>

Replying ==
  /\ spc = "reply" /\ left = ToDo + 1
  /\ Put = BlockLen /\ To = 0
  /\ Len(buf) + From + Len(resp) = BlockLen
  /\ resp \o (FromSeq \o buf) = Out
  /\ iv = NextVector

Replied ==
  /\ spc = (IF ToDo = 0 THEN "ins" ELSE "block") /\ left = ToDo
  /\ Put = BlockLen /\ To = 0 /\ buf = << >>
  /\ From + Len(resp) = BlockLen
  /\ resp \o FromSeq = Out
  /\ iv = NextVector

InSync ==
  /\ ins = Opcode(cmd) /\ key = cmd.key
  /\ CountSent \/ BlockSent \/ Replying \/ Replied

(* Once a byte of the exchange is lost the SEC may take the next ones for  *)
(* something else, but it never answers as many bytes as the MCU awaits.   *)
Due == CASE spc \in {"pin", "status", "key_status"} -> 1
         [] spc \in {"block", "reply"} -> Len(buf)
         [] OTHER -> 0
Stray ==
  /\ losses > 0
  /\ spc \notin {"off", "init"}
  /\ \/ From + To + Due + Len(resp) < Put
     \/ spc = "count" /\ From = 0 /\ resp = << >> /\ To = Put

Exchange == InSync \/ Stray

Flow ==
  /\ mpc = "reset_high" => spc = "off" /\ To = 0
  /\ mpc = "flush" => spc \in {"init", "ins"} /\ To = 0
  /\ mpc \in AtRest => Quiet
  /\ mpc \in {"tx_pin", "rx_pin", "rx_ack"} => Asking \/ PinAnswered
  /\ mpc = "tx_key" => KeyDue
  /\ mpc = "rx_key" => KeyAsked
  /\ mpc = "tx_count" => CountDue
  /\ mpc \in {"tx_block", "rx_block"} => Exchange

(* What the client was told, and what the SEC has found in order by then.  *)
Printed ==
  {Service!Text, Service!Ok, Service!BadPin, Service!KeyLocked, Service!End} \cup
  {Service!Block(b) : b \in Cipherblock}

Blocks == {"tx_block", "rx_block"}
Answered ==
  /\ reply \in Seq(Printed)
  /\ mpc \in {"boot", "reset_low", "reset_high", "flush", "listen", "wait_cmd"} =>
       cmd = NoCommand
  /\ mpc \in (Handling \ {"wait_cmd"}) \cup {"disconnect"} => cmd \in Command
  /\ mpc = "rx_pin" => cmd.ins = "pin"
  /\ mpc \in {"tx_key", "rx_key", "tx_count", "print_end"} \cup Blocks => cmd.pin = Pin
  /\ mpc \in {"tx_count", "print_end"} \cup Blocks => cmd.key \notin LockedKeys
  /\ mpc \notin {"print_end", "disconnect"} \cup Blocks => reply = << >>
  /\ mpc \in Blocks => Len(reply) = blk - 1
  /\ mpc = "print_end" => /\ Service!WellFormed(cmd) /\ Service!IsCrypto(cmd)
                          /\ Len(reply) = Len(cmd.data)
  /\ mpc = "disconnect" => Len(reply) = Service!Pieces(cmd)

IInv == Typed /\ Flow /\ Answered

-----------------------------------------------------------------------------
(* What the steps do to the bytes on their way.                            *)

LEMMA Counted ==
  ASSUME LineTyped
  PROVE  /\ To \in Nat /\ From \in Nat
         /\ Len(sring) <= To /\ Len(mring) <= From
         /\ Len(sring) \in Nat /\ Len(mring) \in Nat
         /\ Len(toSec) \in Nat /\ Len(toMcu) \in Nat
         /\ To = 0 <=> toSec = << >> /\ sring = << >>
         /\ From = 0 <=> toMcu = << >> /\ mring = << >>
         /\ toSec # << >> => Len(sring) < To
         /\ toMcu # << >> => Len(mring) < From
BY DEF LineTyped, To, From

LEMMA Listed ==
  ASSUME LineTyped
  PROVE  /\ ToSeq \in Seq(Byte) /\ Len(ToSeq) = To
         /\ FromSeq \in Seq(Byte) /\ Len(FromSeq) = From
         /\ sring \in Seq(Byte) /\ toSec \in Seq(Byte)
         /\ mring \in Seq(Byte) /\ toMcu \in Seq(Byte)
<1>1. /\ sring \in Seq(Byte) /\ toSec \in Seq(Byte)
      /\ mring \in Seq(Byte) /\ toMcu \in Seq(Byte)
  BY DEF LineTyped
<1>2. /\ ToSeq \in Seq(Byte) /\ Len(ToSeq) = Len(sring) + Len(toSec)
      /\ FromSeq \in Seq(Byte) /\ Len(FromSeq) = Len(mring) + Len(toMcu)
  BY <1>1, ConcatProperties DEF ToSeq, FromSeq
<1> QED
  BY <1>1, <1>2, Counted DEF To, From

LEMMA OnLine ==
  ASSUME LineTyped, toSec # << >>
  PROVE  Len(toSec) = 1
<1>1. Len(toSec) \in Nat /\ Len(toSec) # 0 /\ Len(toSec) <= 1
  BY EmptySeq DEF LineTyped
<1>2. \A n \in Nat : n # 0 /\ n <= 1 => n = 1
  OBVIOUS
<1> QED
  BY ONLY <1>1, <1>2

(* The SEC takes the first byte, the MCU does, a byte is put behind.       *)
SecTakes ==
  /\ To >= 1 /\ ToSeq # << >>
  /\ To' = To - 1 /\ ToSeq' = Tail(ToSeq)
  /\ From' = From /\ FromSeq' = FromSeq

McuTakes ==
  /\ From >= 1 /\ FromSeq # << >>
  /\ From' = From - 1 /\ FromSeq' = Tail(FromSeq)
  /\ To' = To /\ ToSeq' = ToSeq

McuGives(b) ==
  /\ To' = To + 1 /\ ToSeq' = Append(ToSeq, b)
  /\ From' = From /\ FromSeq' = FromSeq

SecGives(b) ==
  /\ From' = From + 1 /\ FromSeq' = Append(FromSeq, b)
  /\ To' = To /\ ToSeq' = ToSeq

(* Taking from the first of two sequences.                                 *)
LEMMA TakenFirst ==
  ASSUME NEW s \in Seq(Byte), NEW t \in Seq(Byte), s # << >>
  PROVE  /\ s \o t # << >> /\ Head(s \o t) = Head(s) /\ Head(s) \in Byte
         /\ Tail(s) \o t = Tail(s \o t)
<1>1. /\ Head(s) \in Byte /\ Tail(s) \in Seq(Byte) /\ Len(Tail(s)) = Len(s) - 1
      /\ Head(s) = s[1] /\ \A i \in 1..Len(Tail(s)) : Tail(s)[i] = s[i + 1]
  BY HeadFirst, HeadTailProperties
<1>2. Len(s) \in Nat \ {0} /\ Len(t) \in Nat
  BY EmptySeq
<1>3. /\ s \o t \in Seq(Byte) /\ Len(s \o t) = Len(s) + Len(t)
      /\ \A i \in 1..(Len(s) + Len(t)) :
           (s \o t)[i] = IF i <= Len(s) THEN s[i] ELSE t[i - Len(s)]
  BY ConcatProperties
<1>4. s \o t # << >>
  BY <1>2, <1>3
<1>5. /\ Tail(s) \o t \in Seq(Byte) /\ Len(Tail(s) \o t) = Len(Tail(s)) + Len(t)
      /\ \A i \in 1..(Len(Tail(s)) + Len(t)) :
           (Tail(s) \o t)[i] = IF i <= Len(Tail(s)) THEN Tail(s)[i] ELSE t[i - Len(Tail(s))]
  BY <1>1, ConcatProperties
<1>6. /\ Tail(s \o t) \in Seq(Byte) /\ Len(Tail(s \o t)) = Len(s \o t) - 1
      /\ Head(s \o t) = (s \o t)[1]
      /\ \A i \in 1..Len(Tail(s \o t)) : Tail(s \o t)[i] = (s \o t)[i + 1]
  BY <1>3, <1>4, HeadFirst, HeadTailProperties
<1>7. Head(s \o t) = Head(s)
  BY <1>1, <1>2, <1>3, <1>6
<1>8. Tail(s) \o t = Tail(s \o t)
  <2>1. Len(Tail(s) \o t) = Len(Tail(s \o t))
    BY <1>1, <1>2, <1>3, <1>5, <1>6
  <2>2. ASSUME NEW i \in 1..Len(Tail(s) \o t)
        PROVE  (Tail(s) \o t)[i] = Tail(s \o t)[i]
    <3>1. /\ i \in 1..(Len(s) + Len(t) - 1) /\ i \in 1..Len(Tail(s \o t))
          /\ i + 1 \in 1..(Len(s) + Len(t)) /\ i \in 1..(Len(Tail(s)) + Len(t))
      BY <1>1, <1>2, <1>3, <1>5, <1>6, <2>1
    <3>2. Tail(s \o t)[i] = IF i + 1 <= Len(s) THEN s[i + 1] ELSE t[(i + 1) - Len(s)]
      BY ONLY <1>3, <1>6, <3>1
    <3>3. (Tail(s) \o t)[i] = IF i <= Len(Tail(s)) THEN Tail(s)[i] ELSE t[i - Len(Tail(s))]
      BY ONLY <1>5, <3>1
    <3>4. CASE i + 1 <= Len(s)
      <4>1. i <= Len(Tail(s)) /\ i \in 1..Len(Tail(s))
        BY <1>1, <1>2, <3>1, <3>4
      <4> QED
        BY ONLY <1>1, <3>2, <3>3, <3>4, <4>1
    <3>5. CASE ~(i + 1 <= Len(s))
      <4>1. ~(i <= Len(Tail(s))) /\ (i + 1) - Len(s) = i - Len(Tail(s))
        BY <1>1, <1>2, <3>1, <3>5
      <4> QED
        BY ONLY <3>2, <3>3, <3>5, <4>1
    <3> QED
      BY <3>4, <3>5
  <2> QED
    BY <1>5, <1>6, <2>1, <2>2, SeqEqual
<1> QED
  BY <1>1, <1>4, <1>7, <1>8

(* A byte is put in the MCU's transmitter.                                 *)
LEMMA McuSends ==
  ASSUME LineTyped, NEW b, Tx(b), UNCHANGED <<sring, toMcu, mring>>
  PROVE  McuGives(b)
<1>1. toSec = << >> /\ toSec' = <<b>> /\ sring' = sring
  BY DEF Tx
<1>2. Len(sring) \in Nat /\ sring \in Seq(Byte)
  BY DEF LineTyped
<1>3. To' = To + 1 /\ From' = From
  BY <1>1, <1>2 DEF To, From
<1>4. ToSeq' = Append(ToSeq, b) /\ FromSeq' = FromSeq
  <2>1. ToSeq = sring
    BY <1>1, <1>2, ConcatEmptySeq DEF ToSeq
  <2>2. sring \o <<b>> = Append(sring, b)
    BY <1>2
  <2> QED
    BY <1>1, <2>1, <2>2 DEF ToSeq, FromSeq
<1> QED
  BY <1>3, <1>4 DEF McuGives

LEMMA SecReads ==
  ASSUME LineTyped, uart_read_u8, UNCHANGED <<toSec, toMcu, mring>>
  PROVE  SecTakes /\ Head(sring) = Head(ToSeq) /\ Head(sring) \in Byte
<1>1. sring # << >> /\ sring' = Tail(sring)
  BY DEF uart_read_u8
<1>2. sring \in Seq(Byte) /\ toSec \in Seq(Byte)
  BY DEF LineTyped
<1>3. Len(sring) \in Nat \ {0} /\ Len(sring') = Len(sring) - 1 /\ Len(toSec) \in Nat
  BY <1>1, <1>2, HeadFirst, EmptySeq
<1>4. /\ ToSeq # << >> /\ Head(ToSeq) = Head(sring) /\ Head(sring) \in Byte
      /\ ToSeq' = Tail(ToSeq)
  BY <1>1, <1>2, TakenFirst DEF ToSeq
<1> QED
  BY <1>3, <1>4 DEF SecTakes, To, From, FromSeq

LEMMA McuReads ==
  ASSUME LineTyped, Rx, UNCHANGED <<toSec, sring, toMcu>>
  PROVE  McuTakes /\ Head(mring) = Head(FromSeq) /\ Head(mring) \in Byte
<1>1. mring # << >> /\ mring' = Tail(mring)
  BY DEF Rx
<1>2. mring \in Seq(Byte) /\ toMcu \in Seq(Byte)
  BY DEF LineTyped
<1>3. Len(mring) \in Nat \ {0} /\ Len(mring') = Len(mring) - 1 /\ Len(toMcu) \in Nat
  BY <1>1, <1>2, HeadFirst, EmptySeq
<1>4. /\ FromSeq # << >> /\ Head(FromSeq) = Head(mring) /\ Head(mring) \in Byte
      /\ FromSeq' = Tail(FromSeq)
  BY <1>1, <1>2, TakenFirst DEF FromSeq
<1> QED
  BY <1>3, <1>4 DEF McuTakes, To, From, ToSeq

LEMMA SecSends ==
  ASSUME LineTyped, NEW b \in Byte, uart_write_u8(b), UNCHANGED <<sring, toSec, mring>>
  PROVE  SecGives(b)
<1>1. /\ toMcu' = Append(toMcu, b) /\ mring \in Seq(Byte) /\ toMcu \in Seq(Byte)
      /\ Len(mring) \in Nat /\ Len(toMcu) \in Nat /\ mring' = mring
  BY DEF uart_write_u8, LineTyped
<1>2. Len(toMcu') = Len(toMcu) + 1 /\ FromSeq' = Append(FromSeq, b)
  BY <1>1, Behind DEF FromSeq
<1> QED
  BY <1>1, <1>2 DEF SecGives, From, To, ToSeq

(* A byte that finds room in the ring is still on its way.                 *)
LEMMA ToSecArrives ==
  ASSUME LineTyped, DeliverToSec, Len(sring) < SecCap
  PROVE  To' = To /\ ToSeq' = ToSeq /\ From' = From /\ FromSeq' = FromSeq
<1>1. toSec # << >> /\ toSec' = << >> /\ sring' = sring \o toSec
      /\ UNCHANGED <<toMcu, mring>>
  BY DEF DeliverToSec
<1>2. /\ sring \in Seq(Byte) /\ toSec \in Seq(Byte)
      /\ Len(sring) \in Nat /\ Len(toSec) \in Nat
  BY DEF LineTyped
<1>3. /\ Len(sring') = Len(sring) + Len(toSec) /\ sring' \in Seq(Byte) /\ Len(toSec') = 0
  BY <1>1, <1>2, ConcatProperties, EmptySeq
<1>4. ToSeq' = ToSeq
  BY <1>1, <1>3, ConcatEmptySeq DEF ToSeq
<1> QED
  BY <1>1, <1>2, <1>3, <1>4 DEF To, From, FromSeq

LEMMA ToMcuArrives ==
  ASSUME LineTyped, DeliverToMcu, Len(mring) < McuCap
  PROVE  To' = To /\ ToSeq' = ToSeq /\ From' = From /\ FromSeq' = FromSeq
<1>1. toMcu # << >> /\ toMcu' = Tail(toMcu) /\ mring' = Append(mring, Head(toMcu))
      /\ UNCHANGED <<toSec, sring>>
  BY DEF DeliverToMcu
<1>2. /\ mring \in Seq(Byte) /\ toMcu \in Seq(Byte)
      /\ Len(mring) \in Nat /\ Len(toMcu) \in Nat
  BY DEF LineTyped
<1>3. /\ Len(toMcu') = Len(toMcu) - 1 /\ Len(mring') = Len(mring) + 1
      /\ mring' \o toMcu' = mring \o toMcu
  BY <1>1, <1>2, HeadFirst, Passed
<1> QED
  BY <1>1, <1>2, <1>3 DEF To, From, ToSeq, FromSeq

(* A byte of the line is lost.                                             *)
LEMMA Loses ==
  ASSUME LineTyped
  PROVE  /\ LoseToSec => /\ To >= 1 /\ To' = To - 1 /\ losses' > 0
                         /\ From' = From /\ FromSeq' = FromSeq
         /\ LoseToMcu => /\ From >= 1 /\ From' = From - 1 /\ losses' > 0
                         /\ To' = To /\ ToSeq' = ToSeq
<1>1. losses \in Nat
  BY SizeAssumption DEF LineTyped
<1>2. ASSUME LoseToSec
      PROVE  /\ To >= 1 /\ To' = To - 1 /\ losses' > 0
             /\ From' = From /\ FromSeq' = FromSeq
  <2>1. /\ toSec # << >> /\ toSec' = << >> /\ losses' = losses + 1
        /\ UNCHANGED <<sring, toMcu, mring>>
    BY <1>2 DEF LoseToSec
  <2>2. Len(toSec) = 1 /\ Len(toSec') = 0 /\ Len(sring) \in Nat
    BY <2>1, OnLine, Counted, EmptySeq
  <2> QED
    BY <1>1, <2>1, <2>2 DEF To, From, FromSeq
<1>3. ASSUME LoseToMcu
      PROVE  /\ From >= 1 /\ From' = From - 1 /\ losses' > 0
             /\ To' = To /\ ToSeq' = ToSeq
  <2>1. /\ toMcu # << >> /\ toMcu' = Tail(toMcu) /\ losses' = losses + 1
        /\ UNCHANGED <<sring, toSec, mring>>
    BY <1>3 DEF LoseToMcu
  <2>2. /\ Len(toMcu) \in Nat \ {0} /\ Len(toMcu') = Len(toMcu) - 1 /\ Len(mring) \in Nat
    BY <2>1, Listed, Counted, HeadFirst, EmptySeq
  <2> QED
    BY <1>1, <2>1, <2>2 DEF To, From, ToSeq
<1> QED
  BY <1>2, <1>3


(* The steps of the SEC, in these terms.                                   *)
TakesIns ==
  /\ spc = "ins" /\ SecTakes
  /\ IF Head(ToSeq) \in 1..3 THEN spc' = "pin" /\ ins' = Head(ToSeq)
                             ELSE spc' = "ins" /\ ins' = ins
  /\ buf = << >>
  /\ UNCHANGED <<buf, key, iv, left>>

TakesDigit ==
  /\ spc = "pin" /\ SecTakes
  /\ buf' = Append(buf, Head(ToSeq)) /\ Head(ToSeq) \in Byte
  /\ Len(buf') = Len(buf) + 1
  /\ spc' = IF Len(buf') = PinLen THEN "status" ELSE "pin"
  /\ UNCHANGED <<ins, key, iv, left>>

GivesStatus ==
  /\ spc = "status"
  /\ SecGives(IF buf = Pin THEN STATUS_OK ELSE STATUS_BAD_PIN)
  /\ spc' = IF ins # INS_VERIFY_PIN /\ buf = Pin THEN "key" ELSE "ins"
  /\ buf' = << >>
  /\ UNCHANGED <<ins, key, iv, left>>

TakesKey ==
  /\ spc = "key" /\ SecTakes
  /\ key' = Head(ToSeq) % KeyCount
  /\ spc' = "key_status"
  /\ UNCHANGED <<ins, buf, iv, left>>

GivesKeyStatus ==
  /\ spc = "key_status"
  /\ IF key \in LockedKeys
       THEN SecGives(STATUS_KEY_LOCKED) /\ spc' = "ins"
       ELSE SecGives(STATUS_OK) /\ spc' = "count" /\ iv' = ZeroBlock
  /\ UNCHANGED <<ins, buf, key, left>>

TakesCount ==
  /\ spc = "count" /\ SecTakes
  /\ left' = Head(ToSeq)
  /\ spc' = IF Head(ToSeq) = 0 THEN "ins" ELSE "block"
  /\ buf = << >>
  /\ UNCHANGED <<ins, buf, key, iv>>

Ciphered(block) == IF ins = INS_ENCRYPT THEN CbcEncrypt(block) ELSE CbcDecrypt(block)

TakesByte ==
  /\ spc = "block" /\ SecTakes
  /\ Head(ToSeq) \in Byte
  /\ Len(buf') = Len(buf) + 1
  /\ IF Len(buf') < BlockLen
       THEN buf' = Append(buf, Head(ToSeq)) /\ UNCHANGED <<spc, iv>>
       ELSE spc' = "reply" /\ Ciphered(Append(buf, Head(ToSeq)))
  /\ UNCHANGED <<ins, key, left>>

GivesByte ==
  /\ spc = "reply"
  /\ SecGives(Head(buf))
  /\ buf # << >> /\ buf' = Tail(buf) /\ Len(buf') = Len(buf) - 1
  /\ IF buf' # << >>
       THEN UNCHANGED <<spc, left>>
       ELSE left' = left - 1 /\ spc' = IF left' = 0 THEN "ins" ELSE "block"
  /\ UNCHANGED <<ins, key, iv>>

Starts == spc = "init" /\ spc' = "ins" /\ (To = 0 => To' = 0)

SecMoves ==
  \/ Starts
  \/ TakesIns
  \/ TakesDigit
  \/ GivesStatus
  \/ TakesKey
  \/ GivesKeyStatus
  \/ TakesCount
  \/ TakesByte
  \/ GivesByte

LEMMA SecStepMoves ==
  ASSUME Ciphers, Typed, SecStep
  PROVE  SecMoves /\ UNCHANGED <<mcuVars, losses>>
<1>t. SecTyped /\ LineTyped /\ buf \in Seq(Byte) /\ Len(buf) \in Nat
  BY DEF Typed, SecTyped
<1>0. UNCHANGED <<mcuVars, losses>>
  BY DEF SecStep, SecInit, SecReadIns, SecReadPin, SecStatus, SecReadKey, SecKeyStatus,
     SecReadCount, SecReadBlock, SecWriteBlock, noise
<1>1. CASE SecInit
  <2>1. spc = "init" /\ spc' = "ins" /\ sring' = << >> /\ toSec' = toSec
    BY <1>1 DEF SecInit
  <2>2. ASSUME To = 0 PROVE To' = 0
    <3>1. toSec = << >>
      BY <2>2, <1>t, Counted
    <3> QED
      BY <2>1, <3>1 DEF To
  <2> QED
    BY <1>0, <2>1, <2>2 DEF SecMoves, Starts
<1>2. CASE SecReadIns
  <2>1. SecTakes /\ Head(sring) = Head(ToSeq)
    BY <1>2, <1>t, SecReads DEF SecReadIns
  <2>2. buf = << >>
    BY <1>2, <1>t DEF SecReadIns, SecTyped
  <2>3. {INS_VERIFY_PIN, INS_ENCRYPT, INS_DECRYPT} = 1..3
    BY DEF INS_VERIFY_PIN, INS_ENCRYPT, INS_DECRYPT
  <2> QED
    BY <1>0, <1>2, <2>1, <2>2, <2>3 DEF SecReadIns, SecMoves, TakesIns
<1>3. CASE SecReadPin
  <2>1. SecTakes /\ Head(sring) = Head(ToSeq) /\ Head(ToSeq) \in Byte
    BY <1>3, <1>t, SecReads DEF SecReadPin
  <2>2. buf' = Append(buf, Head(ToSeq))
    BY <1>3, <2>1 DEF SecReadPin
  <2>3. Len(buf') = Len(buf) + 1
    BY <1>t, <2>1, <2>2
  <2> QED
    BY <1>0, <1>3, <2>1, <2>2, <2>3 DEF SecReadPin, SecMoves, TakesDigit
<1>4. CASE SecStatus
  <2>1. STATUS_OK \in Byte /\ STATUS_BAD_PIN \in Byte
    BY DEF STATUS_OK, STATUS_BAD_PIN, Byte
  <2>2. SecGives(IF buf = Pin THEN STATUS_OK ELSE STATUS_BAD_PIN)
    BY <1>4, <1>t, <2>1, SecSends DEF SecStatus
  <2> QED
    BY <1>0, <1>4, <2>2 DEF SecStatus, SecMoves, GivesStatus
<1>5. CASE SecReadKey
  <2>1. SecTakes /\ Head(sring) = Head(ToSeq)
    BY <1>5, <1>t, SecReads DEF SecReadKey
  <2> QED
    BY <1>0, <1>5, <2>1 DEF SecReadKey, SecMoves, TakesKey
<1>6. CASE SecKeyStatus
  <2>0. STATUS_OK \in Byte /\ STATUS_KEY_LOCKED \in Byte
    BY DEF STATUS_OK, STATUS_KEY_LOCKED, Byte
  <2>1. CASE key \in LockedKeys
    <3>1. SecGives(STATUS_KEY_LOCKED)
      BY <1>6, <2>0, <2>1, <1>t, SecSends DEF SecKeyStatus
    <3> QED
      BY <1>0, <1>6, <2>1, <3>1 DEF SecKeyStatus, SecMoves, GivesKeyStatus
  <2>2. CASE key \notin LockedKeys
    <3>1. SecGives(STATUS_OK)
      BY <1>6, <2>0, <2>2, <1>t, SecSends DEF SecKeyStatus
    <3> QED
      BY <1>0, <1>6, <2>2, <3>1 DEF SecKeyStatus, SecMoves, GivesKeyStatus
  <2> QED
    BY <2>1, <2>2
<1>7. CASE SecReadCount
  <2>1. SecTakes /\ Head(sring) = Head(ToSeq)
    BY <1>7, <1>t, SecReads DEF SecReadCount
  <2>2. buf = << >>
    BY <1>7, <1>t DEF SecReadCount, SecTyped
  <2> QED
    BY <1>0, <1>7, <2>1, <2>2 DEF SecReadCount, SecMoves, TakesCount
<1>8. CASE SecReadBlock
  <2> DEFINE block == Append(buf, Head(ToSeq))
  <2>1. SecTakes /\ Head(sring) = Head(ToSeq) /\ Head(ToSeq) \in Byte
    BY <1>8, <1>t, SecReads DEF SecReadBlock
  <2>2. /\ block \in Seq(Byte) /\ Len(block) = Len(buf) + 1
        /\ Len(buf) < BlockLen /\ BlockLen \in Nat /\ spc = "block"
    BY <1>8, <1>t, <2>1, SizeAssumption DEF SecReadBlock, SecTyped
  <2>u. UNCHANGED <<ins, key, left>>
    BY <1>8 DEF SecReadBlock
  <2>3. CASE Len(block) < BlockLen
    <3>1. buf' = block /\ UNCHANGED <<spc, iv>>
      BY <1>8, <2>1, <2>3 DEF SecReadBlock
    <3>2. Len(buf') = Len(buf) + 1 /\ Len(buf') < BlockLen
      BY <2>2, <2>3, <3>1
    <3>3. TakesByte
      BY <2>1, <2>2, <2>u, <3>1, <3>2 DEF TakesByte
    <3> QED
      BY <1>0, <3>3 DEF SecMoves
  <2>4. CASE ~(Len(block) < BlockLen)
    <3>1. spc' = "reply" /\ Ciphered(block)
      BY <1>8, <2>1, <2>4 DEF SecReadBlock, Ciphered
    <3>2. Len(block) = BlockLen
      BY <1>t, <2>2, <2>4
    <3>3. Len(buf') = BlockLen
      <4>1. block \in Cipherblock
        BY <2>2, <3>2, WholeBlock
      <4>2. key \in 0..(KeyCount - 1) /\ iv \in Cipherblock
        BY <1>t DEF SecTyped
      <4>3. buf' \in Cipherblock
        BY <3>1, <4>1, <4>2 DEF Ciphered, CbcEncrypt, CbcDecrypt, Ciphers
      <4> QED
        BY <4>3, SizeAssumption DEF Cipherblock
    <3>4. Len(buf') = Len(buf) + 1 /\ ~(Len(buf') < BlockLen)
      BY <2>2, <2>4, <3>2, <3>3
    <3>5. TakesByte
      BY <2>1, <2>2, <2>u, <3>1, <3>4 DEF TakesByte
    <3> QED
      BY <1>0, <3>5 DEF SecMoves
  <2> QED
    BY <2>3, <2>4
<1>9. CASE SecWriteBlock
  <2>1. spc = "reply" /\ buf' = Tail(buf)
    BY <1>9 DEF SecWriteBlock
  <2>2. Len(buf) \in 1..BlockLen /\ BlockLen \in Nat
    BY <1>t, <2>1, SizeAssumption DEF SecTyped
  <2>3. buf # << >>
    BY <2>2, EmptySeq
  <2>4. Head(buf) \in Byte /\ Len(buf') = Len(buf) - 1
    BY <1>t, <2>1, <2>3, HeadFirst
  <2>5. SecGives(Head(buf))
    BY <1>9, <1>t, <2>4, SecSends DEF SecWriteBlock
  <2>6. GivesByte
    BY <1>9, <2>1, <2>3, <2>4, <2>5 DEF SecWriteBlock, GivesByte
  <2> QED
    BY <1>0, <2>6 DEF SecMoves
<1> QED
  BY <1>1, <1>2, <1>3, <1>4, <1>5, <1>6, <1>7, <1>8, <1>9 DEF SecStep

-----------------------------------------------------------------------------
(* The exchange goes on.                                                   *)

LEMMA Numbers ==
  ASSUME Typed
  PROVE  /\ To \in Nat /\ From \in Nat
         /\ Len(buf) \in Nat /\ Len(resp) \in Nat /\ Len(resp) < BlockLen
         /\ pos \in Nat /\ left \in Nat /\ blk \in Nat /\ losses \in Nat
         /\ PinLen \in Nat \ {0} /\ BlockLen \in Nat \ {0}
         /\ Told \in Nat /\ Told <= 1 + PinLen /\ (mpc = "tx_pin" => Told < 1 + PinLen)
         /\ Put \in Nat /\ Put <= BlockLen /\ (mpc = "tx_block" => Put < BlockLen)
         /\ Got \in Nat
         /\ mpc \in Blocks =>
              /\ ToDo \in Nat /\ blk >= 1
              /\ Len(cmd.data) \in Nat \ {0} /\ Len(cmd.data) = ToDo + blk
         /\ buf = << >> <=> Len(buf) = 0
<1>t. McuTyped /\ SecTyped /\ LineTyped
  BY DEF Typed
<1>1. To \in Nat /\ From \in Nat
  BY <1>t, Counted
<1>2. /\ PinLen \in Nat \ {0} /\ BlockLen \in Nat \ {0} /\ MaxBlocks \in Nat /\ MaxLoss \in Nat
  BY SizeAssumption
<1>3. /\ Len(buf) \in Nat /\ (buf = << >> <=> Len(buf) = 0)
      /\ left \in Nat
  <2>1. buf \in Seq(Byte) /\ left \in Byte
    BY <1>t DEF SecTyped
  <2> QED
    BY <2>1 DEF Byte
<1>4. /\ Len(resp) \in Nat /\ Len(resp) < BlockLen /\ pos \in Nat /\ blk \in Nat
      /\ (mpc = "tx_pin" => pos < PinLen) /\ (mpc = "tx_block" => pos < BlockLen)
  BY <1>2, <1>t DEF McuTyped
<1>5. losses \in Nat
  BY <1>2, <1>t DEF LineTyped
<1>6. /\ Told \in Nat /\ Told <= 1 + PinLen /\ (mpc = "tx_pin" => Told < 1 + PinLen)
      /\ Put \in Nat /\ Put <= BlockLen /\ (mpc = "tx_block" => Put < BlockLen)
      /\ Got \in Nat
  BY <1>2, <1>3, <1>4 DEF Told, Put, Got
<1>7. ASSUME mpc \in Blocks
      PROVE  /\ ToDo \in Nat /\ blk >= 1
             /\ Len(cmd.data) \in Nat \ {0} /\ Len(cmd.data) = ToDo + blk
  <2>1. Len(cmd.data) \in 1..MaxBlocks /\ blk \in 1..Len(cmd.data)
    BY <1>t, <1>7, CommandParts DEF McuTyped, Serving, Crypto, Blocks
  <2>2. \A m, n \in Nat : n <= m => m - n \in Nat /\ m = (m - n) + n
    OBVIOUS
  <2> QED
    BY <1>2, <2>1, <2>2 DEF ToDo
<1> QED
  BY <1>1, <1>2, <1>3, <1>4, <1>5, <1>6, <1>7

LEMMA NumbersNext ==
  ASSUME Typed'
  PROVE  /\ To' \in Nat /\ From' \in Nat
         /\ Len(buf') \in Nat /\ (buf' = << >> <=> Len(buf') = 0)
         /\ buf' \in Seq(Byte) /\ ToSeq' \in Seq(Byte) /\ FromSeq' \in Seq(Byte)
         /\ Len(ToSeq') = To' /\ Len(FromSeq') = From'
<1>1. LineTyped' /\ buf' \in Seq(Byte)
  BY DEF Typed, SecTyped
<1>2. To' \in Nat /\ From' \in Nat
  BY <1>1 DEF LineTyped, To, From
<1>3. /\ sring' \in Seq(Byte) /\ toSec' \in Seq(Byte)
      /\ mring' \in Seq(Byte) /\ toMcu' \in Seq(Byte)
  BY <1>1 DEF LineTyped
<1>4. /\ ToSeq' \in Seq(Byte) /\ Len(ToSeq') = Len(sring') + Len(toSec')
      /\ FromSeq' \in Seq(Byte) /\ Len(FromSeq') = Len(mring') + Len(toMcu')
  BY <1>3, ConcatProperties DEF ToSeq, FromSeq
<1>5. /\ Len(sring') \in Nat /\ Len(toSec') \in Nat
      /\ Len(mring') \in Nat /\ Len(toMcu') \in Nat
  BY <1>3
<1> QED
  BY <1>1, <1>2, <1>4, <1>5 DEF To, From

(* Sequences of one byte, and of one byte more.                            *)
LEMMA Single ==
  ASSUME NEW b \in Byte
  PROVE  /\ <<b>> \in Seq(Byte) /\ Len(<<b>>) = 1 /\ Head(<<b>>) = b /\ Tail(<<b>>) = << >>
         /\ Append(<< >>, b) = <<b>> /\ << >> \in Seq(Byte)
OBVIOUS

LEMMA Cons ==
  ASSUME NEW a \in Byte, NEW s \in Seq(Byte)
  PROVE  /\ <<a>> \o s \in Seq(Byte) /\ Len(<<a>> \o s) = 1 + Len(s)
         /\ <<a>> \o s # << >>
         /\ Head(<<a>> \o s) = a /\ Tail(<<a>> \o s) = s
         /\ \A i \in 1..Len(s) : (<<a>> \o s)[1 + i] = s[i]
<1>1. <<a>> \in Seq(Byte) /\ Len(<<a>>) = 1 /\ <<a>> # << >> /\ Head(<<a>>) = a
      /\ Tail(<<a>>) = << >>
  OBVIOUS
<1>2. /\ <<a>> \o s \in Seq(Byte) /\ Len(<<a>> \o s) = 1 + Len(s)
      /\ \A i \in 1..(1 + Len(s)) : (<<a>> \o s)[i] = IF i <= 1 THEN <<a>>[i] ELSE s[i - 1]
  BY <1>1, ConcatProperties
<1>3. /\ <<a>> \o s # << >> /\ Head(<<a>> \o s) = a
      /\ Tail(<<a>>) \o s = Tail(<<a>> \o s)
  BY <1>1, TakenFirst
<1>4. << >> \o s = s
  BY ConcatEmptySeq
<1>5. ASSUME NEW i \in 1..Len(s) PROVE (<<a>> \o s)[1 + i] = s[i]
  <2>1. 1 + i \in 1..(1 + Len(s)) /\ ~(1 + i <= 1) /\ (1 + i) - 1 = i
    OBVIOUS
  <2> QED
    BY <1>2, <2>1
<1> QED
  BY <1>1, <1>2, <1>3, <1>4, <1>5

(* What the MCU tells the SEC first.                                       *)
LEMMA MessageParts ==
  ASSUME McuTyped, mpc \in Serving
  PROVE  /\ Message \in Seq(Byte) /\ Len(Message) = 1 + PinLen
         /\ Head(Message) = Opcode(cmd) /\ Tail(Message) = cmd.pin /\ Message # << >>
         /\ Message[1] = Opcode(cmd)
         /\ \A i \in 1..PinLen : Message[1 + i] = cmd.pin[i]
<1>1. Opcode(cmd) \in 1..3 /\ cmd.pin \in Seq(Byte) /\ Len(cmd.pin) = PinLen
  BY CommandParts
<1>2. Opcode(cmd) \in Byte
  BY <1>1 DEF Byte
<1>3. /\ Message \in Seq(Byte) /\ Len(Message) = 1 + PinLen /\ Message # << >>
      /\ Head(Message) = Opcode(cmd) /\ Tail(Message) = cmd.pin
      /\ \A i \in 1..PinLen : Message[1 + i] = cmd.pin[i]
  BY <1>1, <1>2, Cons DEF Message
<1> QED
  BY <1>3, HeadFirst

(* The blocks of a command.                                                *)
LEMMA BlockParts ==
  ASSUME Typed, mpc \in Blocks
  PROVE  /\ Service!WellFormed(cmd) /\ Service!IsCrypto(cmd)
         /\ cmd.data[blk] \in Seq(Byte) /\ Len(cmd.data[blk]) = BlockLen
         /\ cmd.data[blk] \in Cipherblock
         /\ SubSeq(cmd.data[blk], 1, BlockLen) = cmd.data[blk]
         /\ SubSeq(cmd.data[blk], 1, 0) = << >>
<1>1. McuTyped /\ mpc \in Serving /\ mpc \in Crypto
  BY DEF Typed, Blocks, Serving, Crypto
<1>2. /\ Service!WellFormed(cmd) /\ Service!IsCrypto(cmd)
      /\ cmd.data \in Seq(Cipherblock) /\ blk \in 1..Len(cmd.data)
  BY <1>1, CommandParts DEF McuTyped, Blocks
<1>3. cmd.data[blk] \in Cipherblock /\ BlockLen \in Nat
  BY <1>2, SizeAssumption
<1>4. cmd.data[blk] \in Seq(Byte) /\ Len(cmd.data[blk]) = BlockLen
  BY <1>3 DEF Cipherblock
<1>5. SubSeq(cmd.data[blk], 1, BlockLen) = cmd.data[blk]
  BY <1>4, SubSeqFull
<1>6. SubSeq(cmd.data[blk], 1, 0) = << >>
  BY SubSeqEmpty
<1> QED
  BY <1>2, <1>3, <1>4, <1>5, <1>6

(* Where the MCU is does not change while the SEC or the line moves.       *)
LEMMA McuStill ==
  ASSUME UNCHANGED mcuVars
  PROVE  /\ UNCHANGED <<mpc, cmd, pos, blk, resp, reply>>
         /\ Told' = Told /\ Put' = Put /\ ToDo' = ToDo
         /\ Message' = Message /\ Opcode(cmd)' = Opcode(cmd) /\ Verdict' = Verdict
         /\ Out' = Out /\ NextVector' = NextVector
BY DEF mcuVars, Told, Put, ToDo, Message, Opcode, Verdict, Out, NextVector,
   Service!Encrypted, Service!Decrypted, Service!Vector

(* The SEC hears the opcode and the PIN, and answers.                      *)
LEMMA SecHears ==
  ASSUME Typed, Typed', mpc \in {"tx_pin", "rx_pin", "rx_ack"},
         SecMoves, UNCHANGED <<mcuVars, losses>>, Asking \/ PinAnswered
  PROVE  Asking' \/ PinAnswered'
<1>m. /\ UNCHANGED <<mpc, cmd, losses>> /\ Told' = Told /\ Message' = Message
      /\ Opcode(cmd)' = Opcode(cmd) /\ Verdict' = Verdict
  BY McuStill
<1>t. McuTyped /\ SecTyped /\ LineTyped /\ mpc \in Serving
  BY DEF Typed, Serving, Crypto
<1>n. /\ To \in Nat /\ From \in Nat /\ Len(buf) \in Nat /\ PinLen \in Nat \ {0}
      /\ Told \in Nat /\ Told <= 1 + PinLen /\ (mpc = "tx_pin" => Told < 1 + PinLen)
      /\ Got \in Nat
  BY Numbers
<1>s. ToSeq \in Seq(Byte) /\ Len(ToSeq) = To /\ buf \in Seq(Byte) /\ ins \in Byte
  BY <1>t, Listed DEF SecTyped, Byte
<1>o. /\ Opcode(cmd) \in 1..3 /\ cmd.pin \in Seq(Byte) /\ Len(cmd.pin) = PinLen
      /\ Opcode(cmd) \in Byte
  BY <1>t, CommandParts DEF Byte
<1>1. CASE PinAnswered
  BY <1>1 DEF PinAnswered, SecMoves, Starts, TakesIns, TakesDigit, GivesStatus,
     TakesKey, GivesKeyStatus, TakesCount, TakesByte, GivesByte, SecTakes
<1>2. CASE Asking /\ TakesIns
  <2>1. /\ spc = "ins" /\ Got = 0 /\ To >= 1 /\ To' = To - 1 /\ From' = 0
        /\ ToSeq # << >> /\ ToSeq' = Tail(ToSeq) /\ buf' = << >> /\ Heard = << >>
    BY <1>2 DEF Asking, TakesIns, SecTakes, Got, Heard
  <2>2. spc' \in {"ins", "pin"} /\ Got' <= 1
    BY <1>2, <2>1 DEF TakesIns, Got
  <2>g. Got' \in Nat
    BY <2>1, <2>2 DEF Got
  <2>3. ASSUME losses > 0, To + Got < Told PROVE Asking'
    <3>1. To' + Got' < Told
      <4>1. \A t, g, h, n \in Nat : t >= 1 /\ g = 0 /\ t + g < n /\ h <= 1 => (t - 1) + h < n
        OBVIOUS
      <4> QED
        BY ONLY <1>n, <2>1, <2>2, <2>3, <2>g, <4>1
    <3> QED
      BY <1>m, <2>1, <2>2, <2>3, <3>1 DEF Asking
  <2>4. ASSUME To + Got = Told, Heard \o ToSeq = SubSeq(Message, 1, Told)
        PROVE  Asking'
    <3>1. ToSeq = SubSeq(Message, 1, Told)
      BY <1>s, <2>1, <2>4, ConcatEmptySeq
    <3>2. Head(ToSeq) = ToSeq[1] /\ Head(ToSeq) \in Byte /\ ToSeq = <<Head(ToSeq)>> \o Tail(ToSeq)
      BY <1>s, <2>1, HeadFirst
    <3>3. Message \in Seq(Byte) /\ Len(Message) = 1 + PinLen /\ Message[1] = Opcode(cmd)
      BY <1>t, MessageParts
    <3>4. SubSeq(Message, 1, Told)[1] = Message[1]
      BY <1>n, <2>1, <2>4, <3>3
    <3>5. Head(ToSeq) = Opcode(cmd)
      BY <3>1, <3>2, <3>3, <3>4
    <3>6. spc' = "pin" /\ ins' = Opcode(cmd)
      BY <1>2, <1>o, <3>5 DEF TakesIns
    <3>7. Got' = 1
      BY <2>1, <3>6 DEF Got
    <3>8. Heard' = <<Head(ToSeq)>>
      <4>1. Heard' = <<Opcode(cmd)>> \o << >>
        BY <2>1, <3>6 DEF Heard
      <4> QED
        BY <4>1, <3>5, <1>o, Single, ConcatEmptySeq
    <3>9. Heard' \o ToSeq' = SubSeq(Message, 1, Told)
      BY <2>1, <3>1, <3>2, <3>8
    <3> QED
      BY <1>m, <1>n, <2>1, <2>4, <3>6, <3>7, <3>9 DEF Asking
  <2> QED
    BY <1>2, <2>3, <2>4 DEF Asking
<1>3. CASE Asking /\ TakesDigit
  <2>1. /\ spc = "pin" /\ Got = 1 + Len(buf) /\ To >= 1 /\ To' = To - 1 /\ From' = 0
        /\ ToSeq # << >> /\ ToSeq' = Tail(ToSeq) /\ Heard = <<ins>> \o buf
        /\ Len(buf') = Len(buf) + 1 /\ ins' = ins /\ spc' \in {"pin", "status"}
        /\ buf' = Append(buf, Head(ToSeq)) /\ Head(ToSeq) \in Byte
    BY <1>3 DEF Asking, TakesDigit, SecTakes, Got, Heard
  <2>2. Got' = Got + 1
    BY <1>n, <2>1 DEF Got
  <2>3. Heard' \o ToSeq' = Heard \o ToSeq
    <3>1. <<ins>> \in Seq(Byte) /\ Heard \in Seq(Byte)
      BY <1>s, <2>1, Single, Cons
    <3>2. Heard' = <<ins>> \o Append(buf, Head(ToSeq))
      BY <2>1 DEF Heard
    <3>3. Heard' = Append(Heard, Head(ToSeq))
      BY <1>s, <2>1, <3>1, <3>2, Behind
    <3> QED
      BY <1>s, <2>1, <3>1, <3>3, Passed
  <2>4. To' + Got' = To + Got
    BY <1>n, <2>1, <2>2
  <2> QED
    BY <1>3, <1>m, <2>1, <2>3, <2>4 DEF Asking
<1>4. CASE Asking /\ GivesStatus
  <2>1. spc = "status" /\ Got = 1 + PinLen /\ Len(buf) = PinLen
    BY <1>4, <1>t DEF GivesStatus, Got, SecTyped
  <2>2. To = 0 /\ Told = 1 + PinLen /\ mpc # "tx_pin" /\ ~(To + Got < Told)
    BY <1>4, <1>n, <2>1 DEF Asking
  <2>3. Heard \o ToSeq = SubSeq(Message, 1, Told) /\ From = 0
    BY <1>4, <2>2 DEF Asking
  <2>4. ToSeq = << >> /\ FromSeq = << >>
    BY <1>s, <1>t, <2>2, <2>3, Listed, EmptySeq
  <2>5. <<ins>> \o buf \in Seq(Byte) /\ Head(<<ins>> \o buf) = ins /\ Tail(<<ins>> \o buf) = buf
    BY <1>s, Cons
  <2>6. <<ins>> \o buf = Message
    <3>1. Heard = <<ins>> \o buf
      BY <2>1 DEF Heard
    <3>2. Heard \o << >> = Heard
      BY <2>5, <3>1, ConcatEmptySeq
    <3>3. SubSeq(Message, 1, 1 + PinLen) = Message
      BY <1>t, MessageParts, SubSeqFull
    <3> QED
      BY <2>2, <2>3, <2>4, <3>1, <3>2, <3>3
  <2>7. ins = Opcode(cmd) /\ buf = cmd.pin
    BY <1>t, <2>5, <2>6, MessageParts
  <2>8. SecGives(Verdict) /\ spc' = IF ins # INS_VERIFY_PIN /\ cmd.pin = Pin THEN "key" ELSE "ins"
    BY <1>4, <2>7 DEF GivesStatus, Verdict
  <2>9. From' = 1 /\ FromSeq' = <<Verdict>> /\ To' = 0
    BY <2>2, <2>3, <2>4, <2>8 DEF SecGives
  <2>10. ins' = ins
    BY <1>4 DEF GivesStatus
  <2> QED
    BY <1>m, <2>2, <2>7, <2>8, <2>9, <2>10 DEF PinAnswered
<1>5. CASE Asking /\ ~TakesIns /\ ~TakesDigit /\ ~GivesStatus
  BY <1>5 DEF Asking, SecMoves, Starts, TakesKey, GivesKeyStatus, TakesCount, TakesByte,
     GivesByte
<1> QED
  BY <1>1, <1>2, <1>3, <1>4, <1>5

(* The SEC learns the key, and answers.                                    *)
LEMMA SecLearnsKey ==
  ASSUME Typed, Typed', mpc = "rx_key", SecMoves, UNCHANGED <<mcuVars, losses>>, KeyAsked
  PROVE  KeyAsked'
<1>m. UNCHANGED <<mpc, cmd, losses>> /\ Opcode(cmd)' = Opcode(cmd)
  BY McuStill
<1>n. cmd.key \in 0..(KeyCount - 1) /\ KeyCount \in 1..256
  <2>1. McuTyped /\ mpc \in Serving
    BY DEF Typed, Serving, Crypto
  <2>2. Service!WellFormed(cmd) /\ Service!IsCrypto(cmd)
    BY <2>1 DEF McuTyped, Crypto
  <2>3. cmd.key \in Nat
    <3>1. cmd.key \in Byte
      BY <2>1, <2>2, CommandParts
    <3>2. \A k \in Byte : k \in Nat
      BY DEF Byte
    <3> QED
      BY ONLY <3>1, <3>2
  <2>4. cmd.key < KeyCount
    BY <2>2 DEF Service!WellFormed, Service!IsCrypto
  <2> QED
    BY <2>3, <2>4, SizeAssumption
<1>d. To \in Nat /\ From \in Nat
  BY Numbers
<1>1. CASE TakesKey
  <2>0. To >= 1 /\ To' = To - 1 /\ spc = "key" /\ spc' = "key_status" /\ ins' = ins
        /\ From' = From /\ key' = Head(ToSeq) % KeyCount
    BY <1>1 DEF TakesKey, SecTakes
  <2>1. To = 1 /\ From = 0 /\ ToSeq = <<cmd.key>> /\ ins = Opcode(cmd)
    BY <2>0 DEF KeyAsked
  <2>2. key' = cmd.key
    <3>1. Head(ToSeq) = cmd.key
      BY <2>1
    <3>2. \A c \in 1..256 : \A k \in 0..(c - 1) : k % c = k
      OBVIOUS
    <3> QED
      BY <1>n, <2>0, <3>1, <3>2
  <2> QED
    BY <1>m, <2>0, <2>1, <2>2 DEF KeyAsked
<1>2. CASE GivesKeyStatus
  <2>1. spc = "key_status" /\ ins = Opcode(cmd) /\ key = cmd.key /\ To = 0 /\ From = 0
    BY <1>2 DEF GivesKeyStatus, KeyAsked
  <2>2. FromSeq = << >>
    BY <2>1, Listed, EmptySeq DEF Typed
  <2>3. UNCHANGED <<ins, key>>
    BY <1>2 DEF GivesKeyStatus
  <2>4. CASE key \in LockedKeys
    <3>1. SecGives(STATUS_KEY_LOCKED) /\ spc' = "ins"
      BY <1>2, <2>4 DEF GivesKeyStatus
    <3>2. From' = 1 /\ To' = 0 /\ FromSeq' = <<STATUS_KEY_LOCKED>>
      BY <2>1, <2>2, <3>1 DEF SecGives
    <3> QED
      BY <1>m, <2>1, <2>4, <3>1, <3>2 DEF KeyAsked
  <2>5. CASE key \notin LockedKeys
    <3>1. SecGives(STATUS_OK) /\ spc' = "count" /\ iv' = ZeroBlock
      BY <1>2, <2>5 DEF GivesKeyStatus
    <3>2. From' = 1 /\ To' = 0 /\ FromSeq' = <<STATUS_OK>>
      BY <2>1, <2>2, <3>1 DEF SecGives
    <3>3. Prepared'
      BY <1>m, <2>1, <2>3, <2>5, <3>1 DEF Prepared
    <3> QED
      BY <3>1, <3>2, <3>3 DEF KeyAsked
  <2> QED
    BY <2>4, <2>5
<1>3. CASE ~TakesKey /\ ~GivesKeyStatus
  BY <1>3, <1>d DEF KeyAsked, SecMoves, Starts, TakesIns, TakesDigit, GivesStatus,
     TakesCount, TakesByte, GivesByte, SecTakes
<1> QED
  BY <1>1, <1>2, <1>3

(* The SEC takes the count and the block, ciphers it, gives the result.    *)
LEMMA CountTaken ==
  ASSUME IInv, Typed', mpc \in Blocks, SecMoves, UNCHANGED <<mcuVars, losses>>,
         ins = Opcode(cmd), key = cmd.key, CountSent
  PROVE  BlockSent' /\ UNCHANGED <<ins, key>>
<1>t. Typed /\ LineTyped /\ Answered /\ mpc = mpc'
  BY DEF IInv, Typed, mcuVars
<1>m. UNCHANGED <<cmd, blk, resp, reply>> /\ Put' = Put /\ ToDo' = ToDo
  BY McuStill
<1>n. /\ Put \in Nat /\ Put <= BlockLen /\ BlockLen \in Nat /\ ToDo \in Nat /\ To \in Nat
      /\ Len(cmd.data) \in Nat \ {0} /\ Len(cmd.data) = ToDo + blk
  BY <1>t, Numbers
<1>1. TakesCount
  BY DEF CountSent, SecMoves, Starts, TakesIns, TakesDigit, GivesStatus, TakesKey,
     GivesKeyStatus, TakesByte, GivesByte
<1>2. Head(ToSeq) = Len(cmd.data) /\ Tail(ToSeq) = SubSeq(cmd.data[blk], 1, Put)
  <2>1. SubSeq(cmd.data[blk], 1, Put) \in Seq(Byte)
    <3>1. cmd.data[blk] \in Seq(Byte) /\ Len(cmd.data[blk]) = BlockLen
      BY <1>t, BlockParts
    <3>2. \A i \in 1..Put : cmd.data[blk][i] \in Byte
      BY <1>n, <3>1
    <3> QED
      BY <1>n, <3>2, SubSeqProperties
  <2>2. Len(cmd.data) \in Byte
    <3>1. Typed /\ mpc \in Serving /\ Service!IsCrypto(cmd)
      BY <1>t, BlockParts DEF Serving, Crypto, Blocks
    <3>2. Len(cmd.data) \in 1..MaxBlocks /\ MaxBlocks \in 1..255
      BY <3>1, CommandParts, SizeAssumption DEF Typed
    <3>3. ASSUME NEW k \in 1..MaxBlocks PROVE k \in Byte
      BY <3>2 DEF Byte
    <3> QED
      BY <3>2, <3>3
  <2> QED
    BY <2>1, <2>2, Cons DEF CountSent
<1>3. /\ spc' = "block" /\ left' = ToDo + 1 /\ buf' = << >> /\ To' = Put /\ From' = 0
      /\ ToSeq' = SubSeq(cmd.data[blk], 1, Put) /\ iv' = ZeroBlock
      /\ UNCHANGED <<ins, key>>
  BY <1>1, <1>2, <1>n DEF TakesCount, SecTakes, CountSent
<1>4. reply = << >>
  BY <1>t DEF CountSent, Answered
<1>5. Service!Vector(cmd, reply) = ZeroBlock
  BY <1>4 DEF Service!Vector
<1>6. << >> \o ToSeq' = ToSeq' /\ Len(buf') = 0
  BY <1>3, NumbersNext, ConcatEmptySeq
<1>7. To' + Len(buf') = Put'
  BY <1>m, <1>n, <1>3, <1>6
<1>8. resp' = << >>
  BY <1>m DEF CountSent
<1>9. Service!Vector(cmd, reply)' = ZeroBlock
  BY <1>m, <1>5
<1>10. buf' \o ToSeq' = SubSeq(cmd.data[blk], 1, Put)'
  BY <1>m, <1>3, <1>6
<1> QED
  BY <1>m, <1>3, <1>7, <1>8, <1>9, <1>10 DEF BlockSent

LEMMA BlockTaken ==
  ASSUME IInv, Typed', mpc \in Blocks, SecMoves, UNCHANGED <<mcuVars, losses>>,
         ins = Opcode(cmd), key = cmd.key, BlockSent
  PROVE  (BlockSent' \/ Replying') /\ UNCHANGED <<ins, key>>
<1>t. Typed /\ LineTyped /\ Answered /\ SecTyped
  BY DEF IInv, Typed
<1>m. UNCHANGED <<mpc, cmd, blk, resp, reply>> /\ Put' = Put /\ ToDo' = ToDo
      /\ Out' = Out /\ NextVector' = NextVector
  BY McuStill
<1>n. /\ Put \in Nat /\ Put <= BlockLen /\ BlockLen \in Nat \ {0} /\ ToDo \in Nat
      /\ To \in Nat /\ Len(buf) \in Nat /\ blk \in Nat /\ blk >= 1
  BY <1>t, Numbers
<1>1. TakesByte
  BY DEF BlockSent, SecMoves, Starts, TakesIns, TakesDigit, GivesStatus, TakesKey,
     GivesKeyStatus, TakesCount, GivesByte
<1> DEFINE block == Append(buf, Head(ToSeq))
<1>2. /\ To >= 1 /\ To' = To - 1 /\ From' = 0 /\ ToSeq' = Tail(ToSeq) /\ ToSeq # << >>
      /\ FromSeq' = FromSeq /\ Len(buf') = Len(buf) + 1 /\ Head(ToSeq) \in Byte
      /\ UNCHANGED <<ins, key, left>> /\ left' = ToDo + 1 /\ From = 0 /\ resp = << >>
      /\ To + Len(buf) = Put
  BY <1>1 DEF TakesByte, SecTakes, BlockSent
<1>3. block \o ToSeq' = SubSeq(cmd.data[blk], 1, Put) /\ block \in Seq(Byte)
  BY <1>t, <1>2, Listed, Passed DEF BlockSent, SecTyped
<1>4. To' + Len(buf') = Put
  BY <1>n, <1>2
<1>5. CASE Len(buf') < BlockLen
  <2>1. buf' = block /\ spc' = "block" /\ iv' = iv
    BY <1>1, <1>5 DEF TakesByte, BlockSent
  <2>2. iv' = Service!Vector(cmd, reply)' /\ buf' \o ToSeq' = SubSeq(cmd.data[blk], 1, Put)'
    BY <1>m, <1>3, <2>1 DEF BlockSent
  <2>3. resp' = << >> /\ To' + Len(buf') = Put'
    BY <1>m, <1>2, <1>4
  <2> QED
    BY <1>m, <1>2, <2>1, <2>2, <2>3 DEF BlockSent
<1>6. CASE ~(Len(buf') < BlockLen)
  <2>1. spc' = "reply" /\ Ciphered(block)
    BY <1>1, <1>6 DEF TakesByte
  <2>2. Put = BlockLen /\ To' = 0 /\ Len(buf') = BlockLen
    BY <1>n, <1>2, <1>4, <1>6
  <2>3. ToSeq' = << >> /\ FromSeq' = << >>
    BY <1>2, <2>2, NumbersNext, EmptySeq
  <2>4. block = cmd.data[blk]
    <3>1. block \o ToSeq' = block
      BY <1>3, <2>3, ConcatEmptySeq
    <3> QED
      BY <1>t, <1>3, <2>2, <3>1, BlockParts
  <2>5. Service!IsCrypto(cmd) /\ Len(reply) + 1 = blk
    <3>1. Len(reply) = blk - 1
      BY <1>t DEF Answered
    <3> QED
      BY <1>t, <1>n, <3>1, BlockParts
  <2>6. /\ ins = INS_ENCRYPT <=> cmd.ins = "encrypt"
        /\ iv = Service!Vector(cmd, reply)
    BY <2>5 DEF Opcode, Service!IsCrypto, INS_VERIFY_PIN, INS_ENCRYPT, INS_DECRYPT, BlockSent
  <2>7. buf' = Out /\ iv' = NextVector
    <3>1. CASE cmd.ins = "encrypt"
      <4>1. CbcEncrypt(cmd.data[blk])
        BY <2>1, <2>4, <2>6, <3>1 DEF Ciphered
      <4>2. Out = BlockCipher(key, XorBlock(cmd.data[blk], iv))
        BY <2>5, <2>6, <3>1 DEF Out, Service!Encrypted
      <4> QED
        BY <3>1, <4>1, <4>2 DEF CbcEncrypt, NextVector
    <3>2. CASE cmd.ins # "encrypt"
      <4>1. CbcDecrypt(cmd.data[blk])
        BY <2>1, <2>4, <2>6, <3>2 DEF Ciphered
      <4>2. Out = XorBlock(BlockDecipher(key, cmd.data[blk]), iv)
        BY <2>5, <2>6, <3>2 DEF Out, Service!Decrypted
      <4> QED
        BY <3>2, <4>1, <4>2 DEF CbcDecrypt, NextVector
    <3> QED
      BY <3>1, <3>2
  <2>8. resp' \o (FromSeq' \o buf') = Out'
    <3>1. << >> \o buf' = buf' /\ << >> \o (<< >> \o buf') = buf'
      BY NumbersNext, ConcatEmptySeq
    <3> QED
      BY <1>m, <1>2, <2>3, <2>7, <3>1
  <2>9. Len(buf') + From' + Len(resp') = BlockLen /\ Put' = BlockLen
    <3>1. Len(resp') = 0
      BY <1>m, <1>2
    <3> QED
      BY <1>m, <1>n, <1>2, <2>2, <3>1
  <2>10. left' = ToDo' + 1 /\ iv' = NextVector'
    BY <1>m, <1>2, <2>7
  <2> QED
    BY <1>2, <2>1, <2>2, <2>8, <2>9, <2>10 DEF Replying
<1> QED
  BY <1>2, <1>5, <1>6

LEMMA BlockGiven ==
  ASSUME IInv, Typed', mpc \in Blocks, SecMoves, UNCHANGED <<mcuVars, losses>>, Replying
  PROVE  (Replying' \/ Replied') /\ UNCHANGED <<ins, key>>
<1>t. Typed /\ LineTyped /\ SecTyped
  BY DEF IInv, Typed
<1>m. UNCHANGED <<mpc, cmd, blk, resp, reply>> /\ Put' = Put /\ ToDo' = ToDo
      /\ Out' = Out /\ NextVector' = NextVector
  BY McuStill
<1>n. /\ BlockLen \in Nat \ {0} /\ ToDo \in Nat /\ Len(resp) \in Nat
      /\ To \in Nat /\ From \in Nat /\ Len(buf) \in Nat
  BY <1>t, Numbers
<1>1. GivesByte
  BY DEF Replying, SecMoves, Starts, TakesIns, TakesDigit, GivesStatus, TakesKey,
     GivesKeyStatus, TakesCount, TakesByte
<1>2. /\ From' = From + 1 /\ To' = 0 /\ FromSeq' = Append(FromSeq, Head(buf))
      /\ buf # << >> /\ buf' = Tail(buf) /\ Len(buf') = Len(buf) - 1
      /\ UNCHANGED <<ins, key, iv>> /\ left = ToDo + 1 /\ Put = BlockLen
      /\ Len(buf) + From + Len(resp) = BlockLen
  BY <1>1 DEF GivesByte, SecGives, Replying
<1>3. FromSeq' \o buf' = FromSeq \o buf
  BY <1>t, <1>2, Listed, Passed DEF SecTyped
<1>4. Len(buf') + From' + Len(resp') = BlockLen /\ resp' \o (FromSeq' \o buf') = Out'
      /\ iv' = NextVector' /\ Put' = BlockLen
  <2>1. Len(buf') + From' + Len(resp') = BlockLen
    <3>1. \A b, f, r, n \in Nat : b + f + r = n => (b - 1) + (f + 1) + r = n
      OBVIOUS
    <3>2. Len(resp') = Len(resp)
      BY <1>m
    <3>3. /\ Len(buf') = Len(buf) - 1 /\ From' = From + 1
          /\ Len(buf) + From + Len(resp) = BlockLen
      BY <1>2
    <3>4. BlockLen \in Nat
      BY <1>n
    <3>5. (Len(buf) - 1) + (From + 1) + Len(resp) = BlockLen
      BY ONLY <1>n, <3>1, <3>3, <3>4
    <3> QED
      BY ONLY <3>2, <3>3, <3>5
  <2>2. resp' \o (FromSeq' \o buf') = Out'
    BY <1>m, <1>3 DEF Replying
  <2>3. iv' = NextVector' /\ Put' = BlockLen
    BY <1>m, <1>2 DEF Replying
  <2> QED
    BY <2>1, <2>2, <2>3
<1>5. CASE buf' # << >>
  <2>1. spc' = "reply" /\ left' = ToDo' + 1
    BY <1>1, <1>m, <1>2, <1>5 DEF GivesByte
  <2> QED
    BY <1>2, <1>4, <2>1 DEF Replying
<1>6. CASE buf' = << >>
  <2>1. left' = ToDo' /\ spc' = (IF ToDo' = 0 THEN "ins" ELSE "block")
    BY <1>1, <1>m, <1>n, <1>2, <1>6 DEF GivesByte
  <2>2. FromSeq' \o buf' = FromSeq' /\ Len(buf') = 0
    BY <1>6, NumbersNext, ConcatEmptySeq
  <2>3. From' + Len(resp') = BlockLen
    BY <1>m, <1>n, <1>2, <1>4, <2>2
  <2> QED
    BY <1>2, <1>4, <1>6, <2>1, <2>2, <2>3 DEF Replied
<1> QED
  BY <1>2, <1>5, <1>6

(* Once a byte was lost: the SEC's steps.                                  *)
LEMMA SecStrays ==
  ASSUME Typed, Typed', mpc \in Blocks, SecMoves, UNCHANGED <<mcuVars, losses>>, Stray
  PROVE  Stray'
<1>m. UNCHANGED <<resp, losses>> /\ Put' = Put
  BY McuStill
<1>n. /\ To \in Nat /\ From \in Nat /\ To' \in Nat /\ From' \in Nat
      /\ Len(buf) \in Nat /\ Len(buf') \in Nat /\ Len(resp) \in Nat /\ Put \in Nat
      /\ (buf = << >> <=> Len(buf) = 0) /\ (buf' = << >> <=> Len(buf') = 0)
  BY Numbers, NumbersNext
<1>1. spc' \notin {"off", "init"} /\ losses' > 0
  BY <1>m DEF Stray, SecMoves, Starts, TakesIns, TakesDigit, GivesStatus, TakesKey,
     GivesKeyStatus, TakesCount, TakesByte, GivesByte
<1>2. CASE spc = "count" /\ From = 0 /\ resp = << >> /\ To = Put
  <2>1. TakesCount
    BY <1>2 DEF SecMoves, Starts, TakesIns, TakesDigit, GivesStatus, TakesKey,
       GivesKeyStatus, TakesByte, GivesByte
  <2>2. spc' \in {"ins", "block"} /\ Len(buf') = 0
    BY <2>1, <1>n DEF TakesCount
  <2>3. Due' = 0 /\ To' = Put - 1 /\ From' = 0 /\ Len(resp') = 0 /\ Put >= 1
    BY <1>m, <1>n, <1>2, <2>1, <2>2 DEF TakesCount, SecTakes, Due
  <2> QED
    BY <1>m, <1>n, <1>1, <2>3 DEF Stray
<1>3. CASE From + To + Due + Len(resp) < Put
  <2>d. Due \in Nat /\ Due' \in Nat
    BY <1>n DEF Due
  <2>1. From' + To' + Due' <= From + To + Due
    <3>1. CASE Starts
      BY <3>1 DEF Starts, Stray
    <3>2. CASE TakesIns
      BY <1>n, <2>d, <3>2 DEF TakesIns, SecTakes, Due
    <3>3. CASE TakesDigit
      BY <1>n, <2>d, <3>3 DEF TakesDigit, SecTakes, Due
    <3>4. CASE GivesStatus
      BY <1>n, <2>d, <3>4 DEF GivesStatus, SecGives, Due
    <3>5. CASE TakesKey
      BY <1>n, <2>d, <3>5 DEF TakesKey, SecTakes, Due
    <3>6. CASE GivesKeyStatus
      BY <1>n, <2>d, <3>6 DEF GivesKeyStatus, SecGives, Due
    <3>7. CASE TakesCount
      BY <1>n, <2>d, <3>7 DEF TakesCount, SecTakes, Due
    <3>8. CASE TakesByte
      <4>1. spc' \in {"block", "reply"} /\ Due = Len(buf) /\ To' = To - 1 /\ From' = From
            /\ Len(buf') = Len(buf) + 1
        BY <3>8 DEF TakesByte, SecTakes, Due
      <4>2. Due' = Len(buf')
        BY <4>1 DEF Due
      <4> QED
        BY <1>n, <4>1, <4>2
    <3>9. CASE GivesByte
      <4>1. From' = From + 1 /\ To' = To /\ Len(buf') = Len(buf) - 1
        BY <3>9 DEF GivesByte, SecGives
      <4>2. Due = Len(buf)
        BY <3>9 DEF GivesByte, Due
      <4>3. spc' \in {"reply", "block"} \/ (spc' = "ins" /\ Len(buf') = 0)
        BY <1>n, <3>9 DEF GivesByte
      <4>4. Due' = Len(buf')
        BY <4>3 DEF Due
      <4> QED
        BY <1>n, <4>1, <4>2, <4>4
    <3> QED
      BY <3>1, <3>2, <3>3, <3>4, <3>5, <3>6, <3>7, <3>8, <3>9 DEF SecMoves
  <2>2. From' + To' + Due' + Len(resp) < Put
    <3>1. \A m, n, r, p \in Nat : n <= m /\ m + r < p => n + r < p
      OBVIOUS
    <3>2. From + To + Due \in Nat /\ From' + To' + Due' \in Nat
      <4>1. \A a, b, c \in Nat : a + b + c \in Nat
        OBVIOUS
      <4> QED
        BY ONLY <1>n, <2>d, <4>1
    <3> QED
      BY ONLY <1>n, <1>3, <2>1, <3>1, <3>2
  <2> QED
    BY <1>m, <1>1, <2>2 DEF Stray
<1> QED
  BY <1>2, <1>3 DEF Stray

LEMMA SecKeepsFlow ==
  ASSUME Ciphers, IInv, Typed', SecStep
  PROVE  Flow'
<1>t. Typed /\ Flow
  BY DEF IInv
<1>m. SecMoves /\ UNCHANGED <<mcuVars, losses>> /\ UNCHANGED mpc /\ Opcode(cmd)' = Opcode(cmd)
      /\ UNCHANGED cmd
  BY <1>t, SecStepMoves, McuStill
<1>n. To \in Nat /\ From \in Nat
  BY <1>t, Numbers
<1> USE DEF SecMoves, Starts, TakesIns, TakesDigit, GivesStatus, TakesKey, GivesKeyStatus,
            TakesCount, TakesByte, GivesByte, SecTakes
<1>1. ASSUME mpc = "reset_high" PROVE FALSE
  BY <1>1, <1>t, <1>m DEF Flow
<1>2. ASSUME mpc = "flush" PROVE spc' \in {"init", "ins"} /\ To' = 0
  BY <1>2, <1>t, <1>m, <1>n DEF Flow
<1>3. ASSUME mpc \in AtRest PROVE FALSE
  BY <1>3, <1>t, <1>m DEF Flow, Quiet
<1>4. ASSUME mpc = "tx_key" \/ mpc = "tx_count" PROVE FALSE
  BY <1>4, <1>t, <1>m DEF Flow, KeyDue, CountDue
<1>5. ASSUME mpc \in {"tx_pin", "rx_pin", "rx_ack"} PROVE (Asking \/ PinAnswered)'
  BY <1>5, <1>t, <1>m, SecHears DEF Flow
<1>6. ASSUME mpc = "rx_key" PROVE KeyAsked'
  BY <1>6, <1>t, <1>m, SecLearnsKey DEF Flow
<1>7. ASSUME mpc \in Blocks PROVE Exchange'
  <2>1. CASE Stray
    BY <1>7, <1>t, <1>m, <2>1, SecStrays DEF Exchange
  <2>2. CASE InSync /\ (CountSent \/ BlockSent \/ Replying)
    <3>1. (BlockSent' \/ Replying' \/ Replied') /\ UNCHANGED <<ins, key>>
      BY <1>7, <1>m, <2>2, CountTaken, BlockTaken, BlockGiven DEF InSync
    <3> QED
      BY <1>m, <2>2, <3>1 DEF InSync, Exchange
  <2>3. CASE Replied
    BY <1>m, <2>3 DEF Replied
  <2> QED
    BY <1>7, <1>t, <2>1, <2>2, <2>3 DEF Flow, Exchange, InSync, Blocks
<1> QED
  BY <1>m, <1>1, <1>2, <1>3, <1>4, <1>5, <1>6, <1>7 DEF Flow, AtRest, Blocks

(* No ring is full when a byte arrives.                                    *)
LEMMA Room ==
  ASSUME Roomy, IInv
  PROVE  NoOverrun
<1>t. Typed /\ Flow
  BY DEF IInv
<1>n. /\ To \in Nat /\ From \in Nat /\ Len(buf) \in Nat /\ Len(resp) \in Nat
      /\ PinLen \in Nat \ {0} /\ BlockLen \in Nat \ {0} /\ Got \in Nat
      /\ Told \in Nat /\ Put \in Nat /\ Told <= 1 + PinLen /\ Put <= BlockLen
  BY <1>t, Numbers
<1>c. /\ SecCap \in Nat /\ McuCap \in Nat
      /\ Len(sring) \in Nat /\ (toSec # << >> => Len(sring) < To)
      /\ Len(mring) \in Nat /\ (toMcu # << >> => Len(mring) < From)
  BY <1>t, SizeAssumption, Counted DEF Typed
<1>r. PinLen < SecCap /\ BlockLen < SecCap /\ BlockLen <= McuCap
  BY DEF Roomy
<1>1. ASSUME To <= 1 + PinLen \/ To <= 1 + BlockLen, From <= BlockLen
      PROVE  NoOverrun
  BY <1>n, <1>c, <1>r, <1>1 DEF NoOverrun
<1>2. CASE Asking
  <2>1. From = 0 /\ To + Got <= Told
    BY <1>n, <1>2 DEF Asking
  <2>2. To <= 1 + PinLen
    BY <1>n, <2>1
  <2> QED
    BY <1>1, <1>n, <2>1, <2>2
<1>3. CASE Quiet \/ PinAnswered \/ KeyDue \/ CountDue \/ KeyAsked
  <2>1. To <= 1 /\ From <= 1
    BY <1>3 DEF Quiet, PinAnswered, KeyDue, CountDue, KeyAsked
  <2> QED
    BY <1>1, <1>n, <2>1
<1>4. CASE Exchange
  <2>1. CASE CountSent \/ BlockSent \/ Replying \/ Replied
    BY <1>1, <1>n, <2>1 DEF CountSent, BlockSent, Replying, Replied
  <2>2. CASE Stray
    <3>1. Due \in Nat
      BY <1>n DEF Due
    <3>2. To <= Put /\ From <= Put
      BY <1>n, <2>2, <3>1 DEF Stray
    <3> QED
      BY <1>1, <1>n, <3>2
  <2> QED
    BY <1>4, <2>1, <2>2 DEF Exchange, InSync
<1>5. mpc \in Handling =>
        Quiet \/ Asking \/ PinAnswered \/ KeyDue \/ CountDue \/ KeyAsked \/ Exchange
  BY <1>t DEF Flow, AtRest, Handling, Receiving
<1> QED
  BY <1>2, <1>3, <1>4, <1>5 DEF NoOverrun

(* What does not touch a program, nor a byte, keeps the exchange.          *)
LEMMA Unmoved ==
  ASSUME Flow, UNCHANGED <<mcuVars, secVars, losses>>,
         To' = To, From' = From, ToSeq' = ToSeq, FromSeq' = FromSeq
  PROVE  Flow'
<1>m. /\ UNCHANGED <<mpc, cmd, pos, blk, resp, reply, spc, ins, buf, key, iv, left, losses>>
      /\ Told' = Told /\ Put' = Put /\ ToDo' = ToDo
      /\ Message' = Message /\ Opcode(cmd)' = Opcode(cmd) /\ Verdict' = Verdict
      /\ Out' = Out /\ NextVector' = NextVector
  BY McuStill DEF secVars
<1>1. Quiet' = Quiet /\ KeyDue' = KeyDue
  BY <1>m DEF Quiet, KeyDue
<1>2. Asking => Asking'
  BY <1>m DEF Asking, Got, Heard
<1>3. PinAnswered => PinAnswered'
  BY <1>m DEF PinAnswered
<1>4. CountDue => CountDue'
  BY <1>m DEF CountDue, Prepared
<1>5. KeyAsked => KeyAsked'
  BY <1>m DEF KeyAsked, Prepared
<1>6. InSync => InSync'
  <2>1. CountSent => CountSent'
    BY <1>m DEF CountSent
  <2>2. BlockSent => BlockSent'
    BY <1>m DEF BlockSent, Service!Vector
  <2>3. Replying => Replying'
    BY <1>m DEF Replying
  <2>4. Replied => Replied'
    BY <1>m DEF Replied
  <2> QED
    BY <1>m, <2>1, <2>2, <2>3, <2>4 DEF InSync
<1>7. Stray => Stray'
  BY <1>m DEF Stray, Due
<1> QED
  BY <1>m, <1>1, <1>2, <1>3, <1>4, <1>5, <1>6, <1>7 DEF Flow, Exchange

(* The line: a byte that arrives changes nothing, and the exchange takes   *)
(* the loss of any byte into account.                                      *)
LEMMA LineKeepsFlow ==
  ASSUME Roomy, IInv, Typed',
         DeliverToSec \/ DeliverToMcu \/ LoseToSec \/ LoseToMcu
  PROVE  Flow'
<1>t. Typed /\ Flow /\ LineTyped
  BY DEF IInv, Typed
<1>u. UNCHANGED <<mcuVars, secVars>>
  BY DEF DeliverToSec, DeliverToMcu, LoseToSec, LoseToMcu
<1>m. /\ UNCHANGED <<mpc, cmd, pos, blk, resp, spc, ins, buf, left>>
      /\ Told' = Told /\ Put' = Put /\ ToDo' = ToDo
      /\ Opcode(cmd)' = Opcode(cmd) /\ Verdict' = Verdict
  BY <1>u, McuStill DEF secVars
<1>n. /\ To \in Nat /\ From \in Nat /\ To' \in Nat /\ From' \in Nat
      /\ Len(buf) \in Nat /\ Len(resp) \in Nat
      /\ PinLen \in Nat \ {0} /\ BlockLen \in Nat \ {0} /\ Got \in Nat
      /\ Told \in Nat /\ Put \in Nat /\ losses \in Nat /\ Put <= BlockLen
  BY <1>t, Numbers, NumbersNext
<1>0. CASE mpc \in {"boot", "reset_low", "disconnect"}
  BY <1>m, <1>0 DEF Flow, AtRest
<1>1. CASE mpc \in {"reset_high", "flush"}
  <2>1. To = 0
    BY <1>1, <1>t DEF Flow
  <2>2. toSec = << >> /\ sring = << >>
    BY <1>t, <2>1, Counted
  <2>3. UNCHANGED <<toSec, sring>>
    BY <2>2 DEF DeliverToSec, DeliverToMcu, LoseToSec, LoseToMcu
  <2>4. To' = 0
    BY <2>1, <2>3 DEF To
  <2> QED
    BY <1>1, <1>t, <1>m, <2>4 DEF Flow, AtRest
<1>2. CASE mpc \in Handling \cup {"listen"}
  <2>r. /\ toSec # << >> => Len(sring) < SecCap
        /\ toMcu # << >> => Len(mring) < McuCap
    <3>1. CASE mpc \in Handling
      BY <3>1, Room DEF NoOverrun
    <3>2. CASE mpc = "listen"
      BY <1>t, <3>2, Counted DEF Flow, AtRest, Quiet
    <3> QED
      BY <1>2, <3>1, <3>2
  <2>1. CASE DeliverToSec
    <3>1. toSec # << >> /\ UNCHANGED losses
      BY <2>1 DEF DeliverToSec, noise
    <3> QED
      BY <1>t, <1>u, <2>1, <2>r, <3>1, ToSecArrives, Unmoved
  <2>2. CASE DeliverToMcu
    <3>1. toMcu # << >> /\ UNCHANGED losses
      BY <2>2 DEF DeliverToMcu, noise
    <3> QED
      BY <1>t, <1>u, <2>2, <2>r, <3>1, ToMcuArrives, Unmoved
  <2>3. CASE LoseToSec \/ LoseToMcu
    <3>e. /\ losses' > 0
          /\ \/ (To >= 1 /\ To' = To - 1 /\ From' = From)
             \/ (From >= 1 /\ From' = From - 1 /\ To' = To)
      BY <1>t, <2>3, Loses
    <3>1. ~Quiet /\ ~KeyDue /\ ~CountDue
      BY <1>n, <3>e DEF Quiet, KeyDue, CountDue
    <3>2. ASSUME Asking PROVE Asking'
      <4>1. Got' = Got
        BY <1>m DEF Got
      <4>2. From = 0 /\ To + Got <= Told /\ spc \in {"ins", "pin", "status"}
        BY <1>n, <3>2 DEF Asking
      <4>3. To >= 1 /\ To' = To - 1 /\ From' = 0
        BY <3>e, <4>2
      <4>4. To' + Got < Told
        BY <1>n, <4>2, <4>3
      <4> QED
        BY <1>m, <3>e, <4>1, <4>2, <4>3, <4>4 DEF Asking
    <3>3. ASSUME PinAnswered PROVE PinAnswered'
      <4>1. From = 1 /\ From' = 0 /\ To' = 0
        BY <3>e, <3>3 DEF PinAnswered
      <4> QED
        BY <1>m, <3>e, <3>3, <4>1 DEF PinAnswered
    <3>4. ASSUME KeyAsked PROVE KeyAsked'
      <4>1. To' = 0 /\ From' = 0 /\ spc \in {"key", "count", "ins"}
        BY <3>e, <3>4 DEF KeyAsked
      <4> QED
        BY <1>m, <3>e, <4>1 DEF KeyAsked
    <3>d. Due' = Due /\ Due \in Nat
      BY <1>m, <1>n DEF Due
    <3>f. From' + To' < From + To /\ From + To \in Nat /\ From' + To' \in Nat
      <4>1. \A f, t, g, u \in Nat :
              (u = t - 1 /\ g = f) \/ (g = f - 1 /\ u = t) =>
                g + u < f + t /\ f + t \in Nat /\ g + u \in Nat
        OBVIOUS
      <4> QED
        BY ONLY <1>n, <3>e, <4>1
    <3>5. ASSUME From + To + Due + Len(resp) <= Put, spc \notin {"off", "init"}
          PROVE  Stray'
      <4>1. \A a, b, c, d, p \in Nat : a < b /\ b + c + d <= p => a + c + d < p
        OBVIOUS
      <4>2. From' + To' + Due + Len(resp) < Put
        BY ONLY <1>n, <3>d, <3>f, <3>5, <4>1
      <4> QED
        BY <1>m, <3>d, <3>e, <3>5, <4>2 DEF Stray
    <3>6. ASSUME Stray PROVE Stray'
      <4>1. CASE From + To + Due + Len(resp) < Put
        <5>1. \A a, b, c, d, p \in Nat : a + b + c + d < p => a + b + c + d <= p
          OBVIOUS
        <5>2. From + To + Due + Len(resp) <= Put
          BY ONLY <1>n, <3>d, <4>1, <5>1
        <5> QED
          BY <3>5, <3>6, <5>2 DEF Stray
      <4>2. CASE spc = "count" /\ From = 0 /\ resp = << >> /\ To = Put
        BY <1>n, <3>5, <4>2 DEF Due
      <4> QED
        BY <3>6, <4>1, <4>2 DEF Stray
    <3>7. ASSUME InSync PROVE Stray'
      <4>1. CASE CountSent
        <5>1. To' = Put /\ From' = 0
          BY <1>n, <3>e, <4>1 DEF CountSent
        <5> QED
          BY <1>m, <3>e, <4>1, <5>1 DEF Stray, CountSent
      <4>2. CASE BlockSent
        <5>1. From + To + Due + Len(resp) <= Put
          BY <1>n, <4>2 DEF BlockSent, Due
        <5> QED
          BY <3>5, <4>2, <5>1 DEF BlockSent
      <4>3. CASE Replying
        <5>1. From + To + Due + Len(resp) <= Put
          BY <1>n, <4>3 DEF Replying, Due
        <5> QED
          BY <3>5, <4>3, <5>1 DEF Replying
      <4>4. CASE Replied
        <5>1. Due = 0
          BY <4>4 DEF Replied, Due
        <5>2. From + To + Due + Len(resp) <= Put /\ spc \notin {"off", "init"}
          BY <1>n, <4>4, <5>1 DEF Replied
        <5> QED
          BY <3>5, <5>2
      <4> QED
        BY <3>7, <4>1, <4>2, <4>3, <4>4 DEF InSync
    <3> QED
      BY <1>2, <1>m, <1>t, <3>1, <3>2, <3>3, <3>4, <3>6, <3>7
         DEF Flow, Exchange, Handling, Receiving, AtRest
  <2> QED
    BY <2>1, <2>2, <2>3
<1> QED
  BY <1>t, <1>0, <1>1, <1>2 DEF Typed, McuTyped

(* The MCU tells the opcode and the PIN.                                   *)
LEMMA McuTells ==
  ASSUME IInv, TxIns \/ TxPin
  PROVE  Asking' /\ mpc' \in {"tx_pin", "rx_pin", "rx_ack"}
<1>t. Typed /\ Flow /\ LineTyped /\ McuTyped /\ SecTyped /\ mpc \in Serving
  BY DEF IInv, Typed, TxIns, TxPin, Serving
<1>n. /\ To \in Nat /\ From \in Nat /\ Len(buf) \in Nat /\ pos \in Nat /\ Got \in Nat
      /\ PinLen \in Nat \ {0} /\ Told \in Nat /\ losses \in Nat
  BY <1>t, Numbers
<1>p. /\ Message \in Seq(Byte) /\ Len(Message) = 1 + PinLen /\ Message[1] = Opcode(cmd)
      /\ \A i \in 1..PinLen : Message[1 + i] = cmd.pin[i]
  BY <1>t, MessageParts
<1>u. UNCHANGED <<cmd, secVars, losses, sring, toMcu, mring>>
  BY DEF TxIns, TxPin, noise
<1>m. Message' = Message /\ UNCHANGED <<spc, ins, buf>> /\ Got' = Got /\ Heard' = Heard
  BY <1>u DEF Message, Opcode, secVars, Got, Heard
<1>l. ToSeq \in Seq(Byte)
  BY <1>t, Listed
<1>1. CASE TxIns
  <2>1. To = 0 /\ From = 0 /\ spc = "ins" /\ mpc' = "tx_pin" /\ pos' = 0
    BY <1>1, <1>t DEF TxIns, Flow, AtRest, Quiet
  <2>2. McuGives(Opcode(cmd))
    BY <1>1, <1>t, <1>u, McuSends DEF TxIns
  <2>3. Told' = 1 /\ Got = 0 /\ Heard = << >>
    BY <2>1 DEF Told, Got, Heard
  <2>4. To' = 1 /\ From' = 0
    BY <2>1, <2>2 DEF McuGives
  <2>5. ToSeq' = SubSeq(Message, 1, 1)
    <3>1. ToSeq = << >>
      BY <1>t, <2>1, Listed, EmptySeq
    <3>2. SubSeq(Message, 1, 0) = << >>
      BY SubSeqEmpty
    <3>3. Append(SubSeq(Message, 1, 0), Message[0 + 1]) = SubSeq(Message, 1, 0 + 1)
      BY <1>n, <1>p, OneMore
    <3> QED
      BY <1>p, <2>2, <3>1, <3>2, <3>3 DEF McuGives
  <2>6. << >> \o ToSeq' = ToSeq'
    <3>1. SubSeq(Message, 1, 1) \in Seq(Byte)
      <4>1. Len(SubSeq(Message, 1, 0 + 1)) = 1 /\ Message[1] \in Byte
        BY <1>n, <1>p
      <4>2. \A i \in 1..1 : Message[i] \in Byte
        BY <4>1
      <4> QED
        BY <4>2, SubSeqProperties
    <3> QED
      BY <2>5, <3>1, ConcatEmptySeq
  <2> QED
    BY <1>m, <2>1, <2>3, <2>4, <2>5, <2>6 DEF Asking
<1>2. CASE TxPin
  <2>1. Asking /\ mpc = "tx_pin" /\ pos < PinLen
    BY <1>2, <1>t DEF TxPin, Flow, PinAnswered, McuTyped
  <2>2. McuGives(cmd.pin[pos + 1])
    BY <1>2, <1>t, <1>u, McuSends DEF TxPin
  <2>3. /\ Told = 1 + pos /\ Told' = Told + 1
        /\ mpc' \in {"tx_pin", "rx_pin", "rx_ack"}
    <3>1. CASE pos + 1 < PinLen
      <4>1. pos' = pos + 1 /\ mpc' = "tx_pin"
        BY <1>2, <2>1, <3>1 DEF TxPin
      <4> QED
        BY <1>n, <2>1, <4>1 DEF Told
    <3>2. CASE ~(pos + 1 < PinLen)
      <4>1. mpc' \in {"rx_pin", "rx_ack"}
        BY <1>2, <3>2 DEF TxPin
      <4>2. pos + 1 = PinLen
        BY <1>n, <2>1, <3>2
      <4> QED
        BY <1>n, <2>1, <4>1, <4>2 DEF Told
    <3> QED
      BY <3>1, <3>2
  <2>4. /\ To' = To + 1 /\ From' = From /\ From = 0 /\ spc \in {"ins", "pin", "status"}
        /\ ToSeq' = Append(ToSeq, cmd.pin[pos + 1])
    BY <2>1, <2>2 DEF McuGives, Asking
  <2>5. ASSUME losses > 0, To + Got < Told PROVE Asking'
    <3>1. To' + Got' < Told'
      BY <1>n, <1>m, <2>3, <2>4, <2>5
    <3> QED
      BY <1>m, <1>u, <2>4, <2>5, <3>1 DEF Asking
  <2>6. ASSUME To + Got = Told, Heard \o ToSeq = SubSeq(Message, 1, Told) PROVE Asking'
    <3>1. To' + Got' = Told'
      BY <1>n, <1>m, <2>3, <2>4, <2>6
    <3>2. Heard \in Seq(Byte)
      <4>1. ins \in Byte /\ buf \in Seq(Byte)
        BY <1>t DEF SecTyped, Byte
      <4>2. <<ins>> \o buf \in Seq(Byte) /\ << >> \in Seq(Byte)
        BY <4>1, Cons
      <4> QED
        BY <4>2 DEF Heard
    <3>3. pos + 1 \in 1..PinLen /\ 1 + (pos + 1) = Told + 1 /\ Told < Len(Message)
      BY <1>n, <1>p, <2>1, <2>3
    <3>4. cmd.pin[pos + 1] = Message[Told + 1]
      BY ONLY <1>p, <3>3
    <3>5. /\ Append(SubSeq(Message, 1, Told), Message[Told + 1]) = SubSeq(Message, 1, Told + 1)
          /\ Message[Told + 1] \in Byte
      BY <1>n, <1>p, <3>3, OneMore
    <3>6. Heard \o Append(ToSeq, Message[Told + 1]) = Append(Heard \o ToSeq, Message[Told + 1])
      BY <1>l, <3>2, <3>5, Behind
    <3>7. Heard' \o ToSeq' = SubSeq(Message', 1, Told')
      BY <1>m, <2>3, <2>4, <2>6, <3>4, <3>5, <3>6
    <3> QED
      BY <1>m, <2>4, <3>1, <3>7 DEF Asking
  <2> QED
    BY <2>1, <2>3, <2>5, <2>6 DEF Asking
<1> QED
  BY <1>1, <1>2

(* The MCU sends a byte of a block.                                        *)
LEMMA McuSendsBlock ==
  ASSUME IInv, Typed', TxBlock
  PROVE  Exchange' /\ mpc' \in Blocks
<1>t. Typed /\ LineTyped /\ SecTyped /\ mpc = "tx_block" /\ mpc \in Blocks
  BY DEF IInv, Typed, TxBlock, Blocks
<1>n. /\ To \in Nat /\ From \in Nat /\ Len(buf) \in Nat /\ Len(resp) \in Nat /\ pos \in Nat
      /\ BlockLen \in Nat \ {0} /\ Put \in Nat /\ Put < BlockLen
  BY <1>t, Numbers
<1>1. Exchange
  BY <1>t DEF IInv, Flow, Blocks
<1>u. /\ UNCHANGED <<cmd, blk, resp, reply, secVars, losses, sring, toMcu, mring>>
      /\ UNCHANGED <<spc, ins, buf, key, iv, left>> /\ ToDo' = ToDo /\ Opcode(cmd)' = Opcode(cmd)
  BY DEF TxBlock, noise, secVars, ToDo, Opcode
<1>2. Put = pos /\ Put' = Put + 1 /\ mpc' \in Blocks
  <2>1. CASE pos + 1 < BlockLen
    <3>1. pos' = pos + 1 /\ mpc' = "tx_block"
      BY <2>1, <1>t DEF TxBlock
    <3> QED
      BY <1>t, <3>1 DEF Put, Blocks
  <2>2. CASE ~(pos + 1 < BlockLen)
    <3>1. mpc' = "rx_block"
      BY <2>2 DEF TxBlock
    <3>2. pos + 1 = BlockLen
      BY <1>n, <1>t, <2>2 DEF Put
    <3> QED
      BY <1>t, <3>1, <3>2 DEF Put, Blocks
  <2> QED
    BY <2>1, <2>2
<1> DEFINE x == cmd.data[blk]
<1>3. /\ To' = To + 1 /\ From' = From /\ ToSeq' = Append(ToSeq, x[Put + 1])
  <2>1. McuGives(x[Put + 1])
    BY <1>t, <1>u, <1>2, McuSends DEF TxBlock
  <2> QED
    BY <2>1 DEF McuGives
<1>4. /\ Append(SubSeq(x, 1, Put), x[Put + 1]) = SubSeq(x, 1, Put + 1)
      /\ SubSeq(x, 1, Put) \in Seq(Byte) /\ x[Put + 1] \in Byte
  BY <1>n, <1>t, BlockParts, OneMore
<1>5. ASSUME InSync PROVE Exchange'
  <2>1. CASE CountSent
    <3>1. Len(cmd.data) \in Byte
      <4>1. McuTyped /\ mpc \in Serving /\ Service!IsCrypto(cmd)
        BY <1>t, BlockParts DEF Serving, Crypto, Typed
      <4>2. Len(cmd.data) \in 1..MaxBlocks /\ MaxBlocks \in 1..255
        BY <4>1, CommandParts, SizeAssumption
      <4>3. ASSUME NEW k \in 1..MaxBlocks PROVE k \in Byte
        BY <4>2 DEF Byte
      <4> QED
        BY <4>2, <4>3
    <3>2. ToSeq' = <<Len(cmd.data)>> \o SubSeq(x, 1, Put + 1)
      <4>1. <<Len(cmd.data)>> \in Seq(Byte)
        BY <3>1
      <4>2. <<Len(cmd.data)>> \o Append(SubSeq(x, 1, Put), x[Put + 1]) =
              Append(<<Len(cmd.data)>> \o SubSeq(x, 1, Put), x[Put + 1])
        BY <1>4, <4>1, Behind
      <4>3. ToSeq = <<Len(cmd.data)>> \o SubSeq(x, 1, Put)
        BY <2>1 DEF CountSent
      <4> QED
        BY <1>3, <1>4, <4>2, <4>3
    <3>3. To' = 1 + Put'
      BY <1>n, <1>2, <1>3, <2>1 DEF CountSent
    <3>4. CountSent'
      BY <1>u, <1>2, <1>3, <2>1, <3>2, <3>3 DEF CountSent
    <3> QED
      BY <1>5, <1>u, <3>4 DEF InSync, Exchange
  <2>2. CASE BlockSent
    <3>1. buf \o ToSeq' = SubSeq(x, 1, Put + 1)
      <4>1. buf \o Append(ToSeq, x[Put + 1]) = Append(buf \o ToSeq, x[Put + 1])
        BY <1>4, <1>t, Listed, Behind DEF SecTyped
      <4>2. buf \o ToSeq = SubSeq(x, 1, Put)
        BY <2>2 DEF BlockSent
      <4> QED
        BY <1>3, <1>4, <4>1, <4>2
    <3>2. To' + Len(buf) = Put'
      BY <1>n, <1>2, <1>3, <2>2 DEF BlockSent
    <3>3. Service!Vector(cmd, reply)' = Service!Vector(cmd, reply)
      BY <1>u DEF Service!Vector
    <3>4. BlockSent'
      BY <1>u, <1>2, <1>3, <2>2, <3>1, <3>2, <3>3 DEF BlockSent
    <3> QED
      BY <1>5, <1>u, <3>4 DEF InSync, Exchange
  <2>3. CASE Replying \/ Replied
    BY <1>n, <2>3 DEF Replying, Replied
  <2> QED
    BY <1>5, <2>1, <2>2, <2>3 DEF InSync
<1>6. ASSUME Stray PROVE Exchange'
  <2>1. Due' = Due /\ Due \in Nat
    BY <1>n, <1>u DEF Due
  <2>2. CASE From + To + Due + Len(resp) < Put
    <3>1. From' + To' + Due + Len(resp) < Put'
      <4>1. \A f, t, d, r, p \in Nat : f + t + d + r < p => f + (t + 1) + d + r < p + 1
        OBVIOUS
      <4> QED
        BY ONLY <1>n, <1>2, <1>3, <2>1, <2>2, <4>1
    <3> QED
      BY <1>u, <1>6, <2>1, <3>1 DEF Stray, Exchange
  <2>3. CASE spc = "count" /\ From = 0 /\ resp = << >> /\ To = Put
    BY <1>u, <1>2, <1>3, <1>6, <2>3 DEF Stray, Exchange
  <2> QED
    BY <1>6, <2>2, <2>3 DEF Stray
<1> QED
  BY <1>1, <1>2, <1>5, <1>6 DEF Exchange

(* What is printed last.                                                   *)
LEMMA PrintedLast ==
  ASSUME NEW r \in Seq(Printed), NEW p \in Printed
  PROVE  /\ Append(r, p) \in Seq(Printed) /\ Len(Append(r, p)) = Len(r) + 1
         /\ Append(r, p)[Len(r) + 1] = p /\ Append(r, p) # << >>
<1>1. Append(r, p) \in Seq(Printed) /\ Len(Append(r, p)) = Len(r) + 1 /\ Len(r) \in Nat
  BY AppendProperties, LenProperties
<1>2. Append(r, p)[Len(r) + 1] = p
  BY AppendProperties
<1>3. Append(r, p) # << >>
  BY <1>1, EmptySeq
<1> QED
  BY <1>1, <1>2, <1>3

(* The MCU reads a byte of a response; the last one completes the block    *)
(* the service promises, and never comes if the exchange went astray.      *)
LEMMA McuReadsBlock ==
  ASSUME IInv, Typed', RxBlock
  PROVE  \/ /\ mpc' = "rx_block" /\ Exchange'
            /\ UNCHANGED <<blk, reply>>
         \/ /\ reply' = Append(reply, Service!Block(Out)) /\ Out \in Cipherblock
            /\ \/ blk < Len(cmd.data) /\ blk' = blk + 1 /\ mpc' = "tx_block" /\ Exchange'
               \/ blk = Len(cmd.data) /\ mpc' = "print_end" /\ Quiet'
<1>t. /\ Typed /\ LineTyped /\ SecTyped /\ McuTyped /\ mpc = "rx_block" /\ mpc \in Blocks
      /\ Answered
  BY DEF IInv, Typed, RxBlock, Blocks
<1>n. /\ To \in Nat /\ From \in Nat /\ Len(buf) \in Nat /\ Len(resp) \in Nat
      /\ BlockLen \in Nat \ {0} /\ ToDo \in Nat /\ blk \in Nat /\ blk >= 1
      /\ Len(cmd.data) \in Nat \ {0} /\ Len(cmd.data) = ToDo + blk
      /\ Len(resp) < BlockLen
  BY <1>t, Numbers
<1>d. Due \in Nat
  BY <1>n DEF Due
<1>1. Exchange /\ Put = BlockLen /\ pos = 0
  BY <1>t DEF IInv, Flow, Blocks, Put, McuTyped
<1>u. /\ UNCHANGED <<cmd, pos, spc, ins, buf, key, iv, left, losses>>
      /\ Opcode(cmd)' = Opcode(cmd)
  BY DEF RxBlock, secVars, noise, Opcode
<1>2. McuTakes /\ Head(mring) = Head(FromSeq) /\ Head(mring) \in Byte
  BY <1>t, McuReads DEF RxBlock
<1>3. /\ From >= 1 /\ From' = From - 1 /\ To' = To /\ ToSeq' = ToSeq
      /\ FromSeq # << >> /\ FromSeq' = Tail(FromSeq)
  BY <1>2 DEF McuTakes
<1>s. FromSeq \in Seq(Byte) /\ Len(FromSeq) = From /\ resp \in Seq(Byte) /\ buf \in Seq(Byte)
  BY <1>t, Listed DEF SecTyped, McuTyped
<1> DEFINE more == Append(resp, Head(mring))
<1>4. /\ more \o FromSeq' = resp \o FromSeq /\ more \in Seq(Byte) /\ Len(more) = Len(resp) + 1
  BY <1>s, <1>2, <1>3, Passed
<1>5. CASE Len(resp) + 1 < BlockLen
  <2>1. resp' = more /\ mpc' = "rx_block" /\ UNCHANGED <<blk, reply>>
    BY <1>5, <1>t DEF RxBlock
  <2>2. /\ Put' = Put /\ ToDo' = ToDo /\ Due' = Due
        /\ Out' = Out /\ NextVector' = NextVector
    BY <1>t, <1>u, <2>1 DEF Put, ToDo, Due, Out, NextVector, Service!Encrypted,
       Service!Decrypted, Service!Vector
  <2>3. CASE InSync /\ Replying
    <3>1. Len(buf') + From' + Len(resp') = BlockLen
      <4>1. \A b, f, r, n \in Nat : b + f + r = n => b + (f - 1) + (r + 1) = n
        OBVIOUS
      <4>2. Len(buf) + From + Len(resp) = BlockLen /\ Len(resp') = Len(resp) + 1 /\ From' = From - 1
        BY <1>3, <1>4, <2>1, <2>3 DEF Replying
      <4>3. BlockLen \in Nat /\ Len(buf') = Len(buf)
        BY <1>n, <1>u
      <4>4. Len(buf) + (From - 1) + (Len(resp) + 1) = BlockLen
        BY ONLY <1>n, <4>1, <4>2, <4>3
      <4> QED
        BY ONLY <4>2, <4>3, <4>4
    <3>2. resp' \o (FromSeq' \o buf') = Out
      <4>1. /\ FromSeq \o buf # << >> /\ Head(FromSeq \o buf) = Head(FromSeq)
            /\ Tail(FromSeq) \o buf = Tail(FromSeq \o buf) /\ FromSeq \o buf \in Seq(Byte)
        BY <1>s, <1>3, TakenFirst, ConcatProperties
      <4>2. Append(resp, Head(FromSeq \o buf)) \o Tail(FromSeq \o buf) = resp \o (FromSeq \o buf)
        BY <1>s, <4>1, Passed
      <4>3. resp \o (FromSeq \o buf) = Out
        BY <2>3 DEF Replying
      <4> QED
        BY <1>2, <1>3, <1>u, <2>1, <4>1, <4>2, <4>3
    <3>3. Replying'
      BY <1>3, <1>u, <2>2, <2>3, <3>1, <3>2 DEF Replying
    <3> QED
      BY <1>u, <2>1, <2>3, <3>3 DEF InSync, Exchange
  <2>4. CASE InSync /\ Replied
    <3>1. From' + Len(resp') = BlockLen
      BY <1>n, <1>3, <1>4, <2>1, <2>4 DEF Replied
    <3>2. resp' \o FromSeq' = Out
      BY <1>4, <2>1, <2>4 DEF Replied
    <3>3. Replied'
      BY <1>3, <1>u, <2>2, <2>4, <3>1, <3>2 DEF Replied
    <3> QED
      BY <1>u, <2>1, <2>4, <3>3 DEF InSync, Exchange
  <2>5. CASE Stray
    <3>1. From + To + Due + Len(resp) < Put
      BY <1>3, <2>5 DEF Stray
    <3>2. From' + To' + Due + Len(resp') < Put
      <4>1. \A f, t, d, r, p \in Nat :
              f >= 1 /\ f + t + d + r < p => (f - 1) + t + d + (r + 1) < p
        OBVIOUS
      <4>2. Len(resp') = Len(resp) + 1 /\ From' = From - 1 /\ To' = To /\ From >= 1
        BY <1>3, <1>4, <2>1
      <4>3. Put \in Nat
        BY <1>n, <1>1
      <4> QED
        BY ONLY <1>n, <1>d, <3>1, <4>1, <4>2, <4>3
    <3> QED
      BY <1>u, <2>1, <2>2, <2>5, <3>2 DEF Stray, Exchange
  <2>6. ~CountSent /\ ~BlockSent
    BY <1>3 DEF CountSent, BlockSent
  <2> QED
    BY <1>1, <2>3, <2>4, <2>5, <2>6 DEF Exchange, InSync
<1>6. CASE ~(Len(resp) + 1 < BlockLen)
  <2>1. Len(resp) + 1 = BlockLen
    BY <1>n, <1>6
  <2>2. ~Stray
    <3>1. \A f, t, d, r, p \in Nat : f >= 1 /\ r + 1 = p => ~(f + t + d + r < p)
      OBVIOUS
    <3>2. BlockLen \in Nat /\ From >= 1
      BY <1>n, <1>3
    <3>3. ~(From + To + Due + Len(resp) < BlockLen)
      BY ONLY <1>n, <1>d, <2>1, <3>1, <3>2
    <3> QED
      BY <1>1, <1>3, <3>3 DEF Stray
  <2>3. ~Replying
    <3>1. ASSUME Replying PROVE FALSE
      <4>1. Len(buf) + From + Len(resp) = BlockLen /\ spc = "reply"
        BY <3>1 DEF Replying
      <4>2. Len(buf) >= 1
        BY <1>n, <1>t, <4>1 DEF SecTyped
      <4> QED
        BY <1>n, <1>3, <2>1, <4>1, <4>2
    <3> QED
      BY <3>1
  <2>4. InSync /\ Replied
    BY <1>1, <1>3, <2>2, <2>3 DEF Exchange, InSync, CountSent, BlockSent
  <2>5. From' = 0 /\ To' = 0 /\ FromSeq' = << >> /\ ToSeq' = << >>
    <3>1. From' = 0 /\ To' = 0
      BY <1>n, <1>3, <2>1, <2>4 DEF Replied
    <3> QED
      BY <3>1, NumbersNext, EmptySeq
  <2>6. more = Out /\ Out \in Cipherblock
    <3>1. more \o << >> = more
      BY <1>4, ConcatEmptySeq
    <3>2. resp \o FromSeq = Out
      BY <2>4 DEF Replied
    <3> QED
      BY <1>4, <2>1, <2>5, <3>1, <3>2, WholeBlock
  <2>7. reply' = Append(reply, Service!Block(Out)) /\ resp' = << >>
    BY <1>6, <2>6 DEF RxBlock, sock_print
  <2>8. CASE blk < Len(cmd.data)
    <3>1. blk' = blk + 1 /\ mpc' = "tx_block"
      BY <1>6, <2>8 DEF RxBlock
    <3>2. Put' = 0
      BY <1>1, <1>u, <3>1 DEF Put
    <3>3. ToDo # 0 /\ ToDo = ToDo' + 1
      <4>1. \A l, b \in Nat : b < l => l - b # 0 /\ l - b = (l - (b + 1)) + 1
        OBVIOUS
      <4> QED
        BY <1>n, <1>u, <2>8, <3>1, <4>1 DEF ToDo
    <3>4. spc' = "block" /\ left' = ToDo' + 1 /\ buf' = << >>
      BY <1>u, <2>4, <3>3 DEF Replied
    <3>5. Service!Vector(cmd, reply)' = iv'
      <4>1. reply \in Seq(Printed) /\ Len(reply) = blk - 1
        BY <1>t DEF Answered
      <4>2. Service!Block(Out) \in Printed
        BY <2>6 DEF Printed
      <4>3. /\ reply' # << >> /\ Len(reply') = Len(reply) + 1
            /\ reply'[Len(reply) + 1] = Service!Block(Out)
        BY <2>7, <4>1, <4>2, PrintedLast
      <4>4. Len(reply') = blk /\ reply'[Len(reply')] = Service!Block(Out)
        BY <1>n, <4>1, <4>3
      <4>5. reply'[Len(reply')][2] = Out
        BY <4>4 DEF Service!Block
      <4>6. iv = NextVector
        BY <2>4 DEF Replied
      <4> QED
        BY <1>u, <4>3, <4>4, <4>5, <4>6 DEF Service!Vector, NextVector
    <3>6. buf' \o ToSeq' = SubSeq(cmd.data[blk], 1, Put)'
      <4>1. SubSeq(cmd.data[blk], 1, Put)' = << >>
        BY <3>2, SubSeqEmpty
      <4>2. << >> \o << >> = << >>
        OBVIOUS
      <4> QED
        BY <2>5, <3>4, <4>1, <4>2
    <3>7. BlockSent'
      <4>1. Len(buf') = 0
        BY <3>4
      <4> QED
        BY <2>5, <2>7, <3>2, <3>4, <3>5, <3>6, <4>1 DEF BlockSent
    <3>8. Exchange'
      BY <1>u, <2>4, <3>7 DEF InSync, Exchange
    <3> QED
      BY <2>6, <2>7, <2>8, <3>1, <3>8
  <2>9. CASE ~(blk < Len(cmd.data))
    <3>1. mpc' = "print_end"
      BY <1>6, <2>9 DEF RxBlock
    <3>2. ToDo = 0 /\ blk = Len(cmd.data)
      BY <1>n, <2>9
    <3>3. Quiet'
      BY <1>u, <2>4, <2>5, <3>2 DEF Replied, Quiet
    <3> QED
      BY <2>6, <2>7, <3>1, <3>2, <3>3
  <2> QED
    BY <2>8, <2>9
<1> QED
  BY <1>5, <1>6

(* The MCU reads the answer to the PIN.                                    *)
LEMMA AnswerRead ==
  ASSUME IInv, RxPin \/ RxAck
  PROVE  /\ Head(mring) = Verdict /\ PinAnswered
         /\ From' = 0 /\ To' = 0 /\ UNCHANGED <<cmd, spc, ins>>
<1>t. Typed /\ LineTyped /\ mpc \in {"rx_pin", "rx_ack"}
  BY DEF IInv, Typed, RxPin, RxAck
<1>n. From \in Nat
  BY <1>t, Numbers
<1>1. McuTakes /\ Head(mring) = Head(FromSeq)
  BY <1>t, McuReads DEF RxPin, RxAck
<1>2. PinAnswered
  BY <1>t, <1>1 DEF IInv, Flow, McuTakes, Asking
<1>3. From = 1 /\ FromSeq = <<Verdict>> /\ To = 0
  BY <1>1, <1>2 DEF McuTakes, PinAnswered
<1>4. Head(mring) = Verdict
  BY <1>1, <1>3
<1> QED
  BY <1>1, <1>2, <1>3, <1>4 DEF McuTakes, RxPin, RxAck, secVars

(* The MCU reads the answer to the number of the key.                      *)
LEMMA KeyAnswerRead ==
  ASSUME IInv, RxKey
  PROVE  IF cmd.key \in LockedKeys THEN Head(mring) = STATUS_KEY_LOCKED
                                   ELSE Head(mring) = STATUS_OK /\ CountDue'
<1>t. Typed /\ LineTyped /\ KeyAsked
  BY DEF IInv, Typed, Flow, RxKey
<1>n. From \in Nat
  BY <1>t, Numbers
<1>1. McuTakes /\ Head(mring) = Head(FromSeq) /\ UNCHANGED <<cmd, spc, ins, key, iv>>
  BY <1>t, McuReads DEF RxKey, secVars
<1>2. From >= 1 /\ From' = From - 1 /\ To' = To
  BY <1>1 DEF McuTakes
<1>3. CASE spc = "count" /\ Prepared /\ To = 0 /\ From = 1 /\ FromSeq = <<STATUS_OK>>
  <2>1. cmd.key \notin LockedKeys /\ Head(mring) = STATUS_OK
    BY <1>1, <1>3 DEF Prepared
  <2>2. Opcode(cmd)' = Opcode(cmd)
    BY <1>1 DEF Opcode
  <2>3. CountDue'
    BY <1>1, <1>2, <1>3, <2>2 DEF CountDue, Prepared
  <2> QED
    BY <2>1, <2>3
<1>4. CASE cmd.key \in LockedKeys /\ FromSeq = <<STATUS_KEY_LOCKED>>
  BY <1>1, <1>4
<1> QED
  BY <1>t, <1>2, <1>3, <1>4 DEF KeyAsked

(* The MCU's own steps.                                                    *)
LEMMA McuKeepsFlow ==
  ASSUME IInv, Typed', McuStep
  PROVE  Flow'
<1>t. Typed /\ Flow /\ LineTyped /\ McuTyped
  BY DEF IInv, Typed
<1>n. To \in Nat /\ From \in Nat
  BY <1>t, Numbers
<1>1. CASE McuBoot \/ Disconnect
  BY <1>1 DEF McuBoot, Disconnect, Flow, AtRest
<1>2. CASE SecResetLow
  BY <1>2 DEF SecResetLow, SecOff, Flow, AtRest, To
<1>3. CASE SecResetHigh
  BY <1>3, <1>t DEF SecResetHigh, Flow, AtRest, To
<1>4. CASE McuFlush
  <2>1. To = 0 /\ spc = "ins" /\ toMcu = << >>
    BY <1>4, <1>t DEF McuFlush, Flow
  <2>2. To' = 0 /\ From' = 0 /\ spc' = "ins" /\ mpc' = "listen"
    BY <1>4, <2>1 DEF McuFlush, secVars, To, From
  <2> QED
    BY <2>2 DEF Flow, AtRest, Quiet
<1>5. CASE Execute \/ VerifyPinFlush \/ PrintEnd
  <2>1. Quiet
    BY <1>5, <1>t DEF Execute, VerifyPinFlush, PrintEnd, Flow, AtRest
  <2>2. mring = << >>
    BY <1>t, <2>1, Counted DEF Quiet
  <2>3. Quiet' /\ mpc' \in AtRest \cup {"disconnect"}
    BY <1>5, <2>1, <2>2 DEF Execute, VerifyPinFlush, PrintEnd, Quiet, To, From, secVars, AtRest
  <2> QED
    BY <2>3 DEF Flow, AtRest
<1>6. CASE TxIns \/ TxPin
  BY <1>6, McuTells DEF Flow, AtRest
<1>8. CASE RxPin
  BY <1>8 DEF RxPin, Flow, AtRest
<1>9. CASE RxAck
  <2>1. CASE Head(mring) # STATUS_OK
    BY <1>9, <2>1 DEF RxAck, Flow, AtRest
  <2>2. CASE Head(mring) = STATUS_OK
    <3>1. mpc' = "tx_key" /\ Service!IsCrypto(cmd)
      BY <1>9, <1>t, <2>2 DEF RxAck, McuTyped, Crypto
    <3>2. /\ Verdict = STATUS_OK /\ PinAnswered
          /\ From' = 0 /\ To' = 0 /\ UNCHANGED <<cmd, spc, ins>>
      BY <1>9, <2>2, AnswerRead
    <3>3. cmd.pin = Pin
      BY <3>2 DEF Verdict, STATUS_OK, STATUS_BAD_PIN
    <3>4. ins = Opcode(cmd) /\ ins # INS_VERIFY_PIN
      BY <3>1, <3>2 DEF PinAnswered, Opcode, Service!IsCrypto, INS_VERIFY_PIN, INS_ENCRYPT,
         INS_DECRYPT
    <3>5. spc = "key" /\ Opcode(cmd)' = Opcode(cmd)
      BY <3>2, <3>3, <3>4 DEF PinAnswered, Opcode
    <3>6. KeyDue'
      BY <3>2, <3>4, <3>5 DEF KeyDue
    <3> QED
      BY <3>1, <3>6 DEF Flow, AtRest
  <2> QED
    BY <2>1, <2>2
<1>10. CASE TxKey
  <2>1. KeyDue
    BY <1>10, <1>t DEF TxKey, Flow, AtRest
  <2>2. McuGives(cmd.key) /\ ToSeq = << >>
    BY <1>10, <1>t, <2>1, McuSends, Listed, EmptySeq DEF TxKey, KeyDue
  <2>3. UNCHANGED <<cmd, spc, ins>> /\ mpc' = "rx_key" /\ Opcode(cmd)' = Opcode(cmd)
    BY <1>10 DEF TxKey, secVars, Opcode
  <2>4. To' = 1 /\ ToSeq' = <<cmd.key>> /\ From' = 0
    BY <2>1, <2>2 DEF McuGives, KeyDue
  <2>5. KeyAsked'
    BY <2>1, <2>3, <2>4 DEF KeyDue, KeyAsked
  <2> QED
    BY <2>3, <2>5 DEF Flow, AtRest
<1>11. CASE RxKey
  <2>1. CASE Head(mring) # STATUS_OK
    BY <1>11, <2>1 DEF RxKey, Flow, AtRest
  <2>2. CASE Head(mring) = STATUS_OK
    <3>1. mpc' = "tx_count"
      BY <1>11, <2>2 DEF RxKey
    <3>2. STATUS_OK # STATUS_KEY_LOCKED
      BY DEF STATUS_OK, STATUS_KEY_LOCKED
    <3>3. CountDue'
      BY <1>11, <2>2, <3>2, KeyAnswerRead
    <3> QED
      BY <3>1, <3>3 DEF Flow, AtRest
  <2> QED
    BY <2>1, <2>2
<1>12. CASE TxCount
  <2>1. CountDue /\ resp = << >> /\ pos = 0
    BY <1>12, <1>t DEF TxCount, Flow, McuTyped
  <2>2. McuGives(Len(cmd.data)) /\ ToSeq = << >>
    BY <1>12, <1>t, <2>1, McuSends, Listed, EmptySeq DEF TxCount, CountDue
  <2>3. /\ UNCHANGED <<spc, ins, key, iv, resp, pos, cmd>> /\ Opcode(cmd)' = Opcode(cmd)
        /\ mpc' = "tx_block" /\ blk' = 1
    BY <1>12 DEF TxCount, secVars, Opcode
  <2>4. To' = 1 /\ From' = 0 /\ ToSeq' = <<Len(cmd.data)>>
    BY <2>1, <2>2 DEF McuGives, CountDue
  <2>5. Put' = 0
    BY <2>1, <2>3 DEF Put
  <2>6. <<Len(cmd.data)>> \o SubSeq(cmd.data[blk], 1, Put)' = <<Len(cmd.data)>>
    <3>1. SubSeq(cmd.data[blk], 1, Put)' = << >>
      BY <2>5, SubSeqEmpty
    <3>2. Len(cmd.data) \in Nat
      <4>1. mpc \in Serving /\ Service!IsCrypto(cmd) /\ MaxBlocks \in 1..255
        BY <1>12, <1>t, SizeAssumption DEF TxCount, McuTyped, Serving, Crypto
      <4>2. Len(cmd.data) \in 1..MaxBlocks
        BY <1>t, <4>1, CommandParts
      <4> QED
        BY <4>1, <4>2
    <3>3. <<Len(cmd.data)>> \in Seq(Nat)
      BY <3>2
    <3> QED
      BY <3>1, <3>3, ConcatEmptySeq
  <2>7. CountSent'
    BY <2>1, <2>3, <2>4, <2>5, <2>6 DEF CountSent, CountDue, Prepared
  <2>8. Exchange'
    BY <2>1, <2>3, <2>7 DEF CountDue, Prepared, InSync, Exchange
  <2> QED
    BY <2>3, <2>8 DEF Flow, AtRest
<1>13. CASE TxBlock
  BY <1>13, McuSendsBlock DEF Flow, AtRest, Blocks
<1>14. CASE RxBlock
  BY <1>14, McuReadsBlock DEF Flow, AtRest
<1> QED
  BY <1>1, <1>2, <1>3, <1>4, <1>5, <1>6, <1>8, <1>9, <1>10, <1>11, <1>12, <1>13, <1>14
     DEF McuStep

LEMMA NextFlow == Ciphers /\ Roomy /\ IInv /\ Typed' /\ [Next]_vars => Flow'
<1> SUFFICES ASSUME Ciphers, Roomy, IInv, Typed', [Next]_vars PROVE Flow'
  OBVIOUS
<1>t. Typed /\ Flow
  BY DEF IInv
<1>1. CASE UNCHANGED vars
  BY <1>t, <1>1, Unmoved DEF vars, noise, To, From, ToSeq, FromSeq
<1>2. CASE McuStep
  BY <1>2, McuKeepsFlow
<1>3. CASE SecStep
  BY <1>3, SecKeepsFlow
<1>4. CASE DeliverToSec \/ DeliverToMcu \/ LoseToSec \/ LoseToMcu
  BY <1>4, LineKeepsFlow
<1>5. CASE Connect \/ ListenFails
  BY <1>t, <1>5 DEF Connect, ListenFails, secVars, Flow, AtRest, Quiet, To, From
<1>6. ASSUME NEW c \in Command, ReadCommand(c) PROVE Flow'
  BY <1>t, <1>6 DEF ReadCommand, secVars, Flow, AtRest, Quiet, To, From
<1>7. CASE Watchdog \/ Panic
  BY <1>7 DEF Watchdog, Panic, McuReset, Flow, AtRest
(* Only a SEC in reset lets the line glitch, and an exchange needs it up.  *)
<1>8. ASSUME NEW g \in Garbage, Glitch(g) PROVE Flow'
  <2>1. spc \in {"off", "init"} /\ UNCHANGED <<mpc, spc, sring, toSec>>
    BY <1>8 DEF Glitch, mcuVars, secVars
  <2>2. ~Quiet /\ ~Asking /\ ~PinAnswered /\ ~KeyDue /\ ~KeyAsked /\ ~CountDue
    BY <2>1 DEF Quiet, Asking, PinAnswered, KeyDue, KeyAsked, CountDue
  <2>3. ~Exchange
    BY <2>1 DEF Exchange, InSync, CountSent, BlockSent, Replying, Replied, Stray
  <2>4. mpc \notin {"tx_pin", "rx_pin", "rx_ack", "tx_key", "rx_key", "tx_count",
                    "tx_block", "rx_block"} \cup AtRest
    BY <1>t, <2>2, <2>3 DEF Flow
  <2> QED
    BY <1>t, <2>1, <2>4 DEF Flow, To
<1> QED
  BY <1>1, <1>2, <1>3, <1>4, <1>5, <1>6, <1>7, <1>8 DEF Next

(* Every print is the next piece of the answer to the command.             *)
Prints ==
  /\ Len(reply) < Service!Pieces(cmd)
  /\ reply' = Append(reply, Service!Piece(cmd, reply)) /\ Service!Piece(cmd, reply) \in Printed
  /\ mpc' = "disconnect" => Len(reply) + 1 = Service!Pieces(cmd)

LEMMA McuPrints ==
  ASSUME IInv, Typed',
         Execute \/ RxPin \/ RxAck \/ RxKey \/ RxBlock \/ PrintEnd
  PROVE  /\ UNCHANGED cmd
         /\ \/ UNCHANGED reply /\ mpc' # "disconnect"
            \/ Prints
<1>t. Typed /\ Flow /\ McuTyped /\ Answered
  BY DEF IInv, Typed
<1>c. UNCHANGED cmd
  BY DEF Execute, RxPin, RxAck, RxKey, RxBlock, PrintEnd
<1>e. Len(<< >>) = 0
  OBVIOUS
<1>s. STATUS_OK = 1 /\ STATUS_BAD_PIN = 2 /\ STATUS_KEY_LOCKED = 3
  BY DEF STATUS_OK, STATUS_BAD_PIN, STATUS_KEY_LOCKED
<1>0. ASSUME NEW p, p \in {Service!Text, Service!Ok, Service!BadPin, Service!KeyLocked},
             p = Service!Piece(cmd, reply), ~Service!Granted(cmd), reply = << >>,
             reply' = Append(reply, p)
      PROVE  Prints
  BY <1>0, <1>e DEF Prints, Printed, Service!Pieces
<1>1. CASE Execute
  <2>1. reply = << >>
    BY <1>1, <1>t DEF Execute, Answered, Blocks
  <2>2. CASE Service!WellFormed(cmd)
    BY <1>1, <1>c, <2>2 DEF Execute
  <2>3. CASE ~Service!WellFormed(cmd)
    <3>1. reply' = Append(reply, Service!Text) /\ ~Service!Granted(cmd)
      BY <1>1, <2>3 DEF Execute, sock_print, Service!Granted
    <3>2. Service!Piece(cmd, reply) = Service!Text
      BY <2>3, <3>1 DEF Service!Piece
    <3> QED
      BY <1>c, <1>0, <2>1, <3>1, <3>2
  <2> QED
    BY <2>2, <2>3
<1>2. CASE RxPin
  <2>1. reply = << >> /\ cmd.ins = "pin" /\ Service!WellFormed(cmd)
    BY <1>2, <1>t DEF RxPin, Answered, McuTyped, Serving, Blocks
  <2>2. ~Service!Granted(cmd)
    BY <2>1 DEF Service!Granted, Service!IsCrypto
  <2>3. Head(mring) = Verdict
    BY <1>2, AnswerRead
  <2>4. CASE cmd.pin = Pin
    <3>1. reply' = Append(reply, Service!Ok)
      BY <1>2, <1>s, <2>3, <2>4 DEF RxPin, sock_print, Verdict
    <3>2. Service!Piece(cmd, reply) = Service!Ok
      BY <2>1, <2>2, <2>4 DEF Service!Piece
    <3> QED
      BY <1>c, <1>0, <2>1, <2>2, <3>1, <3>2
  <2>5. CASE cmd.pin # Pin
    <3>1. reply' = Append(reply, Service!BadPin)
      BY <1>2, <1>s, <2>3, <2>5 DEF RxPin, sock_print, Verdict
    <3>2. Service!Piece(cmd, reply) = Service!BadPin
      BY <2>1, <2>2, <2>5 DEF Service!Piece
    <3> QED
      BY <1>c, <1>0, <2>1, <2>2, <3>1, <3>2
  <2> QED
    BY <2>4, <2>5
<1>3. CASE RxAck
  <2>1. reply = << >> /\ Service!WellFormed(cmd)
    BY <1>3, <1>t DEF RxAck, Answered, McuTyped, Serving, Crypto, Blocks
  <2>2. Head(mring) = Verdict
    BY <1>3, AnswerRead
  <2>3. CASE cmd.pin = Pin
    BY <1>3, <1>c, <2>2, <2>3 DEF RxAck, Verdict
  <2>4. CASE cmd.pin # Pin
    <3>1. reply' = Append(reply, Service!BadPin)
      BY <1>3, <1>s, <2>2, <2>4 DEF RxAck, sock_print, Verdict
    <3>2. ~Service!Granted(cmd)
      BY <2>4 DEF Service!Granted
    <3>3. Service!Piece(cmd, reply) = Service!BadPin
      BY <2>1, <2>4, <3>2 DEF Service!Piece
    <3> QED
      BY <1>c, <1>0, <2>1, <3>1, <3>2, <3>3
  <2> QED
    BY <2>3, <2>4
<1>4. CASE RxKey
  <2>1. reply = << >> /\ Service!WellFormed(cmd) /\ Service!IsCrypto(cmd) /\ cmd.pin = Pin
    BY <1>4, <1>t DEF RxKey, Answered, McuTyped, Serving, Crypto, Blocks
  <2>2. CASE cmd.key \notin LockedKeys
    BY <1>4, <1>c, <2>2, KeyAnswerRead DEF RxKey
  <2>3. CASE cmd.key \in LockedKeys
    <3>1. Head(mring) = STATUS_KEY_LOCKED
      BY <1>4, <2>3, KeyAnswerRead
    <3>2. reply' = Append(reply, Service!KeyLocked)
      BY <1>4, <1>s, <3>1 DEF RxKey, sock_print
    <3>3. ~Service!Granted(cmd)
      BY <2>3 DEF Service!Granted
    <3>4. Service!Piece(cmd, reply) = Service!KeyLocked
      BY <2>1, <3>3 DEF Service!Piece, Service!IsCrypto
    <3> QED
      BY <1>c, <1>0, <2>1, <3>2, <3>3, <3>4
  <2> QED
    BY <2>2, <2>3
<1>5. CASE RxBlock
  <2>1. /\ mpc \in Blocks /\ cmd.pin = Pin /\ cmd.key \notin LockedKeys
        /\ Len(reply) = blk - 1
    BY <1>5, <1>t DEF RxBlock, Answered, Blocks
  <2>2. Service!Granted(cmd)
    BY <1>t, <2>1, BlockParts DEF Service!Granted
  <2>3. blk \in Nat /\ Len(cmd.data) \in Nat /\ blk <= Len(cmd.data) /\ blk >= 1
    <3>1. ToDo \in Nat /\ blk \in Nat /\ Len(cmd.data) \in Nat \ {0} /\ blk >= 1
          /\ Len(cmd.data) = ToDo + blk
      BY <1>t, <2>1, Numbers
    <3> QED
      BY <3>1
  <2>4. /\ Service!Piece(cmd, reply) = Service!Block(Out)
        /\ Len(reply) < Service!Pieces(cmd)
    BY <2>1, <2>2, <2>3 DEF Service!Piece, Service!Pieces, Out
  <2>5. CASE UNCHANGED reply /\ mpc' = "rx_block"
    BY <1>c, <2>5
  <2>6. CASE /\ reply' = Append(reply, Service!Block(Out)) /\ Out \in Cipherblock
             /\ mpc' \in {"tx_block", "print_end"}
    BY <1>c, <2>4, <2>6 DEF Prints, Printed
  <2> QED
    BY <1>5, <2>5, <2>6, McuReadsBlock
<1>6. CASE PrintEnd
  <2>1. /\ Service!Granted(cmd) /\ Len(reply) = Len(cmd.data)
    BY <1>6, <1>t DEF PrintEnd, Answered, Service!Granted
  <2>2. Len(cmd.data) \in Nat
    BY <1>t, <2>1, SizeAssumption DEF Service!Granted, Service!WellFormed, Service!IsCrypto
  <2>3. reply' = Append(reply, Service!End) /\ Service!Piece(cmd, reply) = Service!End
    BY <1>6, <2>1 DEF PrintEnd, sock_print, Service!Piece
  <2>4. Service!Pieces(cmd) = Len(reply) + 1
    BY <2>1 DEF Service!Pieces
  <2> QED
    BY <1>c, <2>1, <2>2, <2>3, <2>4 DEF Prints, Printed
<1> QED
  BY <1>1, <1>2, <1>3, <1>4, <1>5, <1>6

(* What was printed, and what is known of the command.                     *)
LEMMA NextAnswered == Ciphers /\ IInv /\ Typed' /\ [Next]_vars => Answered'
<1> SUFFICES ASSUME Ciphers, IInv, Typed', [Next]_vars PROVE Answered'
  OBVIOUS
<1>t. Typed /\ Flow /\ McuTyped /\ Answered
  BY DEF IInv, Typed
<1> USE DEF Handling, Receiving, Blocks
<1>1. CASE UNCHANGED <<mpc, cmd, blk, reply>>
  BY <1>1, <1>t DEF Answered
<1>2. CASE McuBoot \/ SecResetLow \/ SecResetHigh \/ McuFlush \/ Connect \/ ListenFails
  BY <1>2, <1>t DEF McuBoot, SecResetLow, SecResetHigh, McuFlush, Connect, ListenFails, Answered
<1>3. ASSUME NEW c \in Command, ReadCommand(c) PROVE Answered'
  BY <1>3, <1>t DEF ReadCommand, Answered
<1>4. CASE McuReset \/ Disconnect
  <2>1. << >> \in Seq(Printed)
    OBVIOUS
  <2>2. mpc' \in {"boot", "reset_low"} /\ cmd' = NoCommand /\ reply' = << >>
    BY <1>4 DEF McuReset, Disconnect
  <2> QED
    BY <2>1, <2>2 DEF Answered
<1>5. CASE Execute \/ RxPin \/ RxAck \/ RxKey \/ RxBlock \/ PrintEnd
  <2>1. UNCHANGED cmd /\ ((UNCHANGED reply /\ mpc' # "disconnect") \/ Prints)
    BY <1>5, McuPrints
  <2>2. reply' \in Seq(Printed)
    <3>1. CASE UNCHANGED reply
      BY <1>t, <3>1 DEF Answered
    <3>2. CASE Prints
      BY <1>t, <3>2, PrintedLast DEF Prints, Answered
    <3> QED
      BY <2>1, <3>1, <3>2
  <2>3. mpc' = "disconnect" => Len(reply') = Service!Pieces(cmd)'
    <3>1. ASSUME mpc' = "disconnect" PROVE Len(reply') = Service!Pieces(cmd)'
      <4>1. Prints
        BY <2>1, <3>1
      <4>2. Len(reply') = Len(reply) + 1
        BY <1>t, <4>1, PrintedLast DEF Prints, Answered
      <4>3. Service!Pieces(cmd)' = Service!Pieces(cmd)
        BY <2>1 DEF Service!Pieces, Service!Granted, Service!WellFormed, Service!IsCrypto
      <4> QED
        BY <3>1, <4>1, <4>2, <4>3 DEF Prints
    <3> QED
      BY <3>1
  <2>4. cmd' \in Command
    BY <1>5, <1>t, <2>1 DEF Execute, RxPin, RxAck, RxKey, RxBlock, PrintEnd, Answered
  <2>5. CASE Execute
    <3>1. reply' = << >> \/ mpc' = "disconnect"
      BY <1>t, <2>1, <2>5 DEF Execute, Answered
    <3>2. mpc' \in {"disconnect", "verify_flush", "tx_ins"}
      BY <2>5 DEF Execute
    <3> QED
      BY <2>2, <2>3, <2>4, <3>1, <3>2 DEF Answered
  <2>6. CASE RxPin \/ PrintEnd
    BY <2>2, <2>3, <2>4, <2>6 DEF RxPin, PrintEnd, Answered
  <2>7. CASE RxAck
    <3>1. CASE Head(mring) # STATUS_OK
      BY <2>2, <2>3, <2>4, <2>7, <3>1 DEF RxAck, Answered
    <3>2. CASE Head(mring) = STATUS_OK
      <4>1. cmd.pin = Pin
        BY <2>7, <3>2, AnswerRead DEF Verdict, STATUS_OK, STATUS_BAD_PIN
      <4>2. mpc' = "tx_key" /\ reply' = << >>
        BY <1>t, <2>7, <3>2 DEF RxAck, Answered
      <4> QED
        BY <2>1, <2>2, <2>4, <4>1, <4>2 DEF Answered
    <3> QED
      BY <3>1, <3>2
  <2>8. CASE RxKey
    <3>1. CASE Head(mring) # STATUS_OK
      BY <2>2, <2>3, <2>4, <2>8, <3>1 DEF RxKey, Answered
    <3>2. CASE Head(mring) = STATUS_OK
      <4>1. cmd.key \notin LockedKeys
        BY <2>8, <3>2, KeyAnswerRead DEF STATUS_OK, STATUS_KEY_LOCKED
      <4>2. mpc' = "tx_count" /\ reply' = << >> /\ cmd.pin = Pin
        BY <1>t, <2>8, <3>2 DEF RxKey, Answered
      <4> QED
        BY <2>1, <2>2, <2>4, <4>1, <4>2 DEF Answered
    <3> QED
      BY <3>1, <3>2
  <2>9. CASE RxBlock
    <3>1. /\ Len(reply) = blk - 1 /\ cmd.pin = Pin /\ cmd.key \notin LockedKeys
          /\ mpc \in Blocks /\ reply \in Seq(Printed)
      BY <1>t, <2>9 DEF RxBlock, Answered
    <3>2. Service!WellFormed(cmd) /\ Service!IsCrypto(cmd)
      BY <1>t, <3>1, BlockParts
    <3>3. CASE mpc' = "rx_block" /\ UNCHANGED <<blk, reply>>
      BY <2>1, <2>2, <2>4, <3>1, <3>3 DEF Answered
    <3>4. CASE /\ reply' = Append(reply, Service!Block(Out)) /\ Out \in Cipherblock
               /\ \/ blk' = blk + 1 /\ mpc' = "tx_block"
                  \/ blk = Len(cmd.data) /\ mpc' = "print_end"
      <4>1. Len(reply') = Len(reply) + 1
        BY <3>1, <3>4, PrintedLast DEF Printed
      <4>2. blk \in Nat
        BY <1>t, Numbers
      <4>3. Len(reply') = blk
        BY <3>1, <4>1, <4>2
      <4>4. CASE blk' = blk + 1 /\ mpc' = "tx_block"
        BY <2>1, <2>2, <2>4, <3>1, <4>2, <4>3, <4>4 DEF Answered
      <4>5. CASE blk = Len(cmd.data) /\ mpc' = "print_end"
        <5>1. Service!WellFormed(cmd)' /\ Service!IsCrypto(cmd)'
          BY <2>1, <3>2 DEF Service!WellFormed, Service!IsCrypto
        <5> QED
          BY <2>1, <2>2, <2>4, <3>1, <4>3, <4>5, <5>1 DEF Answered
      <4> QED
        BY <3>4, <4>4, <4>5
    <3> QED
      BY <2>9, <3>3, <3>4, McuReadsBlock
  <2> QED
    BY <1>5, <2>5, <2>6, <2>7, <2>8, <2>9
<1>6. CASE VerifyPinFlush \/ TxIns \/ TxPin \/ TxKey
  <2>1. UNCHANGED <<cmd, reply>> /\ reply = << >>
    BY <1>6, <1>t DEF VerifyPinFlush, TxIns, TxPin, TxKey, Answered
  <2>2. mpc' \in {"tx_ins", "tx_pin", "rx_pin", "rx_ack", "rx_key"} /\ cmd \in Command
    BY <1>6, <1>t DEF VerifyPinFlush, TxIns, TxPin, TxKey, Answered
  <2>3. mpc' = "rx_pin" => cmd.ins = "pin"
    BY <1>6, <1>t DEF VerifyPinFlush, TxIns, TxPin, TxKey, Answered
  <2>4. mpc' = "rx_key" => cmd.pin = Pin
    BY <1>6, <1>t DEF VerifyPinFlush, TxIns, TxPin, TxKey, Answered
  <2> QED
    BY <1>t, <2>1, <2>2, <2>3, <2>4 DEF Answered
<1>7. CASE TxCount
  <2>1. Len(reply) = 0 /\ reply = << >> /\ cmd \in Command /\ cmd.pin = Pin
        /\ cmd.key \notin LockedKeys
    BY <1>7, <1>t DEF TxCount, Answered
  <2>2. mpc' = "tx_block" /\ blk' = 1 /\ UNCHANGED <<cmd, reply>>
    BY <1>7 DEF TxCount
  <2> QED
    BY <1>t, <2>1, <2>2 DEF Answered
<1>8. CASE TxBlock
  BY <1>8, <1>t DEF TxBlock, Answered
<1>9. CASE SecStep \/ DeliverToSec \/ DeliverToMcu \/ LoseToSec \/ LoseToMcu
  BY <1>1, <1>9 DEF SecStep, SecInit, SecReadIns, SecReadPin, SecStatus, SecReadKey,
     SecKeyStatus, SecReadCount, SecReadBlock, SecWriteBlock, DeliverToSec,
     DeliverToMcu, LoseToSec, LoseToMcu, mcuVars
<1>10. ASSUME NEW g \in Garbage, Glitch(g) PROVE Answered'
  BY <1>1, <1>10 DEF Glitch, mcuVars
<1>11. CASE UNCHANGED vars
  BY <1>1, <1>11 DEF vars, mcuVars
<1> QED
  BY <1>2, <1>3, <1>4, <1>5, <1>6, <1>7, <1>8, <1>9, <1>10, <1>11
     DEF Next, McuStep, Watchdog, Panic

LEMMA Invariance ==
  ASSUME Ciphers, Roomy
  PROVE  Spec => []IInv
<1>1. Init => IInv
  <2> SUFFICES ASSUME Init PROVE IInv
    OBVIOUS
  <2>1. Typed
    BY InitTyped
  <2>2. Flow
    BY DEF Init, Flow, AtRest
  <2>3. << >> \in Seq(Printed)
    OBVIOUS
  <2>4. Answered
    BY <2>3 DEF Init, Answered, Handling, Receiving, Blocks
  <2> QED
    BY <2>1, <2>2, <2>4 DEF IInv
<1>2. IInv /\ [Next]_vars => IInv'
  BY NextTyped, NextFlow, NextAnswered DEF IInv
<1> QED
  BY <1>1, <1>2, PTL DEF Spec

-----------------------------------------------------------------------------
(* The theorems.                                                           *)

(* When a connection begins the SEC awaits an instruction, and nothing of  *)
(* an earlier exchange is in a ring or on the line, which encrypt and      *)
(* decrypt, that do not flush, rely on: InStep holds for every PIN, block  *)
(* and ring size that is Roomy.                                            *)
THEOREM Steps ==
  ASSUME Ciphers, Roomy
  PROVE  Spec => []InStep
<1>1. IInv => InStep
  <2> SUFFICES ASSUME IInv, mpc \in {"listen", "wait_cmd", "exec"}
               PROVE  /\ spc = "ins"
                      /\ mring = << >> /\ sring = << >> /\ toSec = << >> /\ toMcu = << >>
    BY DEF InStep
  <2>1. Quiet
    BY DEF IInv, Flow, AtRest
  <2> QED
    BY <2>1, Counted DEF Quiet, IInv, Typed
<1> QED
  BY <1>1, Invariance, PTL

(* Rings of the sizes Roomy asks for never drop a byte of an exchange      *)
(* (usart2_handler() and the SEC's receive interrupt would do so silently).*)
THEOREM NothingDropped ==
  ASSUME Ciphers, Roomy
  PROVE  Spec => []NoOverrun
<1>1. IInv => NoOverrun
  BY Room
<1> QED
  BY <1>1, Invariance, PTL

(* As long as no byte was lost, one of the programs has a byte to read, or *)
(* will have.                                                              *)
LEMMA Waits == IInv => NoMutualWait
<1> SUFFICES ASSUME IInv, losses = 0,
                    mpc \in Receiving, mring = << >>, spc \in Reading, sring = << >>,
                    toSec = << >>, toMcu = << >>
             PROVE  FALSE
  BY DEF NoMutualWait
<1>t. Typed /\ Flow /\ SecTyped
  BY DEF IInv, Typed
<1>n. /\ To = 0 /\ From = 0
      /\ Len(buf) \in Nat /\ Len(resp) \in Nat /\ Len(resp) < BlockLen
      /\ PinLen \in Nat \ {0} /\ BlockLen \in Nat \ {0}
  BY <1>t, Numbers, Counted DEF Typed
<1>1. CASE mpc \in {"rx_pin", "rx_ack"}
  <2>1. ~PinAnswered
    BY <1>n DEF PinAnswered
  <2>2. To + Got = 1 + PinLen /\ spc \in {"ins", "pin", "status"}
    BY <1>1, <1>t, <2>1 DEF Flow, Asking, Told
  <2>3. Got \in Nat
    BY <1>t, Numbers
  <2>4. Got = 1 + PinLen
    BY <1>n, <2>2, <2>3
  <2> QED
    BY <1>n, <1>t, <2>2, <2>4 DEF Got, Reading, SecTyped
<1>2. CASE mpc = "rx_key"
  BY <1>2, <1>t, <1>n DEF Flow, KeyAsked, Reading
<1>3. CASE mpc = "rx_block"
  <2>1. InSync /\ Put = BlockLen
    BY <1>3, <1>t DEF Flow, Exchange, Stray, Put
  <2>2. ~CountSent
    BY <1>n, <2>1 DEF CountSent
  <2>3. ~BlockSent
    BY <1>n, <1>t, <2>1 DEF BlockSent, SecTyped
  <2>4. ~Replying
    BY DEF Replying, Reading
  <2>5. ~Replied
    BY <1>n DEF Replied
  <2> QED
    BY <2>1, <2>2, <2>3, <2>4, <2>5 DEF InSync
<1> QED
  BY <1>1, <1>2, <1>3 DEF Receiving

(* The two programs never wait for each other while the line is sound:     *)
(* neither rx() nor uart_read_u8() has a timeout.                          *)
THEOREM NoneWaits ==
  ASSUME Ciphers, Roomy
  PROVE  Spec => []NoMutualWait
<1> QED
  BY Waits, Invariance, PTL

-----------------------------------------------------------------------------
(* The service.                                                            *)

Idle == {"boot", "reset_low", "reset_high", "flush", "listen"}

(* A step that neither prints nor begins or ends a connection.             *)
LEMMA ServiceStill ==
  ASSUME UNCHANGED <<cmd, reply>>, (mpc \in Idle) = (mpc' \in Idle)
  PROVE  UNCHANGED Service!vars
<1>1. (mpc \notin Idle)' = (mpc \notin Idle)
  OBVIOUS
<1> QED
  BY <1>1 DEF Service!vars, Idle

(* A client that is cut off.                                               *)
LEMMA ServiceAborts ==
  ASSUME mpc \notin Idle, McuReset
  PROVE  Service!Abort
<1>1. mpc' = "boot" /\ cmd' = NoCommand /\ reply' = << >>
  BY DEF McuReset
<1>2. (mpc \notin Idle)' = FALSE
  BY <1>1 DEF Idle
<1> QED
  BY <1>1, <1>2 DEF Service!Abort, NoCommand, Idle

LEMMA McuServes ==
  ASSUME IInv, Typed', McuStep
  PROVE  Service!Next \/ UNCHANGED Service!vars
<1>t. Typed /\ Answered /\ McuTyped
  BY DEF IInv, Typed
<1> USE DEF Idle, Handling, Receiving
<1>1. CASE McuBoot \/ SecResetLow \/ SecResetHigh \/ McuFlush
  BY <1>1, ServiceStill DEF McuBoot, SecResetLow, SecResetHigh, McuFlush
<1>2. CASE VerifyPinFlush \/ TxIns \/ TxKey \/ TxCount
  BY <1>2, ServiceStill DEF VerifyPinFlush, TxIns, TxKey, TxCount
<1>3. CASE TxPin \/ TxBlock
  <2>1. mpc \notin Idle /\ mpc' \notin Idle /\ UNCHANGED <<cmd, reply>>
    BY <1>3 DEF TxPin, TxBlock
  <2> QED
    BY <2>1, ServiceStill
<1>4. CASE Execute \/ RxPin \/ RxAck \/ RxKey \/ RxBlock \/ PrintEnd
  <2>1. mpc \notin Idle /\ mpc' \notin Idle
    BY <1>4 DEF Execute, RxPin, RxAck, RxKey, RxBlock, PrintEnd
  <2>2. cmd \in Command
    BY <1>4, <1>t DEF Execute, RxPin, RxAck, RxKey, RxBlock, PrintEnd, Answered
  <2>3. UNCHANGED cmd /\ (UNCHANGED reply \/ Prints)
    BY <1>4, McuPrints
  <2>4. CASE UNCHANGED reply
    BY <2>1, <2>3, <2>4, ServiceStill
  <2>5. CASE Prints
    <3>1. cmd # NoCommand
      BY <2>2, RequestAssumption
    <3>2. (mpc \notin Idle)' = (mpc \notin Idle)
      BY <2>1
    <3>3. Service!Reply
      BY <2>1, <2>3, <2>5, <3>1, <3>2 DEF Prints, Service!Reply, NoCommand
    <3> QED
      BY <3>3 DEF Service!Next
  <2> QED
    BY <2>3, <2>4, <2>5
<1>5. CASE Disconnect
  <2>1. mpc = "disconnect" /\ mpc' \in Idle /\ cmd' = NoCommand /\ reply' = << >>
    BY <1>5 DEF Disconnect
  <2>2. cmd \in Command /\ Len(reply) = Service!Pieces(cmd)
    BY <1>t, <2>1 DEF Answered
  <2>3. cmd # NoCommand
    BY <2>2, RequestAssumption
  <2>4. Service!Finish
    BY <2>1, <2>2, <2>3 DEF Service!Finish, NoCommand
  <2> QED
    BY <2>4 DEF Service!Next
<1> QED
  BY <1>1, <1>2, <1>3, <1>4, <1>5 DEF McuStep

LEMMA Serves ==
  ASSUME IInv, Typed', [Next]_vars
  PROVE  [Service!Next]_(Service!vars)
<1>t. Typed /\ Answered /\ McuTyped
  BY DEF IInv, Typed
<1>1. CASE McuStep
  BY <1>1, McuServes
<1>2. CASE Connect
  <2>1. mpc = "listen" /\ mpc' = "wait_cmd" /\ UNCHANGED <<cmd, reply>>
    BY <1>2 DEF Connect
  <2>2. cmd = NoCommand /\ reply = << >>
    BY <1>t, <2>1 DEF Answered, Blocks
  <2>3. Service!Connect
    BY <2>1, <2>2 DEF Service!Connect, NoCommand
  <2> QED
    BY <2>3 DEF Service!Next
<1>3. CASE ListenFails
  BY <1>3, ServiceStill DEF ListenFails, Idle
<1>4. ASSUME NEW c \in Command, ReadCommand(c) PROVE Service!Next
  <2>1. mpc = "wait_cmd" /\ mpc' = "exec" /\ cmd' = c /\ UNCHANGED reply
    BY <1>4 DEF ReadCommand
  <2>2. cmd = NoCommand
    BY <1>t, <2>1 DEF Answered
  <2>3. Service!Request(c)
    BY <2>1, <2>2 DEF Service!Request, NoCommand
  <2> QED
    BY <2>3 DEF Service!Next
<1>5. CASE Watchdog
  <2>1. CASE mpc \notin Idle
    BY <1>5, <2>1, ServiceAborts DEF Watchdog, Service!Next
  <2>2. CASE mpc \in Idle
    <3>1. cmd = NoCommand /\ reply = << >>
      BY <1>5, <1>t, <2>2 DEF Watchdog, Idle, Answered, Blocks
    <3>2. mpc' = "boot" /\ cmd' = NoCommand /\ reply' = << >>
      BY <1>5 DEF Watchdog, McuReset
    <3> QED
      BY <2>2, <3>1, <3>2, ServiceStill DEF Idle
  <2> QED
    BY <2>1, <2>2
<1>6. CASE Panic
  <2>1. CASE mpc = "disconnect"
    BY <1>6, <2>1, ServiceAborts DEF Panic, Idle, Service!Next
  <2>2. CASE mpc = "listen"
    <3>1. cmd = NoCommand /\ reply = << >>
      BY <1>t, <2>2 DEF Answered, Blocks
    <3>2. mpc' = "boot" /\ cmd' = NoCommand /\ reply' = << >>
      BY <1>6 DEF Panic, McuReset
    <3> QED
      BY <2>2, <3>1, <3>2, ServiceStill DEF Idle
  <2> QED
    BY <1>6, <2>1, <2>2 DEF Panic
<1>7. CASE SecStep \/ DeliverToSec \/ DeliverToMcu \/ LoseToSec \/ LoseToMcu
  <2>1. UNCHANGED mcuVars
    BY <1>7 DEF SecStep, SecInit, SecReadIns, SecReadPin, SecStatus, SecReadKey,
       SecKeyStatus, SecReadCount, SecReadBlock, SecWriteBlock, DeliverToSec,
       DeliverToMcu, LoseToSec, LoseToMcu
  <2> QED
    BY <2>1, ServiceStill DEF mcuVars
<1>8. ASSUME NEW g \in Garbage, Glitch(g) PROVE UNCHANGED Service!vars
  BY <1>8, ServiceStill DEF Glitch, mcuVars
<1>9. CASE UNCHANGED vars
  BY <1>9, ServiceStill DEF vars, mcuVars
<1> QED
  BY <1>1, <1>2, <1>3, <1>4, <1>5, <1>6, <1>7, <1>8, <1>9 DEF Next

(* The two programs and the line implement HsmService: the pieces a client *)
(* receives are a prefix of the answer to its own command, computed from   *)
(* the PIN, the keys and the blocks, whatever bytes the line loses,        *)
(* wherever the watchdog strikes, and for any PIN, block and ring size     *)
(* that is Roomy.                                                          *)
THEOREM Refinement ==
  ASSUME Ciphers, Roomy
  PROVE  Spec => ServiceSpec
<1>1. Init => Service!Init
  BY DEF Init, Service!Init, NoCommand
<1>2. IInv /\ [Next]_vars => Typed'
  BY NextTyped DEF IInv
<1>3. IInv /\ [Next]_vars => [Service!Next]_(Service!vars)
  BY <1>2, Serves
<1> QED
  BY <1>1, <1>3, Invariance, PTL DEF Spec, ServiceSpec, Service!Spec
=============================================================================
