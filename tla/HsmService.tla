----------------------------- MODULE HsmService -----------------------------
(***************************************************************************)
(* What the picoHSM promises to its clients, one connection at a time: the *)
(* client sends one command and receives, piece by piece, the one answer   *)
(* that command has.  The connection may be cut at any point (by a reset   *)
(* of the device): then what was received is a prefix of that answer.      *)
(*                                                                         *)
(* Each piece is defined from the command, the device's PIN and its keys,  *)
(* and the pieces before it alone; how two microcontrollers compute it     *)
(* byte by byte over a serial line is PicoHsm's matter.                    *)
(***************************************************************************)
EXTENDS Naturals, Sequences

CONSTANTS
  Command,              \* the lines a client may send, as records
  Pin,                  \* the right PIN, a sequence of bytes
  KeyCount,             \* keys are numbered 0 .. KeyCount - 1
  LockedKeys,           \* the keys that may not be used
  PinLen,
  MaxBlocks,
  ZeroBlock,            \* the all-zero block, the initial CBC vector
  BlockCipher(_, _),    \* AES of a block under a key
  BlockDecipher(_, _),
  XorBlock(_, _)             \* of two blocks

VARIABLES
  serving,   \* a client is connected
  cmd,       \* the command it sent, or NoCommand
  reply      \* the pieces sent to it so far

vars == <<serving, cmd, reply>>

NoCommand == [ins |-> "none"]

-----------------------------------------------------------------------------
(* The answer to a command.                                                *)

Text == <<"text">>        \* any fixed message: help, info, a refusal
Ok == <<"ok">>
BadPin == <<"bad_pin">>
KeyLocked == <<"locked">>
End == <<"end">>
Block(b) == <<"block", b>>

IsCrypto(c) == c.ins \in {"encrypt", "decrypt"}

(* The MCU's own checks: a line that fails them never reaches the SEC.     *)
WellFormed(c) ==
  \/ /\ c.ins = "pin"
     /\ Len(c.pin) = PinLen
  \/ /\ IsCrypto(c)
     /\ Len(c.pin) = PinLen
     /\ c.key < KeyCount
     /\ Len(c.data) \in 1..MaxBlocks

(* In how many pieces a command is answered: its blocks and an end, if it  *)
(* is granted.                                                             *)
Granted(c) ==
  /\ WellFormed(c) /\ IsCrypto(c)
  /\ c.pin = Pin
  /\ c.key \notin LockedKeys

Pieces(c) == IF Granted(c) THEN Len(c.data) + 1 ELSE 1

(* CBC mode: the block after those of r is chained with the last block of  *)
(* ciphertext, or with the zero vector.                                    *)
Vector(c, r) ==
  IF r = << >> THEN ZeroBlock
               ELSE IF c.ins = "encrypt" THEN r[Len(r)][2] ELSE c.data[Len(r)]

Encrypted(c, r) ==
  BlockCipher(c.key, XorBlock(c.data[Len(r) + 1], Vector(c, r)))

Decrypted(c, r) ==
  XorBlock(BlockDecipher(c.key, c.data[Len(r) + 1]), Vector(c, r))

(* The piece that follows r in the answer to c.                            *)
Piece(c, r) ==
  IF Granted(c)
    THEN IF Len(r) = Len(c.data)
           THEN End
           ELSE Block(IF c.ins = "encrypt" THEN Encrypted(c, r) ELSE Decrypted(c, r))
    ELSE IF ~WellFormed(c) THEN Text
    ELSE IF c.pin # Pin    THEN BadPin
    ELSE IF c.ins = "pin"  THEN Ok
    ELSE KeyLocked

-----------------------------------------------------------------------------

Init ==
  /\ serving = FALSE
  /\ cmd = NoCommand
  /\ reply = << >>

Connect ==
  /\ ~serving
  /\ serving' = TRUE
  /\ cmd' = NoCommand
  /\ reply' = << >>

Request(c) ==
  /\ serving
  /\ cmd = NoCommand
  /\ cmd' = c
  /\ UNCHANGED <<serving, reply>>

Reply ==
  /\ serving
  /\ cmd # NoCommand
  /\ Len(reply) < Pieces(cmd)
  /\ reply' = Append(reply, Piece(cmd, reply))
  /\ UNCHANGED <<serving, cmd>>

Finish ==
  /\ serving
  /\ cmd # NoCommand
  /\ Len(reply) = Pieces(cmd)
  /\ serving' = FALSE
  /\ cmd' = NoCommand
  /\ reply' = << >>

(* The device was reset: the client is cut off.                            *)
Abort ==
  /\ serving
  /\ serving' = FALSE
  /\ cmd' = NoCommand
  /\ reply' = << >>

Next ==
  \/ Connect
  \/ \E c \in Command : Request(c)
  \/ Reply
  \/ Finish
  \/ Abort

Spec == Init /\ [][Next]_vars
=============================================================================
