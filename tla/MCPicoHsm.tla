----------------------------- MODULE MCPicoHsm -----------------------------
(***************************************************************************)
(* PicoHsm with short PINs and blocks and a toy cipher, for TLC.           *)
(***************************************************************************)
EXTENDS PicoHsm, Bitwise

(* Bytes that double as opcodes and statuses, so that a byte read in the   *)
(* wrong place is acted upon.  Wrong PINs differ from the right one in the *)
(* first, the middle and the last digit; <<1, 2>> is refused by the MCU.   *)
MCPin == <<1, 2, 1>>
MCPins == {MCPin, <<2, 2, 1>>, <<1, 1, 1>>, <<1, 2, 3>>, <<0, 1, 2>>, <<1, 2>>}

(* Key 3 is out of range for the MCU.                                      *)
MCKeys == 0..3

(* One to three blocks, and four, one more than the MCU's buffer holds.    *)
MCData == {<<b>> : b \in {<<1, 2>>, <<3, 3>>}}
            \cup {<< <<1, 2>>, <<2, 1>> >>,
                  << <<1, 2>>, <<1, 2>>, <<3, 1>> >>,
                  << <<1, 2>>, <<1, 2>>, <<3, 1>>, <<0, 1>> >>}

MCCommand ==
  [ins : {"text"}]
    \cup [ins : {"pin"}, pin : MCPins]
    \cup [ins : {"encrypt", "decrypt"}, pin : MCPins, key : MCKeys, data : MCData]

(* XOR with the key, then a rotation: a permutation that is not its own    *)
(* inverse.                                                                *)
MCCipher(k, b) == <<b[2] ^^ (k + 1), b[1]>>
MCDecipher(k, b) == <<b[2], b[1] ^^ (k + 1)>>
MCXor(a, b) == <<a[1] ^^ b[1], a[2] ^^ b[2]>>
=============================================================================
