---------------------------- MODULE Conversions ----------------------------
(***************************************************************************)
(* The picoHSM's parsing and formatting of text (util.cxx, and parse_args  *)
(* and hex_string_valid of main.cxx), and the frames its network driver    *)
(* sends over SPI.  Characters are their ASCII codes.  A string is the     *)
(* sequence before its terminator; memory is a sequence with terminators,  *)
(* and zero after its end.                                                 *)
(***************************************************************************)
EXTENDS Integers, Sequences

CONSTANT Word            \* values of a uint32_t: 2^32

Zero == 48               \* '0'
Nine == 57
LowerA == 97
UpperA == 65
Minus == 45
NUL == 0
Separators == {32, 10, 13, NUL}

Failed == [ok |-> FALSE, value |-> << >>]
Done(v) == [ok |-> TRUE, value |-> v]

-----------------------------------------------------------------------------
(* Strings.                                                                *)

At(mem, i) == IF i \in DOMAIN mem THEN mem[i] ELSE NUL

(* strlen() from an address in memory.                                     *)
strlen(mem, from) ==
  CHOOSE l \in 0..Len(mem) : /\ At(mem, from + l) = NUL
                             /\ \A k \in 0..(l - 1) : At(mem, from + k) # NUL
StringAt(mem, from) == SubSeq(mem, from, from + strlen(mem, from) - 1)

strcmp(s, t) ==
  LET n == CHOOSE n \in 1..(Len(s) + 1) :
             /\ At(s, n) # At(t, n) \/ At(s, n) = NUL
             /\ \A k \in 1..(n - 1) : At(s, k) = At(t, k)
  IN  At(s, n) - At(t, n)

reverse_str(s) == SubSeq([i \in DOMAIN s |-> s[Len(s) + 1 - i]], 1, Len(s))

-----------------------------------------------------------------------------
(* Decimal numbers.                                                        *)

u32_to_str(x) ==
  LET least[n \in 0..x] ==      \* the digits of n, the least first
        IF n < 10 THEN <<Zero + n>> ELSE <<Zero + (n % 10)>> \o least[n \div 10]
  IN  reverse_str(least[x])

i32_to_str(x) ==
  IF x < 0 THEN <<Minus>> \o u32_to_str((-(Word + x)) % Word) ELSE u32_to_str(x)

(* Mutant: the digit is added before the multiplication.                   *)
AppendDigitFirst(result, c) == ((result + (c - Zero)) * 10) % Word

AppendDigit(result, c) == (((result * 10) % Word) + (c - Zero)) % Word

(* The result wraps at Word without an error.                              *)
str_to_u32(s) ==
  LET result[n \in 0..Len(s)] ==
        IF n = 0 THEN 0 ELSE AppendDigit(result[n - 1], s[n])
  IN  IF \A i \in DOMAIN s : s[i] \in Zero..Nine THEN Done(result[Len(s)]) ELSE Failed

-----------------------------------------------------------------------------
(* Hexadecimal.                                                            *)

HexDigit(d) == IF d < 10 THEN Zero + d ELSE LowerA + d - 10
byte_to_hex(x) == <<HexDigit(x \div 16), HexDigit(x % 16)>>

bytes_to_hex(bytes) ==
  SubSeq([i \in 1..(2 * Len(bytes)) |->
            byte_to_hex(bytes[(i + 1) \div 2])[((i - 1) % 2) + 1]],
         1, 2 * Len(bytes))

hex_char_to_byte(c) ==
  CASE c \in Zero..Nine           -> Done(c - Zero)
    [] c \in LowerA..(LowerA + 5) -> Done(c - LowerA + 10)
    [] c \in UpperA..(UpperA + 5) -> Done(c - UpperA + 10)
    [] OTHER                      -> Failed

hex_to_byte(a, b) ==
  LET high == hex_char_to_byte(a)
      low == hex_char_to_byte(b)
  IN  IF high.ok /\ low.ok THEN Done(16 * high.value + low.value) ELSE Failed

hex_to_bytes(s) ==
  LET byte(i) == hex_to_byte(s[2 * i - 1], s[2 * i])
      l == Len(s) \div 2
  IN  IF Len(s) % 2 = 0 /\ \A i \in 1..l : byte(i).ok
        THEN Done(SubSeq([i \in 1..l |-> byte(i).value], 1, l))
        ELSE Failed

(* The data of encrypt and decrypt: whole AES blocks, no more than fit.    *)
hex_string_valid(s, max_bytes) ==
  /\ Len(s) % 32 = 0
  /\ Len(s) \div 2 <= max_bytes
  /\ \A i \in 1..(Len(s) \div 2) : hex_to_byte(s[2 * i - 1], s[2 * i]).ok

-----------------------------------------------------------------------------
(* parse_args(): one turn of its loop.  p.args holds where each argument   *)
(* begins.                                                                 *)

ParseChar(p, i, args_size) ==
  IF p.stop \/ p.buf[i] \notin Separators THEN p
  ELSE LET buf == [p.buf EXCEPT ![i] = NUL]
       IN  IF Len(p.args) >= args_size
             THEN [p EXCEPT !.buf = buf, !.stop = TRUE]
             ELSE [buf |-> buf,
                   args |-> IF strlen(buf, p.token) > 0 THEN Append(p.args, p.token)
                                                        ELSE p.args,
                   token |-> i + 1, stop |-> FALSE]

(* The arguments as strcmp() and the others see them.                      *)
parse_args(buf, args_size) ==
  LET p[i \in 0..Len(buf)] ==
        IF i = 0 THEN [buf |-> buf, args |-> << >>, token |-> 1, stop |-> FALSE]
                 ELSE ParseChar(p[i - 1], i, args_size)
      end == p[Len(buf)]
  IN  SubSeq([n \in DOMAIN end.args |-> StringAt(end.buf, end.args[n])],
             1, Len(end.args))

-----------------------------------------------------------------------------
(* w5500_reg_t: whether the block is repeated for each socket, the block   *)
(* of socket 0, and the offset in the block.  A word or an address has the *)
(* name of its first byte.                                                 *)

OfSocket(block, offset) == 16777216 + 65536 * block + offset

common_reg == [mr |-> 0, gar0 |-> 1, subr0 |-> 5, shar0 |-> 9, sipr0 |-> 15]

socket_reg ==
  [sn_mr |-> OfSocket(1, 0), sn_cr |-> OfSocket(1, 1), sn_ir |-> OfSocket(1, 2),
   sn_sr |-> OfSocket(1, 3), sn_port0 |-> OfSocket(1, 4),
   sn_dhar0 |-> OfSocket(1, 6), sn_dipr0 |-> OfSocket(1, 12),
   sn_dport0 |-> OfSocket(1, 16), sn_tx_fsr0 |-> OfSocket(1, 32),
   sn_tx_rd0 |-> OfSocket(1, 34), sn_tx_wr0 |-> OfSocket(1, 36),
   sn_rx_rsr0 |-> OfSocket(1, 38), sn_rx_rd0 |-> OfSocket(1, 40),
   sn_rx_wr0 |-> OfSocket(1, 42)]

buffer_reg == [tx_buf |-> OfSocket(2, 0), rx_buf |-> OfSocket(3, 0)]

SizeField(len) == CASE len = 1 -> 1 [] len = 2 -> 2 [] len = 4 -> 3 [] OTHER -> 0

(* The three bytes that begin a transaction.                               *)
frame_head(reg, sn, wr, len) ==
  LET offset == reg % 65536
      block == ((((reg \div 16777216) * sn) * 4) + ((reg \div 65536) % 256)) % 256
  IN  <<offset \div 256, offset % 256,
        (block * 8 + (IF wr THEN 4 ELSE 0) + SizeField(len)) % 256>>
=============================================================================
