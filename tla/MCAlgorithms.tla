---------------------------- MODULE MCAlgorithms ----------------------------
(***************************************************************************)
(* The algorithms of the repository, for TLC: the arithmetic of a          *)
(* signature by several nodes, as the machine it is, and the functions of  *)
(* Aes, Conversions and Checker against reference definitions, on one      *)
(* input in each initial state.                                            *)
(***************************************************************************)
EXTENDS SmpcShares, Aes, Conversions, Checker

VARIABLE input      \* the name of an algorithm, and what it is given

MCXOf(n) == IF n < P - n THEN n ELSE P - n

Byte == 0..255

(* What is signed or computed.                                             *)
NoSigning ==
  /\ phase = "none" /\ d = 0 /\ z = 0 /\ secret_y = NoShare
  /\ coefficients = << >> /\ k_share = NoShare /\ r = 0 /\ rand = NoShare
  /\ hidden = NoShare /\ s = 0

TextChars == {97, 32, 0}
Texts == UNION {[1..n -> TextChars] : n \in 0..6}
Digits == UNION {[1..n -> {48, 50, 57, 97}] : n \in 0..5}

Values(f) == {f[x] : x \in DOMAIN f}
Registers == Values(common_reg) \cup Values(socket_reg) \cup Values(buffer_reg)

Draws(n) == [1..(n - 1) -> 0..RAND_MAX]
SecretFiles == UNION {[1..n -> {1, NewLine}] : n \in 1..(SECRET_SIZE + 1)}
Guesses == [0..(SECRET_SIZE - 1) -> {0, 1, 2, 3, NewLine}]

Input ==
  \/ input \in {<<"byte", x>> : x \in Byte}
  \/ input \in {<<"vector", m>> : m \in {"ECB", "CBC", "CTR"}}
  \/ input \in {<<"blocks", n, m>> : n \in 0..3, m \in 0..3}
  \/ input \in {<<"stream", n>> : n \in {0, 1, 15, 16, 17, 33}}
  \/ input \in {<<"number", x>> : x \in 0..(Word - 1)}
  \/ input \in {<<"digits", t>> : t \in Digits}
  \/ input \in {<<"text", t>> : t \in Texts}
  \/ input \in {<<"frame", f, n, wr, l>> : f \in Registers, n \in 0..7,
                                           wr \in BOOLEAN, l \in {1, 2, 4, 32}}
  \/ input \in {<<"shuffle", n>> : n \in 1..(SECRET_SIZE + 1)}
  \/ input \in {<<"guess", f, g>> : f \in SecretFiles, g \in Guesses}

AlgorithmsInit ==
  \/ Init /\ input = <<"sign">>
  \/ NoSigning /\ Input

AlgorithmsNext == Next /\ UNCHANGED input

AlgorithmsSpec == AlgorithmsInit /\ [][AlgorithmsNext]_<<vars, input>>

-----------------------------------------------------------------------------
(* References: the field of AES as polynomials over two elements, each the *)
(* set of its exponents, modulo x^8 + x^4 + x^3 + x + 1.                   *)

Exponents(x) == {i \in 0..7 : Bit(x, i) = 1}
Xor(A, B) == (A \ B) \cup (B \ A)
TimesX(A) ==
  LET B == {i + 1 : i \in A}
  IN  IF 8 \in B THEN Xor(B, {0, 1, 3, 4, 8}) ELSE B
Times(A, B) ==
  LET shifted[n \in 0..7] == IF n = 0 THEN A ELSE TimesX(shifted[n - 1])
      sum[n \in 0..8] == IF n = 0 THEN {}
                         ELSE IF n - 1 \in B THEN Xor(sum[n - 1], shifted[n - 1])
                         ELSE sum[n - 1]
  IN  sum[8]

(* The affine map of the substitution: bits i, i + 4, ..., i + 7, and 63.  *)
Affine(A) ==
  Xor({i \in 0..7 : Cardinality({k \in {0, 4, 5, 6, 7} : (i + k) % 8 \in A}) % 2 = 1},
      {0, 1, 5, 6})

(* FIPS 197's matrix, by its first row: the others are its rotations.      *)
Mixed(u, row, i) ==
  LET term(j) == Times(Exponents(u[j + 1]), Exponents(row[((j - i) % 4) + 1]))
  IN  Xor(Xor(term(0), term(1)), Xor(term(2), term(3)))

Inverts(x) ==
  \E y \in Byte :
    /\ Affine(Exponents(y)) = Exponents(sbox[x + 1])
    /\ IF x = 0 THEN y = 0 ELSE Times(Exponents(x), Exponents(y)) = {0}

ByteStandard(x) ==
  LET u == <<x, (x + 85) % 256, (7 * x) % 256, 255 - x>>
  IN  /\ Inverts(x)
      /\ rsbox[sbox[x + 1] + 1] = x
      /\ \A i \in 0..3 :
           /\ Exponents(MixColumn(u)[i + 1]) = Mixed(u, <<2, 3, 1, 1>>, i)
           /\ Exponents(InvMixColumn(u)[i + 1]) = Mixed(u, <<14, 11, 13, 9>>, i)

(* The first two blocks of the examples of NIST SP 800-38A, AES-256.       *)
Blocks(b) ==
  SubSeq([n \in 1..(Len(b) \div 16) |-> Block(SubSeq(b, 16 * n - 15, 16 * n))],
         1, Len(b) \div 16)
VectorKey ==
  LET b == <<96, 61, 235, 16, 21, 202, 113, 190, 43, 115, 174, 240, 133, 125,
             119, 129, 31, 53, 44, 7, 59, 97, 8, 215, 45, 152, 16, 163, 9, 20,
             223, 244>>
  IN  Blocks(b)[1] \o Blocks(b)[2]
Plain ==
  <<107, 193, 190, 226, 46, 64, 159, 150, 233, 61, 126, 17, 115, 147, 23, 42,
    174, 45, 138, 87, 30, 3, 172, 156, 158, 183, 111, 172, 69, 175, 142, 81>>
Upward(from) == SubSeq([i \in 1..16 |-> from + i - 1], 1, 16)
Vector(mode) ==
  CASE mode = "ECB" ->
         <<243, 238, 209, 189, 181, 210, 160, 60, 6, 75, 90, 126, 61, 177, 129,
           248, 89, 28, 203, 16, 212, 16, 237, 38, 220, 91, 167, 74, 49, 54, 40,
           112>>
    [] mode = "CBC" ->
         <<245, 140, 76, 4, 214, 229, 241, 186, 119, 158, 171, 251, 95, 123,
           251, 214, 156, 252, 78, 150, 126, 219, 128, 141, 103, 159, 119, 123,
           198, 112, 44, 125>>
    [] mode = "CTR" ->
         <<96, 30, 195, 19, 119, 87, 137, 165, 183, 167, 245, 4, 187, 243, 210,
           40, 244, 67, 227, 202, 77, 98, 181, 154, 202, 132, 233, 144, 202,
           202, 245, 197>>

CbcContext == AES_init_ctx_iv(VectorKey, Block(Upward(0)))
CtrContext == AES_init_ctx_iv(VectorKey, Block(Upward(240)))

VectorStandard(mode) ==
  CASE mode = "ECB" -> \A n \in 1..2 :
         /\ Cipher(Blocks(Plain)[n], CbcContext.RoundKey) = Blocks(Vector(mode))[n]
         /\ InvCipher(Blocks(Vector(mode))[n], CbcContext.RoundKey) = Blocks(Plain)[n]
    [] mode = "CBC" ->
         AES_CBC_encrypt_buffer(CbcContext, Blocks(Plain)).buf = Blocks(Vector(mode))
    [] mode = "CTR" ->
         AES_CTR_xcrypt_buffer(CtrContext, Plain).buf = Vector(mode)

(* Two calls, the second with what the first left in the context.          *)
After(before, result) == [result EXCEPT !.buf = before \o @]
InTwo(Crypt(_, _), buf, n) ==
  LET part(k) == IF k = 1 THEN SubSeq(buf, 1, n) ELSE SubSeq(buf, n + 1, Len(buf))
      call[k \in 0..2] ==
        IF k = 0 THEN [buf |-> << >>, ctx |-> CbcContext]
                 ELSE After(call[k - 1].buf, Crypt(call[k - 1].ctx, part(k)))
  IN  call[2].buf

Message == Blocks(Plain \o Upward(100))
Stream(n) == SubSeq(Plain \o Plain, 1, n)

-----------------------------------------------------------------------------

(* Decimal, without wrapping.                                              *)
Decimal(t) ==
  LET value[n \in 0..Len(t)] == IF n = 0 THEN 0 ELSE 10 * value[n - 1] + (t[n] - 48)
  IN  value[Len(t)]

NumberExact(x) ==
  LET signed == IF 2 * x >= Word THEN x - Word ELSE x
      text == i32_to_str(signed)
      pair == <<x % 256, 255 - (x % 256)>>
      hex == bytes_to_hex(pair)
      half == hex \o hex \o hex \o hex
  IN  /\ str_to_u32(u32_to_str(x)) = Done(x)
      /\ Decimal(u32_to_str(x)) = x
      /\ signed < 0 => text[1] = Minus /\ -Decimal(Tail(text)) = signed
      /\ signed >= 0 => Decimal(text) = signed
      /\ hex_to_bytes(hex) = Done(pair)
      /\ hex_string_valid(half \o half, 16)
      /\ ~hex_string_valid(half, 16)
      /\ ~hex_string_valid(half \o half, 15)
      /\ ~hex_string_valid(half \o Tail(half) \o <<Nine + 1>>, 16)

DigitsExact(t) ==
  str_to_u32(t) = IF 97 \in {t[i] : i \in DOMAIN t} THEN Failed
                  ELSE Done(Decimal(t) % Word)

(* The runs of other characters, each with a separator after it.           *)
Runs(t) ==
  {<<a, b>> \in (DOMAIN t) \X (DOMAIN t) :
     /\ a <= b /\ b < Len(t)
     /\ \A i \in a..b : t[i] \notin Separators
     /\ t[b + 1] \in Separators
     /\ a > 1 => t[a - 1] \in Separators}

ArgumentsExact(t, max) ==
  LET args == parse_args(t, max)
      nth(n) == CHOOSE run \in Runs(t) :
                  Cardinality({other \in Runs(t) : other[1] <= run[1]}) = n
  IN  /\ Len(args) = IF Cardinality(Runs(t)) < max THEN Cardinality(Runs(t)) ELSE max
      /\ \A n \in DOMAIN args :
           /\ args[n] = SubSeq(t, nth(n)[1], nth(n)[2])
           /\ \A m \in DOMAIN args : (strcmp(args[n], args[m]) = 0) = (args[n] = args[m])

(* The chip: an offset, five bits for the block, of which socket n has     *)
(* 4n + 1 to 4n + 3, one for the direction, two for the length.            *)
FrameExact(f, n, wr, l) ==
  LET head == frame_head(f, n, wr, l)
  IN  /\ head[3] \div 8 = CASE f \in Values(common_reg) -> 0
                           [] f \in Values(socket_reg) -> 4 * n + 1
                           [] f = buffer_reg.tx_buf    -> 4 * n + 2
                           [] f = buffer_reg.rx_buf    -> 4 * n + 3
      /\ 256 * head[1] + head[2] = f % 65536
      /\ (head[3] \div 4) % 2 = IF wr THEN 1 ELSE 0
      /\ head[3] % 4 \in {0, IF l = 4 THEN 3 ELSE l}

(* Every draw gives a permutation, and every permutation has its draw.     *)
ShuffleExact(n) ==
  LET Index == 0..(n - 1)
      shuffled == {shuffle([i \in Index |-> i], n, draws) : draws \in Draws(n)}
  IN  shuffled = {f \in [Index -> Index] : \A i, j \in Index : f[i] = f[j] => i = j}

(* A file shorter than the secret leaves bytes of the stack in it, a       *)
(* fixed pattern here.                                                     *)
GuessExact(file, guess) ==
  LET stack == [i \in 0..SECRET_SIZE |-> 2]
      accepts(draws) == check_secret(stack, file, guess, draws)
      line == CHOOSE l \in 0..SECRET_SIZE :
                /\ l <= Len(file) /\ \A k \in 1..(l - 1) : file[k] # NewLine
                /\ \/ l = SECRET_SIZE
                   \/ l = Len(file)
                   \/ l > 0 /\ file[l] = NewLine
      same == \A i \in 0..(SECRET_SIZE - 1) :
                guess[i] = CASE i < line -> file[i + 1] [] i = line -> 0 [] i > line -> 2
  IN  \A draws \in Draws(SECRET_SIZE) : accepts(draws) = same

-----------------------------------------------------------------------------
(* Properties.                                                             *)

(* aes.c is AES: its tables are the inverse in the field of 256 elements   *)
(* and the affine map, its columns are multiplied by FIPS 197's matrices,  *)
(* and it computes the examples of SP 800-38A, the standard its header     *)
(* names.                                                                  *)
AesStandard ==
  /\ input[1] = "byte" => ByteStandard(input[2])
  /\ input[1] = "vector" => VectorStandard(input[2])

(* A message encrypted in CBC mode over several calls, and decrypted over  *)
(* calls that split it otherwise, is the message: the vector each call     *)
(* leaves is the one the next needs.  CTR undoes itself.                   *)
AesInverts ==
  /\ input[1] = "blocks" =>
       InTwo(AES_CBC_decrypt_buffer,
             InTwo(AES_CBC_encrypt_buffer, Message, input[2]), input[3]) = Message
  /\ input[1] = "stream" =>
       LET there == AES_CTR_xcrypt_buffer(CtrContext, Stream(input[2]))
       IN  AES_CTR_xcrypt_buffer(CtrContext, there.buf).buf = Stream(input[2])

(* Numbers and bytes survive being written and read, a number with too     *)
(* many digits is read modulo the word, the arguments are the runs between *)
(* separators, the chip decodes from a frame what the driver meant, and    *)
(* ghostbuster accepts its secret alone in whatever order it compares.     *)
ResultsExact ==
  CASE input[1] = "number" -> NumberExact(input[2])
    [] input[1] = "digits" -> DigitsExact(input[2])
    [] input[1] = "text"   -> ArgumentsExact(input[2], 2)
    [] input[1] = "frame"  -> FrameExact(input[2], input[3], input[4], input[5])
    [] input[1] = "shuffle" -> ShuffleExact(input[2])
    [] input[1] = "guess"   -> GuessExact(input[2], input[3])
    [] OTHER                -> TRUE
=============================================================================
