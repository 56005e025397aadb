-------------------------------- MODULE Aes --------------------------------
(***************************************************************************)
(* The AES-256 of the picoHSM's security processor (aes.c) on bytes 0..255 *)
(* and blocks of four columns of four bytes, in the modes ECB, CBC and     *)
(* CTR.  A context is a record of the round keys and the vector.           *)
(***************************************************************************)
EXTENDS Naturals, Sequences

LOCAL INSTANCE Bitwise

Nk == 8
Nr == 14

sbox ==
  <<99, 124, 119, 123, 242, 107, 111, 197, 48, 1, 103, 43, 254, 215, 171, 118,
  202, 130, 201, 125, 250, 89, 71, 240, 173, 212, 162, 175, 156, 164, 114, 192,
  183, 253, 147, 38, 54, 63, 247, 204, 52, 165, 229, 241, 113, 216, 49, 21,
  4, 199, 35, 195, 24, 150, 5, 154, 7, 18, 128, 226, 235, 39, 178, 117,
  9, 131, 44, 26, 27, 110, 90, 160, 82, 59, 214, 179, 41, 227, 47, 132,
  83, 209, 0, 237, 32, 252, 177, 91, 106, 203, 190, 57, 74, 76, 88, 207,
  208, 239, 170, 251, 67, 77, 51, 133, 69, 249, 2, 127, 80, 60, 159, 168,
  81, 163, 64, 143, 146, 157, 56, 245, 188, 182, 218, 33, 16, 255, 243, 210,
  205, 12, 19, 236, 95, 151, 68, 23, 196, 167, 126, 61, 100, 93, 25, 115,
  96, 129, 79, 220, 34, 42, 144, 136, 70, 238, 184, 20, 222, 94, 11, 219,
  224, 50, 58, 10, 73, 6, 36, 92, 194, 211, 172, 98, 145, 149, 228, 121,
  231, 200, 55, 109, 141, 213, 78, 169, 108, 86, 244, 234, 101, 122, 174, 8,
  186, 120, 37, 46, 28, 166, 180, 198, 232, 221, 116, 31, 75, 189, 139, 138,
  112, 62, 181, 102, 72, 3, 246, 14, 97, 53, 87, 185, 134, 193, 29, 158,
  225, 248, 152, 17, 105, 217, 142, 148, 155, 30, 135, 233, 206, 85, 40, 223,
  140, 161, 137, 13, 191, 230, 66, 104, 65, 153, 45, 15, 176, 84, 187, 22>>

rsbox ==
  <<82, 9, 106, 213, 48, 54, 165, 56, 191, 64, 163, 158, 129, 243, 215, 251,
  124, 227, 57, 130, 155, 47, 255, 135, 52, 142, 67, 68, 196, 222, 233, 203,
  84, 123, 148, 50, 166, 194, 35, 61, 238, 76, 149, 11, 66, 250, 195, 78,
  8, 46, 161, 102, 40, 217, 36, 178, 118, 91, 162, 73, 109, 139, 209, 37,
  114, 248, 246, 100, 134, 104, 152, 22, 212, 164, 92, 204, 93, 101, 182, 146,
  108, 112, 72, 80, 253, 237, 185, 218, 94, 21, 70, 87, 167, 141, 157, 132,
  144, 216, 171, 0, 140, 188, 211, 10, 247, 228, 88, 5, 184, 179, 69, 6,
  208, 44, 30, 143, 202, 63, 15, 2, 193, 175, 189, 3, 1, 19, 138, 107,
  58, 145, 17, 65, 79, 103, 220, 234, 151, 242, 207, 206, 240, 180, 230, 115,
  150, 172, 116, 34, 231, 173, 53, 133, 226, 249, 55, 232, 28, 117, 223, 110,
  71, 241, 26, 113, 29, 41, 197, 137, 111, 183, 98, 14, 170, 24, 190, 27,
  252, 86, 62, 75, 198, 210, 121, 32, 154, 219, 192, 254, 120, 205, 90, 244,
  31, 221, 168, 51, 136, 7, 199, 49, 177, 18, 16, 89, 39, 128, 236, 95,
  96, 81, 127, 169, 25, 181, 74, 13, 45, 229, 122, 159, 147, 201, 156, 239,
  160, 224, 59, 77, 174, 42, 245, 176, 200, 235, 187, 60, 131, 83, 153, 97,
  23, 43, 4, 126, 186, 119, 214, 38, 225, 105, 20, 99, 85, 33, 12, 125>>

Rcon == <<141, 1, 2, 4, 8, 16, 32, 64, 128, 27, 54>>

-----------------------------------------------------------------------------
(* Arithmetic on bytes.                                                    *)

Bit(x, i) == (x \div 2^i) % 2

(* The operator ^ of C on bytes, as a table.                               *)
Xors == [a \in 0..255 |-> [b \in 0..255 |-> a ^^ b]]
XorByte(a, b) == Xors[a][b]

XorWord(u, v) == <<XorByte(u[1], v[1]), XorByte(u[2], v[2]),
                   XorByte(u[3], v[3]), XorByte(u[4], v[4])>>
(* A function on the columns of a block, as the tuple it is.               *)
EachColumn(F(_), s) == SubSeq([i \in DOMAIN s |-> F(i)], 1, 4)

XorWithIv(s, t) == LET xor(i) == XorWord(s[i], t[i]) IN EachColumn(xor, s)

xtime(x) == XorByte((2 * x) % 256, Bit(x, 7) * 27)

Multiply(x, y) ==
  LET x2 == xtime(x)
      x4 == xtime(x2)
      x8 == xtime(x4)
      Term(i, t) == Bit(y, i) * t
  IN  XorByte(XorByte(Term(0, x), Term(1, x2)),
              XorByte(Term(2, x4), XorByte(Term(3, x8), Term(4, xtime(x8)))))

-----------------------------------------------------------------------------
(* The steps of a round.                                                   *)

SubWord(u) == <<sbox[u[1] + 1], sbox[u[2] + 1], sbox[u[3] + 1], sbox[u[4] + 1]>>
InvSubWord(u) ==
  <<rsbox[u[1] + 1], rsbox[u[2] + 1], rsbox[u[3] + 1], rsbox[u[4] + 1]>>

SubBytes(s) == LET sub(i) == SubWord(s[i]) IN EachColumn(sub, s)
InvSubBytes(s) == LET sub(i) == InvSubWord(s[i]) IN EachColumn(sub, s)

(* Row j of column i comes from column i + j, or i - j.                    *)
Column(i) == ((i - 1) % 4) + 1
ShiftRows(s) ==
  LET col(i) == <<s[i][1], s[Column(i + 1)][2], s[Column(i + 2)][3],
                  s[Column(i + 3)][4]>>
  IN  EachColumn(col, s)
InvShiftRows(s) ==
  LET col(i) == <<s[i][1], s[Column(i + 3)][2], s[Column(i + 2)][3],
                  s[Column(i + 1)][4]>>
  IN  EachColumn(col, s)

MixColumn(u) ==
  LET Tmp == XorByte(XorByte(u[1], u[2]), XorByte(u[3], u[4]))
      mixed(a, b) == XorByte(a, XorByte(xtime(XorByte(a, b)), Tmp))
  IN  <<mixed(u[1], u[2]), mixed(u[2], u[3]), mixed(u[3], u[4]), mixed(u[4], u[1])>>
MixColumns(s) == LET mix(i) == MixColumn(s[i]) IN EachColumn(mix, s)

InvMixColumn(u) ==
  LET sum(w, x, y, z) ==
        XorByte(XorByte(Multiply(u[1], w), Multiply(u[2], x)),
                XorByte(Multiply(u[3], y), Multiply(u[4], z)))
  IN  <<sum(14, 11, 13, 9), sum(9, 14, 11, 13), sum(13, 9, 14, 11),
        sum(11, 13, 9, 14)>>
InvMixColumns(s) == LET mix(i) == InvMixColumn(s[i]) IN EachColumn(mix, s)

AddRoundKey(round, s, RoundKey) ==
  XorWithIv(s, SubSeq(RoundKey, 4 * round + 1, 4 * round + 4))

-----------------------------------------------------------------------------
(* The key schedule: a sequence of words, the key's first.                 *)

RotWord(u) == <<u[2], u[3], u[4], u[1]>>

(* Mutant: the extra substitution of a 256-bit key is left out.            *)
NextWord128(w) ==
  LET i == Len(w)
      temp == w[i]
      mixed == IF i % Nk = 0
                 THEN XorWord(SubWord(RotWord(temp)), <<Rcon[(i \div Nk) + 1], 0, 0, 0>>)
                 ELSE temp
  IN  Append(w, XorWord(w[i - Nk + 1], mixed))

NextWord(w) ==
  LET i == Len(w)
      temp == w[i]
      mixed == CASE i % Nk = 0 -> XorWord(SubWord(RotWord(temp)),
                                          <<Rcon[(i \div Nk) + 1], 0, 0, 0>>)
                 [] i % Nk = 4 -> SubWord(temp)
                 [] OTHER      -> temp
  IN  Append(w, XorWord(w[i - Nk + 1], mixed))

KeyExpansion(key) ==
  LET w[i \in Nk..(4 * (Nr + 1))] == IF i = Nk THEN key ELSE NextWord(w[i - 1])
  IN  w[4 * (Nr + 1)]

AES_init_ctx_iv(key, iv) == [RoundKey |-> KeyExpansion(key), Iv |-> iv]

-----------------------------------------------------------------------------
(* The ciphers, and their modes.                                           *)

Round(n, s, RoundKey) == AddRoundKey(n, MixColumns(ShiftRows(SubBytes(s))), RoundKey)
Cipher(s, RoundKey) ==
  LET state[n \in 0..(Nr - 1)] ==
        IF n = 0 THEN AddRoundKey(0, s, RoundKey) ELSE Round(n, state[n - 1], RoundKey)
  IN  AddRoundKey(Nr, ShiftRows(SubBytes(state[Nr - 1])), RoundKey)

InvRound(n, s, RoundKey) == AddRoundKey(n, InvSubBytes(InvShiftRows(s)), RoundKey)
InvCipher(s, RoundKey) ==
  LET state[n \in 1..Nr] ==
        IF n = Nr THEN AddRoundKey(Nr, s, RoundKey)
                  ELSE InvMixColumns(InvRound(n, state[n + 1], RoundKey))
  IN  InvRound(0, state[1], RoundKey)

(* The CBC calls take whole blocks and leave the vector of the next call.  *)
EncryptBlock(r, block) ==
  LET c == Cipher(XorWithIv(block, r.ctx.Iv), r.ctx.RoundKey)
  IN  [buf |-> Append(r.buf, c), ctx |-> [r.ctx EXCEPT !.Iv = c]]
AES_CBC_encrypt_buffer(ctx, buf) ==
  LET r[n \in 0..Len(buf)] == IF n = 0 THEN [buf |-> << >>, ctx |-> ctx]
                                      ELSE EncryptBlock(r[n - 1], buf[n])
  IN  r[Len(buf)]

(* Mutant: the vector of the next call is the block decrypted.             *)
DecryptBlockPlain(r, block) ==
  LET p == XorWithIv(InvCipher(block, r.ctx.RoundKey), r.ctx.Iv)
  IN  [buf |-> Append(r.buf, p), ctx |-> [r.ctx EXCEPT !.Iv = p]]

DecryptBlock(r, block) ==
  LET p == XorWithIv(InvCipher(block, r.ctx.RoundKey), r.ctx.Iv)
  IN  [buf |-> Append(r.buf, p), ctx |-> [r.ctx EXCEPT !.Iv = block]]
AES_CBC_decrypt_buffer(ctx, buf) ==
  LET r[n \in 0..Len(buf)] == IF n = 0 THEN [buf |-> << >>, ctx |-> ctx]
                                      ELSE DecryptBlock(r[n - 1], buf[n])
  IN  r[Len(buf)]

(* CTR: the vector is a counter of 16 bytes, the last the least; a call    *)
(* takes bytes, and drops what is left of its last block.                  *)
Bytes(s) == s[1] \o s[2] \o s[3] \o s[4]
Block(b) == <<SubSeq(b, 1, 4), SubSeq(b, 5, 8), SubSeq(b, 9, 12), SubSeq(b, 13, 16)>>

Increment(b) ==
  LET carry(i) == \A j \in (i + 1)..16 : b[j] = 255
  IN  SubSeq([i \in 1..16 |-> IF carry(i) THEN (b[i] + 1) % 256 ELSE b[i]], 1, 16)

XcryptBlock(r, part) ==
  LET stream == Bytes(Cipher(r.ctx.Iv, r.ctx.RoundKey))
  IN  [buf |-> r.buf \o SubSeq([i \in DOMAIN part |-> XorByte(part[i], stream[i])],
                               1, Len(part)),
       ctx |-> [r.ctx EXCEPT !.Iv = Block(Increment(Bytes(@)))]]
AES_CTR_xcrypt_buffer(ctx, buf) ==
  LET blocks == (Len(buf) + 15) \div 16
      part(n) == SubSeq(buf, 16 * n - 15, IF 16 * n < Len(buf) THEN 16 * n ELSE Len(buf))
      r[n \in 0..blocks] == IF n = 0 THEN [buf |-> << >>, ctx |-> ctx]
                                     ELSE XcryptBlock(r[n - 1], part(n))
  IN  r[blocks]
=============================================================================
