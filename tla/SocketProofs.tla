---------------------------- MODULE SocketProofs ----------------------------
(***************************************************************************)
(* Socket's safety properties, for every width of a register, every size   *)
(* of the TX buffer, every line of a client and every answer, as long as a *)
(* connection prints less than the buffer holds.                           *)
(***************************************************************************)
EXTENDS Socket, SequenceTheorems, TLAPS

Typed ==
  /\ TypeOK
  /\ said \in Seq(Byte) /\ sent \in Seq(Byte)
  /\ ~misplaced => heard \in Seq(Byte)
  /\ rx \in Seq(Byte) /\ dst \in Seq(Byte) /\ todo \in Seq(Seq(Byte))

(* A polled register only grows, and is polled for less than a turn: it    *)
(* holds the values after w first, if it wraps, and w last.  For TX_RD w   *)
(* is TX_WR.                                                               *)
Before(w, a, b) == IF a <= w <=> b <= w THEN a <= b ELSE b <= w
Turn == IF pc = "pointer" THEN tx_wr ELSE Word - 1

(* The parts of the value being read come from values the register had, in *)
(* the order of time.                                                      *)
Composed(v, a, b) == v = (a \div Base) * Base + (b % Base)

Polled == pc \in Polling /\ (pc = "free" => ~misplaced)

Read ==
  /\ pc \in Polling => Register(pc) \in held
  /\ Polled =>
       /\ \A v \in held : Before(Turn, v, Register(pc))
       /\ high # None => \E c \in held : c \div Base = high
       /\ last # None =>
            \E a, b \in held :
              /\ Before(Turn, a, b)
              /\ Composed(last, a, b)
              /\ high # None =>
                   \E c \in held : Before(Turn, b, c) /\ c \div Base = high
  /\ pc = "free" /\ ~misplaced => \A v \in held : TxSize - Len(said) <= v
  /\ pc = "size" => \A v \in held : 1 <= v
  /\ pc = "exact" => \A v \in held : want <= v

(* There is room for n of the writes in todo.                              *)
Room(n) ==
  \E m \in Nat : /\ \A i \in DOMAIN todo : Len(todo[i]) <= m
                 /\ Len(said) + n * m < TxSize

(* Bytes in the TX buffer which TX_WR does not cover yet.                  *)
Uncovered == IF pc = "send" THEN Len(Head(todo)) ELSE 0

Phase ==
  /\ pc \in {"listen", "await"} =>
       said = << >> /\ heard = << >> /\ dst = << >> /\ ~sending
  /\ pc \in {"free", "pointer", "data"} =>
       /\ todo # << >> /\ Room(Len(todo))
       /\ dst = << >> => said = << >> /\ todo = <<Banner>>
  /\ pc = "send" =>
       /\ todo # << >> /\ Room(Len(todo) - 1)
       /\ dst = << >> => said = Banner /\ todo = <<Banner>>
  /\ pc \in Avail => dst = << >> /\ said = Banner
  /\ pc = "exact" => 1 <= want /\ received = 0
  /\ pc \in {"data", "send"} /\ ~misplaced =>
       tx_pointer = tx_rd /\ tx_wr = tx_rd
  /\ \A i \in DOMAIN todo : todo[i] \in Printed
  /\ Len(said) < TxSize
  /\ ~misplaced => Pending + unacked + Uncovered <= Len(said)

Stage ==
  /\ sr = "init" => pc \in {"listen", "boot"}
  /\ sr \in {"listen", "synrecv", "synack"} => pc = "await"
  /\ pc = "open" => sr = "closed"
  /\ pc = "listen" => sr = "init"
  /\ pc = "await" => sr \in {"listen", "synrecv", "synack", "established",
                             "close_wait", "closed"}
  /\ ~early =>
       /\ pc = "await" => sr \in {"listen", "synrecv", "synack", "established"}
       /\ pc \in Handling => sr = "established"
       /\ pc = "discon" => sr \in {"established", "closed"}
       /\ pc = "closing" => sr \in {"fin_wait", "closing", "time_wait", "closed"}
  /\ pc = "panic" => early \/ misplaced

(* What came in.                                                           *)
Incoming ==
  /\ Len(sent) <= Len(Line) /\ sent = SubSeq(Line, 1, Len(sent))
  /\ sent = dst \o rx

(* What goes out, until a write() is misplaced.                            *)
Outgoing ==
  ~misplaced =>
    /\ Len(heard) + Pending + Uncovered <= Len(said)
    /\ pc # "boot" => Len(heard) + Pending + Uncovered = Len(said)
    /\ \A i \in 1..Len(heard) : heard[i] = said[i]
    /\ \A i \in 1..Pending :
         tx[(tx_rd + i - 1) % TxSize] = said[Len(heard) + i]
    /\ pc = "send" =>
         \A i \in 1..Uncovered :
           tx[(tx_pointer + i - 1) % TxSize] = said[Len(said) - Uncovered + i]

IInv == Typed /\ Read /\ Phase /\ Stage /\ Incoming /\ Outgoing

-----------------------------------------------------------------------------
(* Arithmetic of bytes and of the chip's pointers.                         *)

(* The two bytes of a register's value.                                    *)
LEMMA Bytes ==
  ASSUME NEW v \in Value
  PROVE  /\ v \div Base \in 0..(Base - 1)
         /\ v % Base \in 0..(Base - 1)
         /\ v = (v \div Base) * Base + (v % Base)
<1>1. v \in Nat /\ Base \in Nat \ {0, 1} /\ v < Base * Base
  BY WordAssumption DEF Value, Word
<1>2. v % Base \in 0..(Base - 1) /\ v \div Base \in Nat /\ v = Base * (v \div Base) + (v % Base)
  BY <1>1
<1>3. v \div Base < Base
  BY <1>1, <1>2
<1> QED
  BY <1>1, <1>2, <1>3

(* Two bytes make a value, and determine it.                               *)
LEMMA Compose ==
  ASSUME NEW h \in 0..(Base - 1), NEW l \in 0..(Base - 1)
  PROVE  h * Base + l \in Value
<1>1. Base \in Nat \ {0, 1}
  BY WordAssumption
<1>2. h * Base + l \in Nat
  BY <1>1
<1>3. h * Base <= (Base - 1) * Base
  BY <1>1
<1> QED
  BY <1>1, <1>2, <1>3 DEF Value, Word

LEMMA Decompose ==
  ASSUME NEW h \in Nat, NEW k \in Nat,
         NEW l \in 0..(Base - 1), NEW m \in 0..(Base - 1),
         h * Base + l = k * Base + m
  PROVE  h = k /\ l = m
BY WordAssumption

(* The high byte grows with the value.                                     *)
LEMMA HighOrder ==
  ASSUME NEW x \in Nat, NEW y \in Nat, x <= y
  PROVE  x \div Base <= y \div Base
BY WordAssumption

(* The order in which a register takes its values.                         *)
LEMMA BeforeSelf ==
  ASSUME NEW w \in Value, NEW a \in Value
  PROVE  Before(w, a, a)
BY DEF Before, Value

LEMMA BeforeTransitive ==
  ASSUME NEW w \in Value, NEW a \in Value, NEW b \in Value, NEW c \in Value,
         Before(w, a, b), Before(w, b, c)
  PROVE  Before(w, a, c)
BY WordAssumption DEF Before, Value

(* The high byte was the same at a and, later, at c: it was the same at b, *)
(* in between, or is the same again, nearly a turn later, at d.            *)
LEMMA SameHigh ==
  ASSUME NEW w \in Value, NEW a \in Value, NEW b \in Value, NEW c \in Value,
         NEW d \in Value, Before(w, a, b), Before(w, b, c), Before(w, c, d),
         a \div Base = c \div Base
  PROVE  b \div Base = a \div Base \/ d \div Base = a \div Base
<1>0. w \in Nat /\ a \in Nat /\ b \in Nat /\ c \in Nat /\ d \in Nat
  BY DEF Value
<1>1. /\ a \div Base \in Nat /\ b \div Base \in Nat /\ c \div Base \in Nat
      /\ d \div Base \in Nat
  BY <1>0, WordAssumption
<1>2. CASE a <= b /\ b <= c
  BY <1>0, <1>1, <1>2, HighOrder
<1>3. CASE c <= d /\ d <= a
  BY <1>0, <1>1, <1>3, HighOrder
<1>4. (a <= b /\ b <= c) \/ (c <= d /\ d <= a)
  BY <1>0 DEF Before
<1> QED
  BY <1>2, <1>3, <1>4

LEMMA WordType == Word \in Nat \ {0} /\ TxSize \in Nat \ {0} /\ TxSize < Word
<1>1. Word \in Nat \ {0}
  BY WordAssumption DEF Word
<1> QED
  BY <1>1, WordAssumption

(* A pointer wraps at Word.                                                *)
LEMMA Wrap ==
  ASSUME NEW x \in Value, NEW n \in Value
  PROVE  /\ (x + n) % Word = IF x + n < Word THEN x + n ELSE x + n - Word
         /\ (x - n) % Word = IF n <= x THEN x - n ELSE x - n + Word
         /\ (x + n) % Word \in Value
         /\ (x - n) % Word \in Value
BY WordType DEF Value

(* The buffer's size divides it, so an address is one before and after.    *)
LEMMA AddressWraps ==
  ASSUME NEW x \in Nat, Word <= x
  PROVE  (x - Word) % TxSize = x % TxSize
<1> DEFINE k == Word \div TxSize
           q == x \div TxSize
           r == x % TxSize
<1>1. Word \in Nat /\ TxSize \in Nat \ {0} /\ Word % TxSize = 0
  BY WordType, PointerAssumption
<1>2. k \in Nat /\ Word = TxSize * k
  BY <1>1
<1>3. q \in Nat /\ r \in 0..(TxSize - 1) /\ x = TxSize * q + r
  BY <1>1
<1> HIDE DEF k, q, r
<1>4. x - Word = TxSize * (q - k) + r
  BY <1>1, <1>2, <1>3
<1>5. (TxSize * (q - k) + r) % TxSize = r
  BY <1>1, <1>2, <1>3
<1> QED
  BY <1>4, <1>5 DEF r

(* Every pointer has an address in the buffer.                             *)
LEMMA Address ==
  ASSUME NEW x \in Nat
  PROVE  x % TxSize \in 0..(TxSize - 1)
BY WordType

(* The n-th address after p is n after p.                                  *)
LEMMA Distance ==
  ASSUME NEW p \in Nat, NEW n \in 0..(TxSize - 1)
  PROVE  (((p + n) % TxSize) - p) % TxSize = n
<1> DEFINE q == (p + n) \div TxSize
           r == (p + n) % TxSize
<1>1. q \in Nat /\ r \in 0..(TxSize - 1) /\ p + n = TxSize * q + r
  BY WordType
<1> HIDE DEF q, r
<1>2. r - p = TxSize * (0 - q) + n
  BY <1>1, WordType
<1>3. (TxSize * (0 - q) + n) % TxSize = n
  <2>1. TxSize \in Nat \ {0} /\ 0 - q \in Int
    BY <1>1, WordType
  <2> QED
    BY <2>1
<1> QED
  BY <1>2, <1>3 DEF r

-----------------------------------------------------------------------------
(* What the invariant says of the register that is polled.                 *)

(* What its value depends on.                                              *)
Measured ==
  /\ tx_rd \in Value /\ tx_wr \in Value /\ unacked \in Nat /\ Len(rx) \in Value
  /\ said \in Seq(Byte) /\ todo \in Seq(Seq(Byte))

(* The part of the types that the registers depend on.                     *)
LEMMA TypedMeasures == Typed => Measured
  BY DEF Typed, TypeOK, Measured

(* Pending is the distance from TX_RD to TX_WR.                            *)
LEMMA PendingMeasured ==
  ASSUME Measured
  PROVE  /\ Pending \in Value
         /\ Pending = IF tx_rd <= tx_wr THEN tx_wr - tx_rd
                                       ELSE tx_wr - tx_rd + Word
<1>1. tx_wr \in Value /\ tx_rd \in Value
  BY DEF Measured
<1> QED
  BY <1>1, Wrap DEF Pending

LEMMA PendingType ==
  ASSUME Typed
  PROVE  /\ Pending \in Value
         /\ Pending = IF tx_rd <= tx_wr THEN tx_wr - tx_rd
                                       ELSE tx_wr - tx_rd + Word
BY TypedMeasures, PendingMeasured

(* A polled register holds a 16-bit value.                                 *)
LEMMA RegisterMeasured == Measured /\ pc \in Polling => Register(pc) \in Value
<1> SUFFICES ASSUME Measured, pc \in Polling PROVE Register(pc) \in Value
  OBVIOUS
<1>1. Pending \in Nat /\ unacked \in Nat /\ Word \in Nat \ {0}
  BY PendingMeasured, WordType DEF Value, Measured
<1>2. CASE pc = "free"
  <2>1. Register(pc) = (TxSize - Pending - unacked) % Word
    BY <1>2 DEF Register, Avail
  <2>2. TxSize - Pending - unacked \in Int
    BY <1>1, WordType
  <2> QED
    BY <1>1, <2>1, <2>2 DEF Value
<1>3. CASE pc = "pointer"
  BY <1>3 DEF Register, Measured
<1>4. CASE pc \in Avail
  BY <1>4 DEF Register, Avail, Measured
<1> QED
  BY <1>2, <1>3, <1>4 DEF Polling

LEMMA RegisterType == Typed /\ pc \in Polling => Register(pc) \in Value
  BY TypedMeasures, RegisterMeasured

LEMMA RegisterNext == Measured' /\ (pc \in Polling)' => Register(pc)' \in Value
<1>1. (Measured /\ pc \in Polling => Register(pc) \in Value)'
  BY RegisterMeasured, PTL
<1> QED
  BY <1>1 DEF Value

(* Until a write() is misplaced Sn_TX_FSR is what the buffer has left.     *)
LEMMA FreeMeasured ==
  Measured /\ Phase /\ ~misplaced /\ pc = "free" =>
    /\ Register(pc) = TxSize - Pending - unacked
    /\ TxSize - Len(said) <= Register(pc)
<1> SUFFICES ASSUME Measured, Phase, ~misplaced, pc = "free"
             PROVE  /\ Register(pc) = TxSize - Pending - unacked
                    /\ TxSize - Len(said) <= Register(pc)
  OBVIOUS
<1>1. Pending \in Nat /\ unacked \in Nat /\ Len(said) \in Nat
      /\ Word \in Nat \ {0} /\ TxSize \in Nat /\ TxSize < Word
  BY PendingMeasured, WordType DEF Value, Measured
<1>2. Register(pc) = (TxSize - Pending - unacked) % Word
  BY DEF Register, Avail
<1>3. Pending + unacked <= Len(said) /\ Len(said) < TxSize
  BY <1>1 DEF Phase, Uncovered
<1>4. TxSize - Pending - unacked \in 0..(Word - 1)
  BY ONLY <1>1, <1>3
<1>5. (TxSize - Pending - unacked) % Word = TxSize - Pending - unacked
  BY <1>1, <1>4
<1> QED
  BY ONLY <1>1, <1>2, <1>3, <1>5

LEMMA FreeNext ==
  Measured' /\ Phase' /\ ~misplaced' /\ pc' = "free" =>
    /\ Register(pc)' = TxSize - Pending' - unacked'
    /\ TxSize - Len(said') <= Register(pc)'
<1>1. (Measured /\ Phase /\ ~misplaced /\ pc = "free" =>
         /\ Register(pc) = TxSize - Pending - unacked
         /\ TxSize - Len(said) <= Register(pc))'
  BY FreeMeasured, PTL
<1> QED
  BY <1>1

(* The registers other than TX_RD do not wrap.                             *)
LEMMA TurnType == Measured => Turn \in Value
  BY WordType DEF Turn, Measured, Value

LEMMA TurnNext == Measured' => Turn' \in Value
<1>1. (Measured => Turn \in Value)'
  BY TurnType, PTL
<1> QED
  BY <1>1 DEF Value

LEMMA InOrder ==
  ASSUME pc # "pointer", NEW a \in Value, NEW b \in Value
  PROVE  Before(Turn, a, b) <=> a <= b
BY WordType DEF Before, Turn, Value

(* read_u16_stable()'s two values agree: the high byte was the same before *)
(* the low byte of the first value was read and after, so the register     *)
(* never had another in between, unless it has gone nearly all the way     *)
(* round and holds that value now.                                         *)
LEMMA StableIsHeld == Typed /\ Read => StableHeld
<1> SUFFICES ASSUME Typed, Read, Polled, Stable
             PROVE  last \in held
  BY DEF StableHeld, Polled
<1>1. Register(pc) \in Value /\ Register(pc) \in held
  BY RegisterType DEF Read, Polled
<1>2. high # None /\ last # None /\ high \in 0..(Base - 1) /\ last \in Value
  <2>1. high \in 0..(Base - 1) /\ last = ReadValue
    BY DEF Stable, Typed, TypeOK
  <2>2. ReadValue \in Value
    BY <1>1, <2>1, Bytes, Compose DEF ReadValue
  <2>3. ReadValue # None
    BY <2>2, NoneAssumption DEF Value
  <2> QED
    BY <2>1, <2>2, <2>3 DEF Stable
<1>3. last = high * Base + (Register(pc) % Base)
  BY DEF Stable, ReadValue
<1>4. PICK a \in held, b \in held :
             /\ Before(Turn, a, b)
             /\ Composed(last, a, b)
             /\ high # None =>
                  \E c \in held : Before(Turn, b, c) /\ c \div Base = high
  BY <1>2 DEF Read
<1>5. PICK c \in held : Before(Turn, b, c) /\ c \div Base = high
  BY <1>2, <1>4
<1>6. /\ a \in Value /\ b \in Value /\ c \in Value /\ Turn \in Value
      /\ Before(Turn, c, Register(pc))
  BY TypedMeasures, TurnType DEF Typed, TypeOK, Read
<1>7. a \div Base \in Nat /\ b % Base \in 0..(Base - 1) /\ Register(pc) % Base \in 0..(Base - 1)
  BY <1>1, <1>6, Bytes
<1>8. (a \div Base) * Base + (b % Base) = high * Base + (Register(pc) % Base)
  BY <1>3, <1>4 DEF Composed
<1>9. a \div Base = high /\ b % Base = Register(pc) % Base
  BY <1>2, <1>7, <1>8, Decompose
<1>10. b \div Base = high \/ Register(pc) \div Base = high
  BY <1>1, <1>4, <1>5, <1>6, <1>9, SameHigh
<1>11. last = b \/ last = Register(pc)
  BY <1>1, <1>3, <1>6, <1>9, <1>10, Bytes
<1> QED
  BY <1>1, <1>11

(* write() finds room for what it was given.                               *)
LEMMA FreeSuffices ==
  ASSUME IInv, ~misplaced, pc = "free", Stable
  PROVE  last > Len(Head(todo))
<1>1. last \in held /\ last \in Value
  BY StableIsHeld DEF IInv, StableHeld, Polling, Typed, TypeOK
<1>2. TxSize - Len(said) <= last
  BY <1>1 DEF IInv, Read
<1>3. todo # << >> /\ Room(Len(todo)) /\ todo \in Seq(Seq(Byte)) /\ said \in Seq(Byte)
  BY DEF IInv, Phase, Typed
<1>4. PICK m \in Nat : /\ \A i \in DOMAIN todo : Len(todo[i]) <= m
                       /\ Len(said) + Len(todo) * m < TxSize
  BY <1>3 DEF Room
<1>5. Len(Head(todo)) <= m /\ Len(Head(todo)) \in Nat /\ Len(todo) \in Nat \ {0} /\ Len(said) \in Nat
  BY <1>3, <1>4
<1>6. m <= Len(todo) * m
  BY <1>5
<1> QED
  BY <1>1, <1>2, <1>4, <1>5, <1>6, WordType DEF Value

(* What is in the RX buffer stays there while its size is polled.          *)
LEMMA LastArrived ==
  ASSUME IInv, pc \in Avail, last \in held
  PROVE  last <= Len(rx) /\ Len(rx) \in Nat
<1>1. Register(pc) = Len(rx) /\ pc # "pointer" /\ Polled
  BY DEF Register, Avail, Polled, Polling
<1>2. last \in Value /\ Len(rx) \in Value /\ Before(Turn, last, Len(rx))
  BY <1>1 DEF IInv, Read, Typed, TypeOK
<1> QED
  BY <1>1, <1>2, InOrder DEF Value

(* read_exact() gets what it was asked for in its first turn.              *)
LEMMA ReadsAll ==
  ASSUME IInv, pc = "exact", Stable
  PROVE  /\ Chunk = want /\ received = 0 /\ dst = << >>
         /\ want \in 1..Len(rx)
<1>1. last \in held /\ last \in Value
  BY StableIsHeld DEF IInv, StableHeld, Polling, Avail, Typed, TypeOK
<1>2. want <= last /\ want \in Nat /\ 1 <= want /\ received = 0 /\ dst = << >>
  BY <1>1, LineAssumption DEF IInv, Read, Phase, Avail, Typed, TypeOK
<1>3. last <= Len(rx) /\ Len(rx) \in Nat
  BY <1>1, LastArrived DEF Avail
<1> QED
  BY <1>1, <1>2, <1>3 DEF Chunk, Minimum, Value

(* Hence one turn of read_exact()'s loop reads all it was asked for.       *)
LEMMA ReadExactReads ==
  ASSUME IInv, ReadExact
  PROVE  /\ dst' = SubSeq(rx, 1, want) /\ rx' = SubSeq(rx, want + 1, Len(rx))
         /\ want \in 1..Len(rx) /\ dst = << >> /\ received' = want
         /\ Execute
<1>1. pc = "exact" /\ Stable
  BY DEF ReadExact
<1>2. Chunk = want /\ received = 0 /\ dst = << >> /\ want \in 1..Len(rx)
  BY <1>1, ReadsAll
<1>3. rx \in Seq(Byte) /\ Len(rx) \in Nat /\ want \in Nat
  BY <1>2 DEF IInv, Typed
<1>4. SubSeq(dst, want + 1, Len(dst)) = << >>
  BY <1>2, <1>3
<1>5. SubSeq(rx, 1, want) \in Seq(Byte)
  BY <1>2, <1>3
<1>6. SubSeq(rx, 1, want) \o << >> = SubSeq(rx, 1, want)
  BY <1>5
<1>7. /\ dst' = SubSeq(rx, 1, want) \o << >>
      /\ rx' = SubSeq(rx, want + 1, Len(rx))
      /\ received' = want
      /\ Execute
  BY <1>2, <1>3, <1>4 DEF ReadExact
<1> QED
  BY <1>2, <1>6, <1>7

(* A prefix and the segment that follows it are a prefix.                  *)
LEMMA Extends ==
  ASSUME NEW s \in Seq(Byte), NEW n \in 0..Len(s), NEW j \in n..Len(s)
  PROVE  SubSeq(s, 1, n) \o SubSeq(s, n + 1, j) = SubSeq(s, 1, j)
<1>1. 1 \in 1..(Len(s) + 1) /\ n \in (1 - 1)..Len(s) /\ j \in n..Len(s)
  OBVIOUS
<1> QED
  BY ONLY <1>1, s \in Seq(Byte), ConcatAdjacentSubSeq

(* A sequence is its first n elements and the others.                      *)
LEMMA Concatenates ==
  ASSUME NEW s \in Seq(Byte), NEW n \in 0..Len(s)
  PROVE  /\ SubSeq(s, 1, n) \o SubSeq(s, n + 1, Len(s)) = s
         /\ Len(SubSeq(s, 1, n)) = n
         /\ SubSeq(s, 1, n) \in Seq(Byte)
         /\ SubSeq(s, n + 1, Len(s)) \in Seq(Byte)
<1>1. Len(s) \in n..Len(s)
  OBVIOUS
<1>2. SubSeq(s, 1, n) \o SubSeq(s, n + 1, Len(s)) = SubSeq(s, 1, Len(s))
  BY <1>1, Extends
<1>3. SubSeq(s, 1, Len(s)) = s
  BY SubSeqFull
<1>4. /\ Len(SubSeq(s, 1, n)) = n
      /\ SubSeq(s, 1, n) \in Seq(Byte)
      /\ SubSeq(s, n + 1, Len(s)) \in Seq(Byte)
  OBVIOUS
<1> QED
  BY ONLY <1>2, <1>3, <1>4

(* Concatenation is associative.                                           *)
LEMMA Regroups ==
  ASSUME NEW s \in Seq(Byte), NEW t \in Seq(Byte), NEW u \in Seq(Byte)
  PROVE  s \o (t \o u) = (s \o t) \o u
<1>1. Len((s \o t) \o u) = Len(s \o (t \o u))
  OBVIOUS
<1>2. (s \o t) \o u \in Seq(Byte) /\ s \o (t \o u) \in Seq(Byte)
  OBVIOUS
<1>3. \A i \in 1..Len((s \o t) \o u) : ((s \o t) \o u)[i] = (s \o (t \o u))[i]
  OBVIOUS
<1> QED
  BY <1>1, <1>2, <1>3

-----------------------------------------------------------------------------
(* The invariant, part by part.                                            *)

(* What arrived is read once, and nothing else is.                         *)
LEMMA NextIncoming == IInv /\ Next => Incoming'
<1> SUFFICES ASSUME IInv, Next PROVE Incoming'
  OBVIOUS
<1> USE DEF chipVars, readVars, callVars, history
<1>t. /\ sent \in Seq(Byte) /\ rx \in Seq(Byte) /\ dst \in Seq(Byte)
      /\ Line \in Seq(Byte)
      /\ Incoming
  BY LineAssumption DEF IInv, Typed
<1>1. CASE Boot \/ (OpenSocket /\ sr = "closed")
  <2>1. sent' = << >> /\ rx' = << >> /\ dst' = << >>
    BY <1>1 DEF Boot, OpenSocket, Fresh
  <2> QED
    BY <2>1, <1>t DEF Incoming
<1>2. CASE ReadExact
  <2>1. /\ dst' = SubSeq(rx, 1, want) /\ rx' = SubSeq(rx, want + 1, Len(rx))
        /\ want \in 0..Len(rx) /\ dst = << >>
    BY <1>2, ReadExactReads
  <2>2. sent' = sent
    BY <1>2 DEF ReadExact
  <2>3. sent = rx
    BY <2>1, <1>t DEF Incoming
  <2>4. dst' \o rx' = rx
    BY <2>1, <1>t, Concatenates
  <2> QED
    BY <2>2, <2>3, <2>4, <1>t DEF Incoming
<1>3. CASE Receive
  <2>1. PICK j \in (Len(sent) + 1)..Len(Line) :
          /\ sent' = sent \o SubSeq(Line, Len(sent) + 1, j)
          /\ rx' = rx \o SubSeq(Line, Len(sent) + 1, j)
    BY <1>3 DEF Receive
  <2> DEFINE segment == SubSeq(Line, Len(sent) + 1, j)
  <2>2. dst' = dst
    BY <1>3 DEF Receive
  <2>3. segment \in Seq(Byte) /\ Len(segment) = j - Len(sent) /\ Len(sent) \in Nat
    BY <1>t
  <2>4. SubSeq(Line, 1, Len(sent)) \o segment = SubSeq(Line, 1, j)
    <3>1. Len(sent) \in 0..Len(Line) /\ j \in Len(sent)..Len(Line)
      BY <1>t, <2>3 DEF Incoming
    <3> QED
      BY <3>1, <1>t, Extends
  <2>5. sent' = SubSeq(Line, 1, j) /\ Len(sent') = j
    BY <1>t, <2>1, <2>4 DEF Incoming
  <2>6. dst \o (rx \o segment) = (dst \o rx) \o segment
    BY ONLY <1>t, <2>3, Regroups
  <2>7. sent' = dst' \o rx'
    BY <1>t, <2>1, <2>2, <2>6 DEF Incoming
  <2>8. Len(sent') <= Len(Line) /\ sent' = SubSeq(Line, 1, Len(sent'))
    BY <2>1, <2>5, <1>t
  <2> QED
    BY ONLY <2>7, <2>8 DEF Incoming
<1>4. CASE UNCHANGED <<sent, rx, dst>>
  BY <1>4, <1>t DEF Incoming
<1>5. CASE OpenSocket /\ sr # "closed"
  BY <1>5, <1>4 DEF OpenSocket
<1>6. CASE ReadHigh \/ ReadAgain \/ ListenCommand \/ AwaitClient
  BY <1>6, <1>4 DEF ReadHigh, ReadAgain, ListenCommand, AwaitClient
<1>7. CASE WriteFree \/ WritePointer \/ WriteData \/ WriteSend
  BY <1>7, <1>4 DEF WriteFree, WritePointer, WriteData, WriteSend
<1>8. CASE WaitData \/ ReadAvail \/ Disconnect \/ AwaitClosed \/ Watchdog
  BY <1>8, <1>4 DEF WaitData, ReadAvail, Disconnect, AwaitClosed, Watchdog
<1>9. CASE Handshake \/ Transmit \/ Acknowledge \/ ClientClose \/ Abort
  BY <1>9, <1>4 DEF Handshake, Transmit, Acknowledge, ClientClose, Abort
<1> QED
  BY <1>1, <1>2, <1>3, <1>5, <1>6, <1>7, <1>8, <1>9 DEF Next, Driver

(* A write() that is not misplaced is given TX_RD, which has reached TX_WR.*)
LEMMA PointerRead ==
  ASSUME IInv, pc = "pointer", Stable
  PROVE  last \in Value /\ (last = tx_wr => tx_rd = tx_wr)
<1>1. last \in held /\ last \in Value
  BY StableIsHeld DEF IInv, StableHeld, Polling, Typed, TypeOK
<1>2. Register(pc) = tx_rd /\ Turn = tx_wr /\ Polled
  BY DEF Register, Avail, Turn, Polled, Polling
<1>3. Before(tx_wr, last, tx_rd) /\ tx_rd \in Nat /\ tx_wr \in Nat /\ last \in Nat
  BY <1>1, <1>2 DEF IInv, Read, Typed, TypeOK, Value
<1> QED
  BY <1>1, <1>3 DEF Before

(* An answer fits after the banner.                                        *)
LEMMA AnswerFits ==
  ASSUME IInv, NEW a \in Answers, said = Banner, todo' = a, said' = said
  PROVE  /\ Room(Len(todo))' /\ \A i \in DOMAIN todo' : todo'[i] \in Printed
         /\ todo' \in Seq(Seq(Byte))
<1>1. PICK m \in 0..TxSize : /\ \A i \in DOMAIN a : Len(a[i]) <= m
                            /\ Len(Banner) + Len(a) * m < TxSize
  BY OutputAssumption
<1>2. m \in Nat
  BY WordType
<1>3. Room(Len(todo))'
  BY <1>1, <1>2 DEF Room
<1>4. \A i \in DOMAIN a : a[i] \in Printed
  BY DEF Printed
<1> QED
  BY <1>3, <1>4, OutputAssumption

(* Transmission moves TX_RD towards TX_WR.                                 *)
LEMMA Transmits ==
  ASSUME Typed, NEW n \in 0..Pending,
         tx_rd' = (tx_rd + n) % Word, tx_wr' = tx_wr
  PROVE  Pending' = Pending - n /\ tx_rd' \in Value
<1>0. Pending \in Value
  BY PendingType
<1>1. tx_rd \in Value /\ tx_wr \in Value /\ n \in Value
  BY <1>0, WordType DEF Typed, TypeOK, Value
<1>2. /\ tx_rd' = IF tx_rd + n < Word THEN tx_rd + n ELSE tx_rd + n - Word
      /\ tx_rd' \in Value
  BY <1>1, Wrap
<1>3. Pending' = IF tx_rd' <= tx_wr THEN tx_wr - tx_rd' ELSE tx_wr - tx_rd' + Word
  BY <1>1, <1>2, Wrap DEF Pending
<1>4. Pending = IF tx_rd <= tx_wr THEN tx_wr - tx_rd ELSE tx_wr - tx_rd + Word
  BY PendingType
<1> QED
  BY <1>1, <1>2, <1>3, <1>4, WordType DEF Value

(* SEND is told of the data that was written, and no more.                 *)
LEMMA Covers ==
  ASSUME IInv, ~misplaced, WriteSend
  PROVE  /\ Pending' = Len(Head(todo)) /\ Len(Head(todo)) \in Nat
         /\ Pending = 0
<1> DEFINE m == Head(todo)
<1>1. pc = "send" /\ tx_wr' = (tx_pointer + Len(m)) % Word /\ tx_rd' = tx_rd
  BY DEF WriteSend
<1>2. tx_pointer = tx_rd /\ tx_wr = tx_rd /\ todo # << >> /\ todo \in Seq(Seq(Byte))
  BY <1>1 DEF IInv, Phase, Typed
<1>3. Len(m) \in Nat /\ Len(m) < Word /\ tx_rd \in Value
  <2>1. Uncovered = Len(m) /\ Len(m) \in Nat
    BY <1>1, <1>2 DEF Uncovered
  <2>2. Uncovered \in Nat /\ Pending \in Nat /\ unacked \in Nat /\ Len(said) \in Nat
    BY <2>1, PendingType DEF Value, IInv, Typed, TypeOK
  <2>3. Pending + unacked + Uncovered <= Len(said) /\ Len(said) < TxSize
    BY DEF IInv, Phase
  <2>4. Uncovered < Word
    BY ONLY <2>2, <2>3, WordType
  <2> QED
    BY <2>1, <2>4 DEF IInv, Typed, TypeOK
<1>4. Len(m) \in Value
  BY <1>3, WordType DEF Value
<1>5. /\ tx_wr' = IF tx_rd + Len(m) < Word THEN tx_rd + Len(m)
                                          ELSE tx_rd + Len(m) - Word
      /\ tx_wr' \in Value
  BY <1>1, <1>2, <1>3, <1>4, Wrap
<1>6. Pending' = IF tx_rd <= tx_wr' THEN tx_wr' - tx_rd ELSE tx_wr' - tx_rd + Word
  BY <1>1, <1>3, <1>5, Wrap DEF Pending
<1>7. Pending = 0
  BY <1>2, <1>3, Wrap DEF Pending, Value
<1> QED
  BY <1>3, <1>5, <1>6, <1>7, WordType DEF Value

(* What is printed fits the TX buffer, each write where the last ended.    *)
LEMMA NextPhase == IInv /\ Next => Phase'
<1> SUFFICES ASSUME IInv, Next PROVE Phase'
  OBVIOUS
<1> USE DEF chipVars, readVars, callVars, history, Avail
<1>t. /\ Typed /\ Phase
      /\ todo \in Seq(Seq(Byte)) /\ said \in Seq(Byte) /\ Banner \in Seq(Byte)
      /\ unacked \in Nat /\ TxSize \in Nat \ {0}
      /\ Len(said) \in Nat /\ Len(todo) \in Nat
  BY OutputAssumption, WordType DEF IInv, Typed, TypeOK
<1>p. Pending \in Nat /\ Uncovered \in Nat
  BY <1>t, PendingType DEF Value, Uncovered, Phase
<1>n. /\ ~misplaced => Pending + unacked + Uncovered <= Len(said)
      /\ Len(said) < TxSize
  BY DEF IInv, Phase
<1>1. CASE /\ UNCHANGED <<pc, said, heard, dst, todo, tx_rd, tx_wr, tx_pointer,
                             unacked, want, received, misplaced>>
           /\ sending' => sending
  BY <1>1, <1>t DEF Phase, Room, Uncovered, Pending
<1>2. CASE /\ pc' \in {"discon", "closing", "open", "panic", "boot"}
           /\ UNCHANGED <<said, todo, tx_rd, tx_wr, unacked, misplaced>>
  <2>1. Pending' = Pending /\ Uncovered' = 0
    BY <1>2 DEF Pending, Uncovered
  <2> QED
    BY <1>2, <1>t, <1>p, <2>1 DEF Phase
<1>3. CASE ReadHigh \/ ReadAgain \/ Handshake \/ Receive \/ ClientClose \/ Abort
  BY <1>3, <1>1 DEF ReadHigh, ReadAgain, Handshake, Receive, ClientClose, Abort
<1>4. CASE Disconnect \/ AwaitClosed \/ Watchdog \/ (OpenSocket /\ sr # "closed")
  BY <1>4, <1>2 DEF Disconnect, AwaitClosed, Watchdog, OpenSocket, Goto
<1>5. CASE Boot \/ (OpenSocket /\ sr = "closed")
  <2>1. /\ said' = << >> /\ heard' = << >> /\ dst' = << >> /\ sending' = FALSE
        /\ unacked' = 0 /\ pc' \in {"open", "listen"} /\ todo' \in {todo, << >>}
    BY <1>5 DEF Boot, OpenSocket, Fresh, Goto
  <2>2. tx_rd' = tx_wr' /\ tx_rd' \in Value
    BY <1>5, PointerAssumption, WordType DEF Boot, OpenSocket, Value
  <2>3. Pending' = 0 /\ Uncovered' = 0
    <3>1. (tx_wr' - tx_rd') % Word = tx_wr' - tx_rd'
      BY <2>2, Wrap DEF Value
    <3> QED
      BY <2>1, <2>2, <3>1 DEF Pending, Uncovered, Value
  <2> QED
    BY <2>1, <2>3, <1>t DEF Phase
<1>6. CASE ListenCommand
  BY <1>6, <1>t DEF ListenCommand, Goto, Phase, Pending, Uncovered
<1>7. CASE AwaitClient
  <2>1. CASE sr \in {"established", "close_wait"}
    <3>1. /\ pc' = "free" /\ todo' = <<Banner>> /\ pc = "await"
          /\ UNCHANGED <<said, dst, tx_rd, tx_wr, unacked, misplaced>>
      BY <1>7, <2>1 DEF AwaitClient, Goto
    <3>2. said = << >> /\ dst = << >>
      BY <3>1, <1>t DEF Phase
    <3>3. Room(Len(todo))'
      <4>1. Len(Banner) \in Nat /\ Len(Banner) < TxSize
        BY OutputAssumption
      <4>2. Len(todo') = 1 /\ DOMAIN todo' = {1} /\ todo'[1] = Banner /\ Len(said') = 0
        BY <3>1, <3>2
      <4> QED
        BY <4>1, <4>2 DEF Room
    <3>4. \A i \in DOMAIN todo' : todo'[i] \in Printed
      BY <3>1 DEF Printed
    <3>5. Pending' = Pending /\ Uncovered' = 0
      BY <3>1 DEF Pending, Uncovered
    <3>6. /\ Len(said') < TxSize
          /\ ~misplaced' => Pending' + unacked' + Uncovered' <= Len(said')
      BY <1>p, <1>t, <1>n, <3>1, <3>5
    <3> QED
      BY <3>1, <3>2, <3>3, <3>4, <3>6 DEF Phase
  <2>2. CASE sr \notin {"established", "close_wait"}
    BY <1>7, <1>2, <2>2 DEF AwaitClient, Goto
  <2> QED
    BY <2>1, <2>2
<1>8. CASE WriteFree
  <2>1. /\ pc = "free" /\ pc' \in {"pointer", "panic"}
        /\ UNCHANGED <<said, dst, todo, tx_rd, tx_wr, unacked, misplaced>>
    BY <1>8 DEF WriteFree, Goto
  <2> QED
    BY <2>1, <1>t DEF Phase, Room, Pending, Uncovered
<1>9. CASE WritePointer
  <2>1. /\ pc = "pointer" /\ Stable /\ pc' = "data" /\ tx_pointer' = last
        /\ misplaced' = (misplaced \/ last # tx_wr)
        /\ UNCHANGED <<said, dst, todo, tx_rd, tx_wr, unacked>>
    BY <1>9 DEF WritePointer, Goto
  <2>2. ~misplaced' => ~misplaced /\ last = tx_wr /\ tx_rd = tx_wr
    BY <2>1, PointerRead
  <2> QED
    BY <2>1, <2>2, <1>t DEF Phase, Room, Pending, Uncovered
<1>10. CASE WriteData
  <2> DEFINE m == Head(todo)
  <2>1. /\ pc = "data" /\ pc' = "send" /\ said' = said \o m
        /\ UNCHANGED <<todo, dst, tx_rd, tx_wr, tx_pointer, unacked, misplaced>>
    BY <1>10 DEF WriteData, Goto
  <2>2. /\ todo # << >> /\ Room(Len(todo))
        /\ ~misplaced => tx_pointer = tx_rd /\ tx_wr = tx_rd
        /\ dst = << >> => said = << >> /\ todo = <<Banner>>
        /\ \A i \in DOMAIN todo : todo[i] \in Printed
    BY <2>1, <1>t DEF Phase
  <2>3. PICK k \in Nat : /\ \A i \in DOMAIN todo : Len(todo[i]) <= k
                         /\ Len(said) + Len(todo) * k < TxSize
    BY <2>2 DEF Room
  <2>4. m \in Seq(Byte) /\ Len(m) \in Nat /\ Len(m) <= k /\ Len(todo) \in Nat \ {0}
    BY <2>2, <2>3, <1>t
  <2>5. Len(said') = Len(said) + Len(m)
    BY <2>1, <2>4, <1>t
  <2>6. PICK r \in Nat : Len(todo) * k = r + k /\ (Len(todo) - 1) * k = r
    BY <2>3, <2>4
  <2>7. Len(said) + r + k < TxSize /\ Len(said') + r < TxSize
    <3>1. Len(said) + (r + k) < TxSize
      BY <2>3, <2>6
    <3> QED
      BY <2>4, <2>5, <3>1, <1>t
  <2>8. Room(Len(todo) - 1)'
    BY <2>1, <2>3, <2>6, <2>7 DEF Room
  <2>9. Pending' = Pending /\ Uncovered' = Len(m) /\ Uncovered = 0
    BY <2>1 DEF Pending, Uncovered
  <2>10. /\ Len(said') < TxSize
         /\ ~misplaced' => Pending' + unacked' + Uncovered' <= Len(said')
    <3>1. unacked' = unacked /\ r \in Nat /\ misplaced' = misplaced
      BY <2>1
    <3>2. Len(said') < TxSize
      BY ONLY <3>1, <2>4, <2>5, <2>7, <1>t
    <3>3. ~misplaced => Pending + unacked + Len(m) <= Len(said')
      BY ONLY <2>4, <2>5, <2>9, <1>t, <1>p, <1>n
    <3> QED
      BY ONLY <3>1, <3>2, <3>3, <2>9
  <2>11. dst = << >> => said' = Banner
    <3>1. << >> \o Banner = Banner
      BY <1>t
    <3>2. dst = << >> => said = << >> /\ m = Banner
      BY <2>2
    <3> QED
      BY <2>1, <3>1, <3>2
  <2> QED
    BY ONLY <2>1, <2>2, <2>8, <2>10, <2>11 DEF Phase
<1>11. CASE WriteSend
  <2> DEFINE m == Head(todo)
  <2>1. /\ pc = "send" /\ todo' = Tail(todo)
        /\ tx_wr' = (tx_pointer + Len(m)) % Word
        /\ UNCHANGED <<said, dst, tx_rd, unacked, misplaced>>
        /\ pc' = IF Tail(todo) # << >> THEN "free"
                 ELSE IF dst = << >> THEN "wait" ELSE "discon"
    BY <1>11 DEF WriteSend, Goto
  <2>2. /\ todo # << >> /\ Room(Len(todo) - 1)
        /\ dst = << >> => said = Banner /\ todo = <<Banner>>
        /\ \A i \in DOMAIN todo : todo[i] \in Printed
    BY <2>1, <1>t DEF Phase
  <2>3. PICK k \in Nat : /\ \A i \in DOMAIN todo : Len(todo[i]) <= k
                         /\ Len(said) + (Len(todo) - 1) * k < TxSize
    BY <2>2 DEF Room
  <2>4. /\ Tail(todo) \in Seq(Seq(Byte)) /\ Len(Tail(todo)) = Len(todo) - 1
        /\ DOMAIN Tail(todo) = 1..(Len(todo) - 1) /\ DOMAIN todo = 1..Len(todo)
        /\ \A i \in 1..(Len(todo) - 1) : Tail(todo)[i] = todo[i + 1]
    BY <2>2, <1>t
  <2>5. \A i \in DOMAIN todo' : Len(todo'[i]) <= k /\ todo'[i] \in Printed
    <3> SUFFICES ASSUME NEW i \in 1..(Len(todo) - 1)
                 PROVE  Len(Tail(todo)[i]) <= k /\ Tail(todo)[i] \in Printed
      BY <2>1, <2>4
    <3>1. i + 1 \in DOMAIN todo /\ Tail(todo)[i] = todo[i + 1]
      BY <2>4, <1>t
    <3> QED
      BY <2>2, <2>3, <3>1
  <2>6. Room(Len(todo))'
    BY <2>1, <2>3, <2>4, <2>5 DEF Room
  <2>7. dst = << >> => Tail(todo) = << >>
    <3>1. todo' \in Seq(Seq(Byte)) /\ Len(todo') = Len(todo) - 1
      BY <2>1, <2>4
    <3>2. dst = << >> => Len(todo) = 1
      BY <2>2
    <3>3. dst = << >> => todo' = << >>
      BY ONLY <3>1, <3>2, <1>t
    <3> QED
      BY <2>1, <3>3
  <2>8. Uncovered = Len(m) /\ Uncovered' = 0
    BY <2>1 DEF Uncovered
  <2>10. ~misplaced => Pending' = Len(m)
    BY <1>11, Covers
  <2>11. /\ Len(said') < TxSize
         /\ ~misplaced' => Pending' + unacked' + Uncovered' <= Len(said')
    <3>1. unacked' = unacked /\ said' = said /\ misplaced' = misplaced
      BY <2>1
    <3>2. ~misplaced => Uncovered + unacked <= Len(said)
      BY ONLY <1>t, <1>p, <1>n
    <3> QED
      BY ONLY <3>1, <3>2, <2>8, <2>10, <1>t, <1>p, <1>n
  <2>12. pc' \in {"free", "wait", "discon"}
    BY <2>1
  <2>13. pc' = "free" => todo' # << >> /\ dst' # << >>
    BY <2>1, <2>7
  <2>14. pc' = "wait" => dst' = << >> /\ said' = Banner
    BY <2>1, <2>2
  <2>15. \A i \in DOMAIN todo' : todo'[i] \in Printed
    BY <2>5
  <2> QED
    BY ONLY <2>6, <2>11, <2>12, <2>13, <2>14, <2>15 DEF Phase, Avail
<1>12. CASE WaitData
  <2>1. pc = "wait" /\ pc' \in {"wait", "size"}
    BY <1>12 DEF WaitData, Goto
  <2> QED
    BY <1>12, <2>1, <1>t DEF WaitData, Phase, Pending, Uncovered
<1>13. CASE ReadAvail
  <2>1. pc = "size" /\ Stable /\ pc' = "exact" /\ received' = 0
        /\ want' = Minimum(ReadMax, last)
    BY <1>13 DEF ReadAvail, Goto
  <2>2. last \in held /\ last \in Value
    BY <2>1, StableIsHeld DEF IInv, StableHeld, Polling, Typed, TypeOK
  <2>3. 1 <= last
    BY <2>1, <2>2 DEF IInv, Read
  <2>4. 1 <= want'
    BY <2>1, <2>2, <2>3, LineAssumption DEF Minimum, Value
  <2> QED
    BY <1>13, <2>1, <2>4, <1>t DEF ReadAvail, Phase, Pending, Uncovered
<1>14. CASE ReadExact
  <2>1. /\ dst' = SubSeq(rx, 1, want) /\ want \in 1..Len(rx) /\ Execute
    BY <1>14, ReadExactReads
  <2>2. pc = "exact" /\ UNCHANGED <<tx_rd, tx_wr, unacked, said, misplaced>>
    BY <1>14 DEF ReadExact
  <2>3. PICK a \in Answers :
          todo' = a /\ pc' = IF a = << >> THEN "discon" ELSE "free"
    BY <2>1 DEF Execute, Goto
  <2>4. dst' # << >>
    <3>1. rx \in Seq(Byte) /\ want \in 0..Len(rx) /\ want >= 1
      BY <2>1, <1>t DEF Typed
    <3>2. Len(dst') = want
      BY <2>1, <3>1, Concatenates
    <3> QED
      BY <3>1, <3>2
  <2>5. said = Banner
    BY <2>2 DEF IInv, Phase
  <2>6. Room(Len(todo))' /\ \A i \in DOMAIN todo' : todo'[i] \in Printed
    BY <2>2, <2>3, <2>5, AnswerFits
  <2>7. Pending' = Pending /\ Uncovered' = 0
    BY <2>2, <2>3 DEF Pending, Uncovered
  <2>8. /\ Len(said') < TxSize
        /\ ~misplaced' => Pending' + unacked' + Uncovered' <= Len(said')
    BY <2>2, <2>7, <1>t, <1>p, <1>n
  <2>9. pc' \in {"free", "discon"} /\ (pc' = "free" => todo' # << >>)
    BY <2>3
  <2> QED
    BY ONLY <2>4, <2>6, <2>8, <2>9 DEF Phase, Avail
<1>15. CASE Transmit
  <2>1. PICK n \in 0..Pending :
          tx_rd' = (tx_rd + n) % Word /\ unacked' = unacked + n
    BY <1>15 DEF Transmit
  <2>2. UNCHANGED <<pc, said, dst, todo, tx_wr, tx_pointer, want, received,
                    misplaced>>
    BY <1>15 DEF Transmit
  <2>3. Pending' = Pending - n
    BY <2>1, <2>2, <1>t, Transmits
  <2>4. pc \notin {"listen", "await"}
    BY <1>15, <1>t DEF Phase, Transmit
  <2>5. Uncovered' = Uncovered
    BY <2>2 DEF Uncovered
  <2>6. ~misplaced' => Pending' + unacked' + Uncovered' <= Len(said')
    BY <2>1, <2>2, <2>3, <2>5, <1>t, <1>p, <1>n
  <2>7. (pc \in {"data", "send"} /\ ~misplaced)' => tx_rd' = tx_rd
    <3>1. pc \in {"data", "send"} /\ ~misplaced => Pending = 0 /\ tx_rd \in Value
      BY <1>t, PendingType DEF Phase, Typed, TypeOK, Value
    <3>2. Pending = 0 /\ tx_rd \in Value => tx_rd' = tx_rd
      BY <2>1, Wrap DEF Value
    <3> QED
      BY <2>2, <3>1, <3>2
  <2> QED
    BY <2>2, <2>4, <2>6, <2>7, <1>t DEF Phase, Room
<1>16. CASE Acknowledge
  <2>1. Uncovered' = Uncovered /\ Pending' = Pending /\ unacked' = 0
        /\ misplaced' = misplaced
    BY <1>16 DEF Acknowledge, Uncovered, Pending
  <2>2. ~misplaced' => Pending' + unacked' + Uncovered' <= Len(said')
    BY <1>16, <2>1, <1>t, <1>p, <1>n DEF Acknowledge
  <2> QED
    BY <1>16, <2>1, <2>2, <1>t DEF Acknowledge, Phase, Room
<1> QED
  BY <1>3, <1>4, <1>5, <1>6, <1>7, <1>8, <1>9, <1>10, <1>11, <1>12, <1>13,
     <1>14, <1>15, <1>16 DEF Next, Driver

(* A transmission gives the client the next bytes of what was printed.     *)
LEMMA Hears ==
  ASSUME IInv, ~misplaced, Transmit
  PROVE  \E n \in 0..Pending :
           /\ n > 0 \/ Pending = 0
           /\ heard' = SubSeq(said, 1, Len(heard) + n)
           /\ heard' \in Seq(Byte) /\ Len(heard') = Len(heard) + n
           /\ Len(heard') <= Len(said)
           /\ \A i \in 1..Len(heard') : heard'[i] = said[i]
           /\ tx_rd' = (tx_rd + n) % Word
           /\ unacked' = unacked + n
           /\ sending' = (n < Pending)
<1>1. PICK n \in 0..Pending :
        /\ n > 0 \/ Pending = 0
        /\ heard' = heard \o [i \in 1..n |-> tx[(tx_rd + i - 1) % TxSize]]
        /\ tx_rd' = (tx_rd + n) % Word
        /\ unacked' = unacked + n
        /\ sending' = (n < Pending)
  BY DEF Transmit
<1>2. heard \in Seq(Byte) /\ said \in Seq(Byte)
  BY DEF IInv, Typed
<1>3. Pending \in Nat /\ n \in Nat
  BY PendingType DEF IInv, Value
<1>4. /\ Len(heard) + Pending <= Len(said)
      /\ \A i \in 1..Pending : tx[(tx_rd + i - 1) % TxSize] = said[Len(heard) + i]
      /\ \A i \in 1..Len(heard) : heard[i] = said[i]
  <2>1. Uncovered \in Nat
    BY DEF Uncovered, IInv, Phase, Typed
  <2>2. Len(heard) + Pending + Uncovered <= Len(said)
    BY DEF IInv, Outgoing
  <2>3. Len(heard) + Pending <= Len(said)
    BY <1>2, <1>3, <2>1, <2>2
  <2> QED
    BY <2>3 DEF IInv, Outgoing
<1> DEFINE out == [i \in 1..n |-> tx[(tx_rd + i - 1) % TxSize]]
<1>5. \A i \in 1..n : out[i] = said[Len(heard) + i] /\ said[Len(heard) + i] \in Byte
  <2> SUFFICES ASSUME NEW i \in 1..n
               PROVE  /\ tx[(tx_rd + i - 1) % TxSize] = said[Len(heard) + i]
                      /\ said[Len(heard) + i] \in Byte
    OBVIOUS
  <2>1. i \in 1..Pending
    BY ONLY <1>3, n \in 0..Pending, i \in 1..n
  <2>2. Len(heard) \in Nat /\ Len(said) \in Nat
    BY <1>2
  <2>3. Len(heard) + i \in 1..Len(said)
    BY ONLY <1>3, <1>4, <2>1, <2>2
  <2> QED
    BY <1>2, <1>4, <2>1, <2>3
<1>6. out \in [1..n -> Byte]
  BY <1>5
<1>7. out \in Seq(Byte) /\ Len(out) = n
  BY <1>3, <1>6
<1> HIDE DEF out
<1>8. heard' \in Seq(Byte) /\ Len(heard') = Len(heard) + n
  BY <1>1, <1>2, <1>7 DEF out
<1>9. \A i \in 1..Len(heard') : heard'[i] = said[i]
  <2> SUFFICES ASSUME NEW i \in 1..Len(heard') PROVE heard'[i] = said[i]
    OBVIOUS
  <2>0. heard' = heard \o out
    BY <1>1 DEF out
  <2>1. CASE i <= Len(heard)
    BY <1>2, <1>4, <1>7, <2>0, <2>1
  <2>2. CASE i > Len(heard)
    <3>1. i - Len(heard) \in 1..n
      BY <1>2, <1>3, <1>8, <2>2
    <3>2. heard'[i] = out[i - Len(heard)]
      BY <1>2, <1>3, <1>7, <1>8, <2>0, <2>2
    <3> QED
      BY <1>2, <1>5, <3>1, <3>2
  <2> QED
    BY <1>2, <1>8, <2>1, <2>2
<1>10. Len(heard) + n \in 0..Len(said)
  <2>1. Len(heard) \in Nat /\ Len(said) \in Nat /\ n <= Pending
    BY <1>2, <1>3
  <2> QED
    BY ONLY <2>1, <1>3, <1>4
<1>11. heard' = SubSeq(said, 1, Len(heard) + n)
  <2> DEFINE t == SubSeq(said, 1, Len(heard) + n)
  <2>1. t \in Seq(Byte) /\ Len(t) = Len(heard) + n
    BY <1>2, <1>10
  <2>2. \A i \in 1..(Len(heard) + n) : t[i] = said[i]
    BY <1>2, <1>10
  <2> HIDE DEF t
  <2>3. heard' = t
    BY <1>8, <1>9, <2>1, <2>2, SeqEqual
  <2> QED
    BY <2>3 DEF t
<1>12. Len(heard') <= Len(said)
  BY <1>8, <1>10
<1> WITNESS n \in 0..Pending
<1> QED
  BY <1>1, <1>8, <1>9, <1>11, <1>12

(* A connection begins with nothing to transmit.                           *)
LEMMA BeginsOutgoing ==
  ASSUME Boot \/ (OpenSocket /\ sr = "closed")
  PROVE  Outgoing'
<1>1. /\ said' = << >> /\ heard' = << >> /\ pc' \in {"open", "listen"}
  BY DEF Boot, OpenSocket, Fresh, Goto
<1>2. tx_rd' = tx_wr' /\ tx_rd' \in Value
  BY PointerAssumption, WordType DEF Boot, OpenSocket, Value
<1>3. Pending' = 0 /\ Uncovered' = 0
  <2>1. (tx_wr' - tx_rd') % Word = tx_wr' - tx_rd'
    BY <1>2, Wrap DEF Value
  <2> QED
    BY <1>1, <1>2, <2>1 DEF Pending, Uncovered, Value
<1> QED
  BY <1>1, <1>3 DEF Outgoing

(* The client hears what was printed, from its beginning and without gaps. *)
LEMMA KeepsOutgoing ==
  ASSUME IInv, Next, ~misplaced, ~Boot, ~(OpenSocket /\ sr = "closed")
  PROVE  Outgoing'
<1> SUFFICES ASSUME ~misplaced' PROVE Outgoing'
  BY DEF Outgoing
<1> USE DEF chipVars, readVars, callVars, history
<1>t. /\ Typed /\ Phase /\ Stage /\ Outgoing
      /\ said \in Seq(Byte) /\ heard \in Seq(Byte) /\ todo \in Seq(Seq(Byte))
      /\ Pending \in Nat /\ tx_rd \in Value /\ Uncovered \in Nat
      /\ Len(said) \in Nat /\ Len(heard) \in Nat /\ TxSize \in Nat \ {0}
  <2>1. Typed /\ Phase /\ Stage /\ Outgoing
    BY DEF IInv
  <2>2. /\ said \in Seq(Byte) /\ heard \in Seq(Byte) /\ todo \in Seq(Seq(Byte))
        /\ tx_rd \in Value
    BY <2>1 DEF Typed, TypeOK
  <2>3. Pending \in Nat /\ TxSize \in Nat \ {0}
    BY <2>1, PendingType, WordType DEF Value
  <2>4. pc = "send" => todo # << >>
    BY <2>1 DEF Phase
  <2>5. Uncovered \in Nat
    BY <2>2, <2>4 DEF Uncovered
  <2> QED
    BY <2>1, <2>2, <2>3, <2>5
<1>1. ASSUME UNCHANGED <<heard, said, tx, tx_rd, tx_wr>>, ~misplaced,
             pc' = "send" => pc = "send" /\ UNCHANGED <<todo, tx_pointer>>,
             pc' # "boot" => pc # "boot" /\ (pc = "send" => pc' = "send")
      PROVE  Outgoing'
  <2>1. Pending' = Pending
    BY <1>1 DEF Pending
  <2>2. pc' = "send" => pc = "send" /\ Uncovered' = Uncovered /\ tx_pointer' = tx_pointer
    BY <1>1 DEF Uncovered
  <2>3. pc' # "send" => Uncovered' = 0
    BY DEF Uncovered
  <2>4. pc # "send" => Uncovered = 0
    BY DEF Uncovered
  <2>5. /\ Len(heard) + Pending + Uncovered <= Len(said)
        /\ pc # "boot" => Len(heard) + Pending + Uncovered = Len(said)
        /\ \A i \in 1..Len(heard) : heard[i] = said[i]
        /\ \A i \in 1..Pending :
             tx[(tx_rd + i - 1) % TxSize] = said[Len(heard) + i]
        /\ pc = "send" =>
             \A i \in 1..Uncovered :
               tx[(tx_pointer + i - 1) % TxSize] = said[Len(said) - Uncovered + i]
    BY <1>1, <1>t DEF Outgoing
  <2>6. Len(heard) + Pending' + Uncovered' <= Len(said)
    BY <1>t, <2>1, <2>2, <2>3, <2>5
  <2>7. pc' # "boot" => Len(heard) + Pending' + Uncovered' = Len(said)
    BY <1>1, <1>t, <2>1, <2>2, <2>3, <2>4, <2>5
  <2> QED
    BY <1>1, <2>1, <2>2, <2>5, <2>6, <2>7 DEF Outgoing
<1>3. CASE OpenSocket /\ sr # "closed"
  BY <1>3, <1>t DEF OpenSocket, Stage
<1>4. CASE ListenCommand \/ AwaitClient \/ WriteFree \/ WritePointer
  <2>1. /\ pc \notin {"send", "boot"} /\ pc' \notin {"send", "boot"}
        /\ UNCHANGED <<heard, said, tx, tx_rd, tx_wr>> /\ ~misplaced
    BY <1>4 DEF ListenCommand, AwaitClient, WriteFree, WritePointer, Goto
  <2> QED
    BY <1>1, <2>1
<1>5. CASE WaitData \/ ReadAvail \/ ReadExact \/ Disconnect \/ AwaitClosed
  <2>1. /\ pc \notin {"send", "boot"} /\ pc' \notin {"send", "boot"}
        /\ UNCHANGED <<heard, said, tx, tx_rd, tx_wr>> /\ ~misplaced
    BY <1>5 DEF WaitData, ReadAvail, ReadExact, Execute, Disconnect, AwaitClosed, Goto
  <2> QED
    BY <1>1, <2>1
<1>6. CASE ReadHigh \/ ReadAgain \/ Acknowledge \/ Receive
  <2>1. UNCHANGED <<heard, said, tx, tx_rd, tx_wr, pc, todo, tx_pointer, misplaced>>
    BY <1>6 DEF ReadHigh, ReadAgain, Acknowledge, Receive
  <2> QED
    BY <1>1, <2>1
<1>7. CASE Handshake \/ ClientClose \/ Abort
  <2>1. UNCHANGED <<heard, said, tx, tx_rd, tx_wr, pc, todo, tx_pointer, misplaced>>
    BY <1>7 DEF Handshake, ClientClose, Abort
  <2> QED
    BY <1>1, <2>1
<1>8. CASE Watchdog
  BY <1>1, <1>8 DEF Watchdog, Goto
<1>13. CASE WriteData
  <2> DEFINE m == Head(todo)
  <2>1. /\ pc = "data" /\ pc' = "send" /\ said' = said \o m
        /\ tx' = [a \in 0..(TxSize - 1) |->
                     LET i == 1 + ((a - tx_pointer) % TxSize)
                     IN  IF i <= Len(m) THEN m[i] ELSE tx[a]]
        /\ UNCHANGED <<heard, todo, tx_rd, tx_wr, tx_pointer, misplaced>>
    BY <1>13 DEF WriteData, Goto
  <2>2. tx_pointer = tx_rd /\ tx_wr = tx_rd /\ todo # << >> /\ ~misplaced
    BY <2>1, <1>t DEF Phase
  <2>3. m \in Seq(Byte) /\ Len(m) \in Nat
    BY <2>2, <1>t
  <2>4. /\ Uncovered' = Len(m) /\ Uncovered = 0
        /\ Pending' = Pending /\ Pending = 0
    <3>1. Pending = 0
      BY <2>2, <1>t, PendingType DEF Typed, TypeOK, Value
    <3> QED
      BY <2>1, <3>1 DEF Uncovered, Pending
  <2>5. Len(said') = Len(said) + Len(m)
    BY <2>1, <2>3, <1>t
  <2>6. Phase'
    BY NextPhase
  <2>7. Len(m) < TxSize
    <3>1. Len(said') < TxSize
      BY <2>6 DEF Phase
    <3> QED
      BY ONLY <3>1, <2>3, <2>5, <1>t
  <2>8. \A i \in 1..Len(heard') : heard'[i] = said'[i]
    <3>1. Len(heard) <= Len(said) /\ \A i \in 1..Len(heard) : heard[i] = said[i]
      BY <1>t, <2>2, <2>4 DEF Outgoing
    <3>2. \A i \in 1..Len(said) : said'[i] = said[i]
      BY <2>1, <2>3, <1>t
    <3>3. \A i \in 1..Len(heard) : said'[i] = heard[i]
      BY ONLY <3>1, <3>2, <1>t
    <3> QED
      BY <2>1, <3>3
  <2>9. Len(heard') + Pending' + Uncovered' = Len(said')
    <3>1. Len(heard) + Pending + Uncovered = Len(said)
      BY <1>t, <2>1, <2>2 DEF Outgoing
    <3>2. heard' = heard
      BY <2>1
    <3> QED
      BY ONLY <2>3, <2>4, <2>5, <3>1, <3>2, <1>t
  <2>10. \A i \in 1..Uncovered' :
           tx'[(tx_pointer' + i - 1) % TxSize] = said'[Len(said') - Uncovered' + i]
    <3>0. Len(said') - Uncovered' = Len(said) /\ tx_pointer' = tx_pointer
      BY <2>1, <2>3, <2>4, <2>5, <1>t
    <3> SUFFICES ASSUME NEW i \in 1..Len(m)
                 PROVE  tx'[(tx_pointer + i - 1) % TxSize] = said'[Len(said) + i]
      BY <2>4, <3>0
    <3>1. i - 1 \in 0..(TxSize - 1) /\ tx_pointer \in Nat /\ i \in Nat
      BY <2>2, <2>3, <2>7, <1>t, WordType DEF Value
    <3> DEFINE a == (tx_pointer + i - 1) % TxSize
    <3>2. tx_pointer + i - 1 = tx_pointer + (i - 1) /\ tx_pointer + i - 1 \in Nat
      BY <3>1
    <3>3. a \in 0..(TxSize - 1)
      BY <3>2, Address
    <3>4. (a - tx_pointer) % TxSize = i - 1
      BY <3>1, <3>2, Distance
    <3> HIDE DEF a
    <3>5. 1 + ((a - tx_pointer) % TxSize) = i
      BY <3>1, <3>4
    <3>6. tx'[a] = m[i]
      BY <2>1, <2>3, <3>3, <3>5
    <3>7. said'[Len(said) + i] = m[i]
      BY <2>1, <2>3, <1>t
    <3> QED
      BY <3>6, <3>7 DEF a
  <2> QED
    <3>1. Pending' = 0 /\ pc' # "boot" /\ Uncovered' \in Nat
      BY <2>1, <2>3, <2>4
    <3>2. /\ Len(heard') + Pending' + Uncovered' <= Len(said')
          /\ \A i \in 1..Pending' :
               tx'[(tx_rd' + i - 1) % TxSize] = said'[Len(heard') + i]
      <4>1. Len(said') \in Nat
        BY <2>3, <2>5, <1>t
      <4> QED
        BY ONLY <3>1, <2>9, <4>1
    <3> QED
      BY ONLY <2>8, <2>9, <2>10, <3>2 DEF Outgoing
<1>14. CASE WriteSend
  <2> DEFINE m == Head(todo)
  <2>1. /\ pc = "send" /\ pc' \notin {"send", "boot"}
        /\ UNCHANGED <<heard, said, tx, tx_rd, misplaced>>
    BY <1>14 DEF WriteSend, Goto
  <2>2. Pending' = Len(m) /\ Len(m) \in Nat /\ Pending = 0
    BY <1>14, <2>1, Covers
  <2>3. Uncovered = Len(m) /\ Uncovered' = 0 /\ tx_pointer = tx_rd
    BY <2>1, <1>t DEF Uncovered, Phase
  <2>4. Len(said) = Len(heard) + Len(m)
    BY <2>1, <2>2, <2>3, <1>t DEF Outgoing
  <2>5. \A i \in 1..Len(m) :
          tx[(tx_rd + i - 1) % TxSize] = said[Len(said) - Len(m) + i]
    BY <2>1, <2>3, <1>t DEF Outgoing
  <2>6. Len(said) - Len(m) = Len(heard)
    BY ONLY <2>2, <2>4, <1>t
  <2>7. /\ Len(said') = Len(heard') + Pending' + Uncovered'
        /\ \A i \in 1..Pending' :
             tx'[(tx_rd' + i - 1) % TxSize] = said'[Len(heard') + i]
    BY <2>1, <2>2, <2>3, <2>4, <2>5, <2>6, <1>t
  <2>8. \A i \in 1..Len(heard) : heard[i] = said[i]
    BY <1>t, <2>1 DEF Outgoing
  <2> QED
    BY <2>1, <2>2, <2>3, <2>7, <2>8, <1>t DEF Outgoing
<1>15. CASE Transmit
  <2>0. ~misplaced
    BY <1>15 DEF Transmit
  <2>1. PICK n \in 0..Pending :
           /\ heard' = SubSeq(said, 1, Len(heard) + n)
           /\ heard' \in Seq(Byte) /\ Len(heard') = Len(heard) + n
           /\ Len(heard') <= Len(said)
           /\ \A i \in 1..Len(heard') : heard'[i] = said[i]
           /\ tx_rd' = (tx_rd + n) % Word
    BY <1>15, <2>0, Hears
  <2>2. UNCHANGED <<pc, said, tx, tx_wr, todo, tx_pointer>>
    BY <1>15 DEF Transmit
  <2>3. Pending' = Pending - n /\ n \in Nat
    <3>1. Typed /\ Pending \in Nat /\ tx_wr' = tx_wr
      BY <1>t, <2>2
    <3>2. Pending' = Pending - n
      BY <2>1, <3>1, Transmits
    <3> QED
      BY <3>1, <3>2
  <2>4. /\ Len(heard) + Pending + Uncovered <= Len(said)
        /\ pc # "boot" => Len(heard) + Pending + Uncovered = Len(said)
        /\ \A i \in 1..Pending : tx[(tx_rd + i - 1) % TxSize] = said[Len(heard) + i]
    BY <2>0, <1>t DEF Outgoing
  <2>5. Uncovered' = Uncovered
    BY <2>2 DEF Uncovered
  <2>6. /\ Len(heard') + Pending' + Uncovered' <= Len(said)
        /\ pc # "boot" => Len(heard') + Pending' + Uncovered' = Len(said)
    BY <2>1, <2>3, <2>4, <2>5, <1>t
  <2>7. \A i \in 1..Pending' :
          tx[(tx_rd' + i - 1) % TxSize] = said[Len(heard') + i]
    <3> SUFFICES ASSUME NEW i \in 1..Pending'
                 PROVE  tx[(tx_rd' + i - 1) % TxSize] = said[Len(heard') + i]
      OBVIOUS
    <3>1. n + i \in 1..Pending /\ i \in Nat /\ n \in Nat /\ i >= 1
      BY <2>3, <1>t
    <3>2. tx[(tx_rd + (n + i) - 1) % TxSize] = said[Len(heard) + (n + i)]
      BY <2>4, <3>1
    <3>3. (tx_rd' + i - 1) % TxSize = (tx_rd + (n + i) - 1) % TxSize
      <4>0. Pending \in Value
        BY PendingType, <1>t
      <4>1. n \in Value /\ tx_rd \in Nat /\ Word \in Nat
        BY <4>0, <3>1, <1>t, WordType DEF Value
      <4>2. tx_rd' = IF tx_rd + n < Word THEN tx_rd + n ELSE tx_rd + n - Word
        BY <4>1, <2>1, <1>t, Wrap
      <4>3. CASE tx_rd + n < Word
        <5>1. tx_rd' + i - 1 = tx_rd + (n + i) - 1
          BY <4>1, <4>2, <4>3, <3>1
        <5> QED
          BY <5>1
      <4>4. CASE ~(tx_rd + n < Word)
        <5> DEFINE x == tx_rd + (n + i) - 1
        <5>1. x \in Nat /\ Word <= x /\ tx_rd' + i - 1 = x - Word
          BY <4>1, <4>2, <4>4, <3>1
        <5> HIDE DEF x
        <5>2. (x - Word) % TxSize = x % TxSize
          BY <5>1, AddressWraps
        <5> QED
          BY <5>1, <5>2 DEF x
      <4> QED
        BY <4>3, <4>4
    <3>4. Len(heard') + i = Len(heard) + (n + i)
      <4>1. Len(heard') = Len(heard) + n
        BY <2>1
      <4> QED
        BY ONLY <4>1, <3>1, <1>t
    <3> QED
      BY <3>2, <3>3, <3>4
  <2>8. pc = "send" =>
          \A i \in 1..Uncovered :
            tx[(tx_pointer + i - 1) % TxSize] = said[Len(said) - Uncovered + i]
    BY <2>0, <1>t DEF Outgoing
  <2> QED
    BY ONLY <2>1, <2>2, <2>5, <2>6, <2>7, <2>8 DEF Outgoing
<1> QED
  BY <1>3, <1>4, <1>5, <1>6, <1>7, <1>8, <1>13, <1>14, <1>15
     DEF Next, Driver

LEMMA NextOutgoing == IInv /\ Next => Outgoing'
<1> SUFFICES ASSUME IInv, Next PROVE Outgoing'
  OBVIOUS
<1>1. CASE Boot \/ (OpenSocket /\ sr = "closed")
  BY <1>1, BeginsOutgoing
<1>2. CASE ~Boot /\ ~(OpenSocket /\ sr = "closed") /\ ~misplaced
  BY <1>2, KeepsOutgoing
<1>3. CASE ~Boot /\ ~(OpenSocket /\ sr = "closed") /\ misplaced
  <2>1. misplaced'
    BY <1>3 DEF Next, Driver, ReadHigh, ReadAgain, OpenSocket, ListenCommand,
      AwaitClient, WriteFree, WritePointer, WriteData, WriteSend, WaitData,
      ReadAvail, ReadExact, Disconnect, AwaitClosed, Watchdog, Handshake,
      Transmit, Acknowledge, Receive, ClientClose, Abort, Boot, history
  <2> QED
    BY <2>1 DEF Outgoing
<1> QED
  BY <1>1, <1>2, <1>3

(* The types, except of what is read from the polled register.             *)
ControlTyped ==
  /\ sr \in Status /\ sending \in BOOLEAN
  /\ early \in BOOLEAN /\ misplaced \in BOOLEAN
  /\ pc \in Handling \cup {"boot", "open", "listen", "await", "discon",
                           "closing", "panic"}

CallTyped ==
  /\ tx_pointer \in Value
  /\ want \in 0..ReadMax /\ received \in 0..want

SequencesTyped ==
  /\ said \in Seq(Byte) /\ sent \in Seq(Byte)
  /\ ~misplaced => heard \in Seq(Byte)
  /\ rx \in Seq(Byte) /\ dst \in Seq(Byte) /\ todo \in Seq(Seq(Byte))

PointersTyped == tx_rd \in Value /\ tx_wr \in Value /\ unacked \in 0..TxSize

(* The program counter, the status and the flags keep their types.         *)
LEMMA NextControl == IInv /\ Next => ControlTyped'
<1> SUFFICES ASSUME IInv, Next PROVE ControlTyped'
  OBVIOUS
<1> USE DEF IInv, Typed, TypeOK, ControlTyped, Goto, Status, Handling, Polling,
            Avail, chipVars, readVars, callVars, history
<1>1. CASE ReadHigh \/ ReadAgain \/ ListenCommand \/ AwaitClient
  BY <1>1 DEF ReadHigh, ReadAgain, ListenCommand, AwaitClient
<1>9. CASE Boot
  BY <1>9 DEF Boot, Fresh
<1>10. CASE OpenSocket
  BY <1>10 DEF OpenSocket, Fresh
<1>2. CASE WriteFree \/ WriteData
  BY <1>2 DEF WriteFree, WriteData
<1>8. CASE WritePointer
  <2>1. misplaced' = (misplaced \/ last # tx_wr)
    BY <1>8 DEF WritePointer
  <2>2. misplaced' \in BOOLEAN
    BY ONLY <2>1
  <2> QED
    BY <1>8, <2>2 DEF WritePointer
<1>6. CASE WriteSend
  <2>1. sending' = (sr \in {"established", "close_wait"})
    BY <1>6 DEF WriteSend
  <2>2. sending' \in BOOLEAN
    BY ONLY <2>1
  <2> QED
    BY <1>6, <2>2 DEF WriteSend
<1>3. CASE WaitData \/ ReadAvail \/ ReadExact \/ Disconnect \/ AwaitClosed \/ Watchdog
  BY <1>3 DEF WaitData, ReadAvail, ReadExact, Execute, Disconnect, AwaitClosed, Watchdog
<1>4. CASE Handshake \/ Acknowledge
  BY <1>4 DEF Handshake, Acknowledge
<1>11. CASE Receive \/ ClientClose
  BY <1>11 DEF Receive, ClientClose
<1>7. CASE Abort
  <2>1. early' = (early \/ pc \notin {"discon", "closing"})
    BY <1>7 DEF Abort
  <2>2. early' \in BOOLEAN
    BY ONLY <2>1
  <2> QED
    BY <1>7, <2>2 DEF Abort
<1>5. CASE Transmit
  <2>1. PICK n \in 0..Pending : sending' = (n < Pending)
    BY <1>5 DEF Transmit
  <2> QED
    BY <1>5, <2>1 DEF Transmit
<1> QED
  BY <1>1, <1>2, <1>3, <1>4, <1>5, <1>6, <1>7, <1>8, <1>9, <1>10, <1>11
     DEF Next, Driver

(* What the caller holds keeps its types.                                  *)
LEMMA NextCall == IInv /\ Next => CallTyped'
<1> SUFFICES ASSUME IInv, Next PROVE CallTyped'
  OBVIOUS
<1> USE DEF CallTyped, chipVars, readVars, callVars, history
<1>t. CallTyped /\ ReadMax \in Nat \ {0}
  BY LineAssumption DEF IInv, Typed, TypeOK
<1>1. CASE UNCHANGED <<tx_pointer, want, received>>
  BY <1>1, <1>t
<1>2. CASE ReadHigh \/ ReadAgain \/ OpenSocket \/ ListenCommand \/ AwaitClient
  BY <1>2, <1>1 DEF ReadHigh, ReadAgain, OpenSocket, ListenCommand, AwaitClient
<1>3. CASE WriteFree \/ WriteData \/ WriteSend \/ WaitData
  BY <1>3, <1>1 DEF WriteFree, WriteData, WriteSend, WaitData
<1>4. CASE Disconnect \/ AwaitClosed \/ Watchdog
  BY <1>4, <1>1 DEF Disconnect, AwaitClosed, Watchdog
<1>5. CASE Handshake \/ Transmit \/ Acknowledge \/ Receive \/ ClientClose \/ Abort
  BY <1>5, <1>1 DEF Handshake, Transmit, Acknowledge, Receive, ClientClose, Abort
<1>6. CASE Boot
  BY <1>6, <1>t, WordType DEF Boot, Value
<1>7. CASE WritePointer
  <2>1. last \in Value
    BY <1>7, PointerRead DEF WritePointer
  <2> QED
    BY <1>7, <1>t, <2>1 DEF WritePointer
<1>8. CASE ReadAvail
  <2>1. last \in held /\ last \in Value
    BY <1>8, StableIsHeld DEF ReadAvail, IInv, StableHeld, Polling, Avail, Typed, TypeOK
  <2>2. want' = Minimum(ReadMax, last) /\ received' = 0 /\ tx_pointer' = tx_pointer
    BY <1>8 DEF ReadAvail
  <2> QED
    BY <1>t, <2>1, <2>2 DEF Minimum, Value
<1>9. CASE ReadExact
  <2>1. received' = want
    BY <1>9, ReadExactReads
  <2> QED
    BY <1>9, <1>t, <2>1 DEF ReadExact
<1> QED
  BY <1>2, <1>3, <1>4, <1>5, <1>6, <1>7, <1>8, <1>9 DEF Next, Driver

(* The streams, the buffers and the writes to do keep their types.         *)
LEMMA NextSequences == IInv /\ Next => SequencesTyped'
<1> SUFFICES ASSUME IInv, Next PROVE SequencesTyped'
  OBVIOUS
<1> USE DEF SequencesTyped, chipVars, readVars, callVars, history
<1>t. SequencesTyped /\ Banner \in Seq(Byte) /\ Line \in Seq(Byte)
  BY OutputAssumption, LineAssumption DEF IInv, Typed
<1>1. CASE UNCHANGED <<said, heard, sent, rx, dst, todo>> /\ (misplaced => misplaced')
  BY <1>1, <1>t
<1>2. CASE ReadHigh \/ ReadAgain \/ (OpenSocket /\ sr # "closed") \/ ListenCommand
  BY <1>2, <1>1 DEF ReadHigh, ReadAgain, OpenSocket, ListenCommand
<1>3. CASE WriteFree \/ WaitData \/ ReadAvail
  BY <1>3, <1>1 DEF WriteFree, WaitData, ReadAvail
<1>13. CASE WritePointer
  <2>1. misplaced' = (misplaced \/ last # tx_wr)
    BY <1>13 DEF WritePointer
  <2>2. misplaced => misplaced'
    BY <2>1
  <2>3. UNCHANGED <<said, heard, sent, rx, dst, todo>>
    BY <1>13 DEF WritePointer
  <2> QED
    BY <2>2, <2>3, <1>1
<1>4. CASE Disconnect \/ AwaitClosed \/ Watchdog
  BY <1>4, <1>1 DEF Disconnect, AwaitClosed, Watchdog
<1>5. CASE Handshake \/ Acknowledge \/ ClientClose \/ Abort
  BY <1>5, <1>1 DEF Handshake, Acknowledge, ClientClose, Abort
<1>6. CASE Boot \/ (OpenSocket /\ sr = "closed")
  <2>1. << >> \in Seq(Byte) /\ << >> \in Seq(Seq(Byte))
    OBVIOUS
  <2> QED
    BY <1>6, <1>t, <2>1 DEF Boot, OpenSocket, Fresh
<1>7. CASE AwaitClient
  <2>1. todo' = <<Banner>> \/ todo' = todo
    BY <1>7 DEF AwaitClient
  <2>2. todo' \in Seq(Seq(Byte))
    <3>1. <<Banner>> \in Seq(Seq(Byte))
      BY <1>t
    <3> QED
      BY <1>t, <2>1, <3>1
  <2> QED
    BY <1>7, <1>t, <2>2 DEF AwaitClient
<1>8. CASE WriteData
  <2>1. todo # << >>
    BY <1>8 DEF WriteData, IInv, Phase
  <2>2. said' = said \o Head(todo) /\ Head(todo) \in Seq(Byte)
    BY <1>8, <1>t, <2>1 DEF WriteData
  <2>3. said' \in Seq(Byte)
    BY <1>t, <2>2
  <2> QED
    BY <1>8, <1>t, <2>3 DEF WriteData
<1>9. CASE WriteSend
  <2>1. todo # << >> /\ todo' = Tail(todo)
    BY <1>9 DEF WriteSend, IInv, Phase
  <2>2. todo' \in Seq(Seq(Byte))
    BY <1>t, <2>1
  <2> QED
    BY <1>9, <1>t, <2>2 DEF WriteSend
<1>10. CASE ReadExact
  <2>1. /\ dst' = SubSeq(rx, 1, want) /\ rx' = SubSeq(rx, want + 1, Len(rx))
        /\ want \in 0..Len(rx) /\ Execute
    BY <1>10, ReadExactReads
  <2>2. dst' \in Seq(Byte) /\ rx' \in Seq(Byte)
    BY <1>t, <2>1, Concatenates
  <2>3. todo' \in Seq(Seq(Byte))
    BY <2>1, OutputAssumption DEF Execute
  <2> QED
    BY <1>10, <1>t, <2>2, <2>3 DEF ReadExact
<1>11. CASE Transmit
  <2>1. misplaced' = misplaced
    BY <1>11 DEF Transmit
  <2>2. ~misplaced => heard' \in Seq(Byte)
    BY <1>11, Hears
  <2> QED
    BY <1>11, <1>t, <2>1, <2>2 DEF Transmit
<1>12. CASE Receive
  <2>1. PICK j \in (Len(sent) + 1)..Len(Line) :
          /\ sent' = sent \o SubSeq(Line, Len(sent) + 1, j)
          /\ rx' = rx \o SubSeq(Line, Len(sent) + 1, j)
    BY <1>12 DEF Receive
  <2>2. SubSeq(Line, Len(sent) + 1, j) \in Seq(Byte)
    BY <1>t
  <2>3. sent' \in Seq(Byte) /\ rx' \in Seq(Byte)
    BY <1>t, <2>1, <2>2
  <2> QED
    BY <1>12, <1>t, <2>3 DEF Receive
<1> QED
  BY <1>2, <1>3, <1>4, <1>5, <1>6, <1>7, <1>8, <1>9, <1>10, <1>11, <1>12, <1>13
     DEF Next, Driver

(* TX_RD, TX_WR and the unacknowledged bytes keep their ranges.            *)
LEMMA NextPointers == IInv /\ Next => PointersTyped'
<1> SUFFICES ASSUME IInv, Next PROVE PointersTyped'
  OBVIOUS
<1> USE DEF PointersTyped, chipVars, readVars, callVars, history
<1>t. PointersTyped /\ TxSize \in Nat
  BY WordType DEF IInv, Typed, TypeOK
<1>1. CASE UNCHANGED <<tx_rd, tx_wr, unacked>>
  BY <1>1, <1>t
<1>2. CASE ReadHigh \/ ReadAgain \/ (OpenSocket /\ sr # "closed") \/ ListenCommand
  BY <1>2, <1>1 DEF ReadHigh, ReadAgain, OpenSocket, ListenCommand
<1>3. CASE AwaitClient \/ WriteFree \/ WritePointer \/ WriteData \/ WaitData
  BY <1>3, <1>1 DEF AwaitClient, WriteFree, WritePointer, WriteData, WaitData
<1>4. CASE ReadAvail \/ ReadExact \/ Disconnect \/ AwaitClosed \/ Watchdog
  BY <1>4, <1>1 DEF ReadAvail, ReadExact, Disconnect, AwaitClosed, Watchdog
<1>5. CASE Handshake \/ Receive \/ ClientClose \/ Abort
  BY <1>5, <1>1 DEF Handshake, Receive, ClientClose, Abort
<1>6. CASE Boot \/ (OpenSocket /\ sr = "closed")
  <2>1. unacked' = 0 /\ tx_rd' = tx_wr' /\ tx_wr' \in Value
    BY <1>6, PointerAssumption, WordType DEF Boot, OpenSocket, Fresh, Value
  <2> QED
    BY <1>t, <2>1
<1>7. CASE WriteSend
  <2>1. tx_wr' = (tx_pointer + Len(Head(todo))) % Word
    BY <1>7 DEF WriteSend
  <2>2. todo # << >> /\ todo \in Seq(Seq(Byte)) /\ tx_pointer \in Nat
    BY <1>7 DEF WriteSend, IInv, Phase, Typed, TypeOK, Value
  <2>3. Len(Head(todo)) \in Nat
    BY <2>2
  <2>4. tx_wr' \in Value
    <3>1. tx_pointer + Len(Head(todo)) \in Nat
      BY <2>2, <2>3
    <3> QED
      BY ONLY <2>1, <3>1, WordType DEF Value
  <2> QED
    BY <1>7, <1>t, <2>4 DEF WriteSend
<1>8. CASE Transmit
  <2>1. PICK n \in 0..Pending : tx_rd' = (tx_rd + n) % Word /\ unacked' = unacked + n
    BY <1>8 DEF Transmit
  <2>2. tx_wr' = tx_wr /\ Typed
    BY <1>8 DEF Transmit, IInv
  <2>3. tx_rd' \in Value
    BY <2>1, <2>2, Transmits
  <2>4. Pending \in Nat
    BY PendingType DEF IInv, Value
  <2>5. Pending <= TxSize - unacked
    BY <1>8 DEF Transmit
  <2>6. unacked \in Nat
    BY <1>t
  <2>7. unacked' \in 0..TxSize
    BY ONLY n \in 0..Pending, <1>t, <2>1, <2>4, <2>5, <2>6
  <2> QED
    BY <1>t, <2>2, <2>3, <2>7
<1>9. CASE Acknowledge
  BY <1>9, <1>t DEF Acknowledge
<1> QED
  BY <1>2, <1>3, <1>4, <1>5, <1>6, <1>7, <1>8, <1>9 DEF Next, Driver

(* What the next state's register depends on is of its type.               *)
LEMMA NextMeasured == IInv /\ Next => Measured' /\ Phase'
<1> SUFFICES ASSUME IInv, Next PROVE Measured' /\ Phase'
  OBVIOUS
<1>1. Incoming' /\ SequencesTyped' /\ PointersTyped' /\ Phase'
  BY NextIncoming, NextSequences, NextPointers, NextPhase
<1>2. Len(rx') \in Value
  <2>1. /\ sent' = dst' \o rx' /\ Len(sent') <= Len(Line)
        /\ dst' \in Seq(Byte) /\ rx' \in Seq(Byte)
    BY <1>1 DEF Incoming, SequencesTyped
  <2>2. Len(sent') = Len(dst') + Len(rx') /\ Len(dst') \in Nat /\ Len(rx') \in Nat
    BY <2>1
  <2>3. Len(Line) \in Nat /\ Len(Line) < Word
    BY LineAssumption
  <2> QED
    BY ONLY <2>1, <2>2, <2>3, WordType DEF Value
<1> QED
  BY <1>1, <1>2, WordType DEF Measured, SequencesTyped, PointersTyped

ReadTyped ==
  /\ high \in 0..(Base - 1) \cup {None}
  /\ last \in Value \cup {None}
  /\ held \subseteq Value

(* The value being read keeps its types.                                   *)
LEMMA NextReadTyped == IInv /\ Next => ReadTyped'
<1> SUFFICES ASSUME IInv, Next PROVE ReadTyped'
  OBVIOUS
<1> USE DEF ReadTyped, chipVars, readVars, callVars, history
<1>t. ReadTyped /\ Typed /\ Phase
  BY DEF IInv, Typed, TypeOK
<1>n. (pc \in Polling)' => Register(pc)' \in Value
  BY NextMeasured, RegisterNext
<1>1. ASSUME high' = None, last' = None,
             held' = IF (pc \in Polling)' THEN {Register(pc)'} ELSE {}
      PROVE  ReadTyped'
  BY <1>1, <1>n
<1>2. ASSUME pc' = pc, UNCHANGED <<high, last>>,
             held' = held \/ held' = IF pc \in Polling THEN held \cup {Register(pc)'} ELSE held
      PROVE  ReadTyped'
  BY <1>2, <1>n, <1>t
<1>3. CASE ReadHigh
  <2>1. Register(pc) \in Value
    BY <1>3, <1>t, RegisterType DEF ReadHigh
  <2>2. high' \in 0..(Base - 1) /\ UNCHANGED <<last, held>>
    BY <1>3, <2>1, Bytes DEF ReadHigh
  <2> QED
    BY <1>t, <2>2
<1>4. CASE ReadAgain
  <2>1. Register(pc) \in Value /\ high \in 0..(Base - 1)
    BY <1>4, <1>t, RegisterType DEF ReadAgain
  <2>2. ReadValue \in Value
    BY <2>1, Bytes, Compose DEF ReadValue
  <2> QED
    BY <1>4, <1>t, <2>2 DEF ReadAgain
<1>5. CASE Boot \/ OpenSocket \/ ListenCommand \/ AwaitClient
  BY <1>5, <1>1 DEF Boot, OpenSocket, ListenCommand, AwaitClient, Goto
<1>6. CASE WriteFree \/ WritePointer \/ WriteData \/ WriteSend
  BY <1>6, <1>1 DEF WriteFree, WritePointer, WriteData, WriteSend, Goto
<1>7. CASE WaitData \/ ReadAvail \/ Disconnect \/ AwaitClosed \/ Watchdog
  BY <1>7, <1>1 DEF WaitData, ReadAvail, Disconnect, AwaitClosed, Watchdog, Goto
<1>8. CASE ReadExact
  <2>1. Execute
    BY <1>8, ReadExactReads
  <2> QED
    BY <2>1, <1>1 DEF Execute, Goto
<1>9. CASE Handshake \/ ClientClose \/ Abort
  BY <1>9, <1>2 DEF Handshake, ClientClose, Abort
<1>10. CASE Transmit \/ Acknowledge \/ Receive
  BY <1>10, <1>2 DEF Transmit, Acknowledge, Receive, Observe
<1> QED
  BY <1>3, <1>4, <1>5, <1>6, <1>7, <1>8, <1>9, <1>10 DEF Next, Driver

(* The types, put together.                                                *)
LEMMA NextTyped == IInv /\ Next => Typed'
<1> SUFFICES ASSUME IInv, Next PROVE Typed'
  OBVIOUS
<1>1. ControlTyped' /\ CallTyped' /\ SequencesTyped' /\ PointersTyped' /\ ReadTyped'
  BY NextControl, NextCall, NextSequences, NextPointers, NextReadTyped
<1>2. Len(rx') \in Value
  BY NextMeasured DEF Measured
<1> QED
  BY <1>1, <1>2 DEF ControlTyped, CallTyped, SequencesTyped, PointersTyped,
                    ReadTyped, Typed, TypeOK

LEMMA PendingNext == Measured' => Pending' \in Value
<1>1. Measured => Pending \in Value
  BY PendingMeasured
<1>2. (Measured => Pending \in Value)'
  BY <1>1, PTL
<1> QED
  BY <1>2 DEF Value

(* When polling begins, the register has what the phase needs.             *)
LEMMA BeginsRead ==
  ASSUME IInv, Next,
         high' = None, last' = None,
         held' = IF (pc \in Polling)' THEN {Register(pc)'} ELSE {},
         pc' = "size" => 1 <= Len(rx'),
         pc' = "exact" => want' <= Len(rx')
  PROVE  Read'
<1>0. Measured' /\ Phase'
  BY NextMeasured
<1>1. (pc \in Polling)' => Register(pc)' \in Value /\ held' = {Register(pc)'}
  BY <1>0, RegisterNext
<1>2. (pc \in Polling)' => \A v \in held' : Before(Turn', v, Register(pc)')
  BY <1>0, <1>1, TurnNext, BeforeSelf
<1>3. pc' = "free" /\ ~misplaced' => \A v \in held' : TxSize - Len(said') <= v
  <2>1. pc' = "free" => held' = {Register(pc)'}
    BY <1>1 DEF Polling
  <2> QED
    BY <1>0, <2>1, FreeNext
<1>4. pc' = "size" => \A v \in held' : 1 <= v
  <2>1. pc' = "size" => Register(pc)' = Len(rx') /\ (pc \in Polling)'
    BY DEF Register, Avail, Polling
  <2> QED
    BY <1>1, <2>1
<1>5. pc' = "exact" => \A v \in held' : want' <= v
  <2>1. pc' = "exact" => Register(pc)' = Len(rx') /\ (pc \in Polling)'
    BY DEF Register, Avail, Polling
  <2> QED
    BY <1>1, <2>1
<1> QED
  BY <1>1, <1>2, <1>3, <1>4, <1>5 DEF Read, Polled

(* While it is polled a register goes on, and by less than a turn.         *)
LEMMA ObservesRead ==
  ASSUME IInv, Next, UNCHANGED <<pc, tx_wr, high, last, want, said, misplaced>>,
         held' = IF pc \in Polling THEN held \cup {Register(pc)'} ELSE held,
         Polled => Before(Turn, Register(pc), Register(pc)')
  PROVE  Read'
<1>0. Read /\ held \subseteq Value /\ Turn \in Value /\ Turn' = Turn /\ Polled' = Polled
  BY TypedMeasures, TurnType DEF IInv, Typed, TypeOK, Turn, Polled
<1>1. pc \in Polling => Register(pc) \in Value /\ Register(pc) \in held
  BY <1>0, RegisterType DEF IInv, Read
<1>n. Measured' /\ Phase'
  BY NextMeasured
<1>2. (pc \in Polling)' => Register(pc)' \in Value
  BY <1>n, RegisterNext
<1>3. pc \in Polling =>
        held \subseteq held' /\ Register(pc)' \in held' /\ held' = held \cup {Register(pc)'}
  OBVIOUS
<1>4. CASE ~Polled
  <2>1. pc' \in Polling => Register(pc)' \in held'
    BY <1>3
  <2>2. ~Polled' /\ ~(pc' = "free" /\ ~misplaced') /\ pc' \notin {"size", "exact"}
    BY <1>0, <1>4 DEF Polled, Polling, Avail
  <2> QED
    BY <2>1, <2>2 DEF Read
<1>5. CASE Polled
  <2>0. pc \in Polling
    BY <1>5 DEF Polled
  <2>1. /\ \A v \in held : Before(Turn, v, Register(pc))
        /\ high # None => \E c \in held : c \div Base = high
        /\ last # None =>
             \E a, b \in held :
               /\ Before(Turn, a, b)
               /\ Composed(last, a, b)
               /\ high # None =>
                    \E c \in held : Before(Turn, b, c) /\ c \div Base = high
    BY <1>0, <1>5 DEF Read
  <2>2. Register(pc)' \in Value
    BY <1>2, <2>0
  <2>3. \A v \in held' : Before(Turn, v, Register(pc)')
    <3> SUFFICES ASSUME NEW v \in held' PROVE Before(Turn, v, Register(pc)')
      OBVIOUS
    <3>1. CASE v = Register(pc)'
      BY <1>0, <2>2, <3>1, BeforeSelf
    <3>2. CASE v \in held
      <4>1. v \in Value /\ Register(pc) \in Value
        BY <1>0, <1>1, <2>0, <3>2
      <4>2. Before(Turn, v, Register(pc)) /\ Before(Turn, Register(pc), Register(pc)')
        BY <1>5, <2>1, <3>2
      <4> QED
        BY ONLY <1>0, <2>2, <4>1, <4>2, BeforeTransitive
    <3> QED
      BY <1>3, <2>0, <3>1, <3>2
  <2>4. high' # None => \E c \in held' : c \div Base = high'
    BY <1>3, <2>0, <2>1
  <2>5. last' # None =>
          \E a, b \in held' :
            /\ Before(Turn, a, b)
            /\ Composed(last', a, b)
            /\ high' # None =>
                 \E c \in held' : Before(Turn, b, c) /\ c \div Base = high'
    BY <1>3, <2>0, <2>1
  <2>7. pc = "free" /\ ~misplaced => \A v \in held' : TxSize - Len(said') <= v
    <3>1. pc = "free" /\ ~misplaced => \A w \in held : TxSize - Len(said) <= w
      BY <1>0 DEF Read
    <3>2. pc = "free" /\ ~misplaced => TxSize - Len(said') <= Register(pc)'
      BY <1>n, FreeNext
    <3> QED
      BY <1>3, <2>0, <3>1, <3>2
  <2>g. pc \in {"size", "exact"} =>
          \A v \in held' : v \in held \/ (v = Register(pc)' /\ Register(pc) <= v)
    <3>1. pc \in {"size", "exact"} => Register(pc) <= Register(pc)'
      BY <1>1, <1>5, <2>0, <2>2, InOrder
    <3> QED
      BY <1>3, <2>0, <3>1
  <2>8. pc = "size" => \A v \in held' : 1 <= v
    <3> SUFFICES ASSUME pc = "size", NEW v \in held' PROVE 1 <= v
      OBVIOUS
    <3>1. (\A w \in held : 1 <= w) /\ Register(pc) \in held
      BY <1>0, <1>1, <2>0 DEF Read
    <3>2. v \in held \/ (v = Register(pc)' /\ Register(pc) <= v)
      BY <2>g
    <3>3. Register(pc) \in Nat /\ Register(pc)' \in Nat
      BY <1>1, <2>0, <2>2 DEF Value
    <3> QED
      BY ONLY <3>1, <3>2, <3>3
  <2>9. pc = "exact" => \A v \in held' : want' <= v
    <3> SUFFICES ASSUME pc = "exact", NEW v \in held' PROVE want <= v
      OBVIOUS
    <3>1. (\A w \in held : want <= w) /\ Register(pc) \in held
      BY <1>0, <1>1, <2>0 DEF Read
    <3>2. v \in held \/ (v = Register(pc)' /\ Register(pc) <= v)
      BY <2>g
    <3>3. want \in Int /\ Register(pc) \in Nat /\ Register(pc)' \in Nat
      BY <1>1, <2>0, <2>2, LineAssumption DEF IInv, Typed, TypeOK, Value
    <3> QED
      BY ONLY <3>1, <3>2, <3>3
  <2>10. Register(pc)' \in held'
    BY <1>3, <2>0
  <2> QED
    BY ONLY <1>0, <2>3, <2>4, <2>5, <2>7, <2>8, <2>9, <2>10,
            UNCHANGED <<pc, want, misplaced>> DEF Read
<1> QED
  BY <1>4, <1>5

(* Room grows as bytes are acknowledged, and not when they are transmitted.*)
LEMMA Lessens ==
  ASSUME NEW t \in Nat, NEW p \in Nat, NEW u \in Nat, NEW q \in Nat,
         NEW v \in Nat, q + v <= p + u
  PROVE  t - p - u <= t - q - v
OBVIOUS

LEMMA Acknowledges ==
  ASSUME NEW p \in Nat, NEW u \in Nat, NEW v \in Nat, v <= u
  PROVE  p + v <= p + u
OBVIOUS

(* Transmission takes TX_RD on, and not past TX_WR.                        *)
LEMMA TransmitsBefore ==
  ASSUME Typed, NEW n \in 0..Pending, tx_rd' = (tx_rd + n) % Word
  PROVE  Before(tx_wr, tx_rd, tx_rd')
<1>1. Pending = (IF tx_rd <= tx_wr THEN tx_wr - tx_rd ELSE tx_wr - tx_rd + Word)
      /\ Pending \in Value
  BY PendingType
<1>2. tx_rd \in Value /\ tx_wr \in Value /\ n \in Value
  BY <1>1, WordType DEF Typed, TypeOK, Value
<1>3. tx_rd' = IF tx_rd + n < Word THEN tx_rd + n ELSE tx_rd + n - Word
  BY <1>2, Wrap
<1>4. tx_rd \in Nat /\ tx_wr \in Nat /\ n \in Nat /\ Word \in Nat /\ n <= Pending
      /\ tx_rd < Word /\ tx_wr < Word
  BY <1>1, <1>2, WordType DEF Value
<1>5. CASE tx_rd <= tx_wr
  BY ONLY <1>1, <1>3, <1>4, <1>5 DEF Before
<1>6. CASE ~(tx_rd <= tx_wr)
  BY ONLY <1>1, <1>3, <1>4, <1>6 DEF Before
<1> QED
  BY <1>5, <1>6

(* The parts of a value being read are those of values the register had.   *)
LEMMA NextRead == IInv /\ Next => Read'
<1> SUFFICES ASSUME IInv, Next PROVE Read'
  OBVIOUS
<1> USE DEF chipVars, readVars, callVars, history
<1>t. Typed /\ Phase /\ Read /\ Measured
  BY TypedMeasures DEF IInv
<1>n. Measured' /\ Phase'
  BY NextMeasured
<1>r. pc \in Polling => Register(pc) \in Value /\ Register(pc) \in held
  BY <1>t, RegisterType DEF Read
<1>1. CASE ReadHigh
  <2>1. /\ pc \in Polling /\ high = None /\ high' = Register(pc) \div Base
        /\ UNCHANGED <<sr, tx_rd, tx_wr, unacked, sending, rx, pc, last, held,
                       said, want, misplaced>>
    BY <1>1 DEF ReadHigh
  <2>2. Register(pc)' = Register(pc) /\ Turn' = Turn /\ Polled' = Polled
    BY <2>1 DEF Register, Pending, Turn, Polled
  <2>3. Polled =>
          /\ \A v \in held : Before(Turn, v, Register(pc))
          /\ last # None => \E a, b \in held : Before(Turn, a, b) /\ Composed(last, a, b)
    BY <1>t DEF Read
  <2>4. \E c \in held' : c \div Base = high'
    BY <1>r, <2>1
  <2>5. Polled /\ last' # None =>
          \E a, b \in held' :
            /\ Before(Turn, a, b)
            /\ Composed(last', a, b)
            /\ high' # None =>
                 \E c \in held' : Before(Turn, b, c) /\ c \div Base = high'
    BY <1>r, <2>1, <2>3
  <2>6. /\ pc' = "free" /\ ~misplaced' => \A v \in held' : TxSize - Len(said') <= v
        /\ pc' = "size" => \A v \in held' : 1 <= v
        /\ pc' = "exact" => \A v \in held' : want' <= v
    BY <1>t, <2>1 DEF Read
  <2>7. Polled => \A v \in held' : Before(Turn', v, Register(pc)')
    BY <2>1, <2>2, <2>3
  <2>8. pc' \in Polling => Register(pc)' \in held'
    BY <1>r, <2>1, <2>2
  <2> QED
    BY ONLY <2>2, <2>4, <2>5, <2>6, <2>7, <2>8 DEF Read
<1>2. CASE ReadAgain
  <2>1. /\ pc \in Polling /\ high # None /\ high' = None /\ last' = ReadValue
        /\ UNCHANGED <<sr, tx_rd, tx_wr, unacked, sending, rx, pc, held, said,
                       want, misplaced>>
    BY <1>2 DEF ReadAgain
  <2>2. Register(pc)' = Register(pc) /\ Turn' = Turn /\ Polled' = Polled
    BY <2>1 DEF Register, Pending, Turn, Polled
  <2>3. Polled =>
          /\ \A v \in held : Before(Turn, v, Register(pc))
          /\ \E c \in held : c \div Base = high
    BY <1>t, <2>1 DEF Read
  <2>4. Polled => \E a, b \in held' : Before(Turn, a, b) /\ Composed(last', a, b)
    <3> SUFFICES ASSUME Polled
                 PROVE  \E a, b \in held' : Before(Turn, a, b) /\ Composed(last', a, b)
      OBVIOUS
    <3>1. PICK c \in held : c \div Base = high
      BY <2>3
    <3>2. Composed(last', c, Register(pc)) /\ Before(Turn, c, Register(pc))
      BY <2>1, <2>3, <3>1 DEF Composed, ReadValue
    <3> QED
      BY <1>r, <2>1, <3>2
  <2>5. /\ pc' = "free" /\ ~misplaced' => \A v \in held' : TxSize - Len(said') <= v
        /\ pc' = "size" => \A v \in held' : 1 <= v
        /\ pc' = "exact" => \A v \in held' : want' <= v
    BY <1>t, <2>1 DEF Read
  <2>7. Polled => \A v \in held' : Before(Turn', v, Register(pc)')
    BY <2>1, <2>2, <2>3
  <2>8. pc' \in Polling => Register(pc)' \in held'
    BY <1>r, <2>1, <2>2
  <2> QED
    BY ONLY <2>2, <2>1, <2>4, <2>5, <2>7, <2>8 DEF Read
<1>3. CASE Boot \/ OpenSocket \/ ListenCommand \/ AwaitClient
  BY <1>3, BeginsRead DEF Boot, OpenSocket, ListenCommand, AwaitClient, Goto
<1>4. CASE WriteFree \/ WritePointer \/ WriteData \/ WriteSend \/ Disconnect
  BY <1>4, BeginsRead DEF WriteFree, WritePointer, WriteData, WriteSend,
                          Disconnect, Goto
<1>5. CASE AwaitClosed \/ Watchdog
  BY <1>5, BeginsRead DEF AwaitClosed, Watchdog, Goto
<1>6. CASE WaitData \/ ReadAvail
  <2>1. pc \in {"wait", "size"} /\ Stable /\ rx' = rx
    BY <1>6 DEF WaitData, ReadAvail
  <2>2. last \in held /\ last \in Value
    BY <2>1, StableIsHeld DEF IInv, StableHeld, Polling, Avail, Typed, TypeOK
  <2>3. last <= Len(rx) /\ Len(rx) \in Nat
    BY <2>1, <2>2, LastArrived DEF Avail
  <2>4. pc' = "size" => 1 <= Len(rx')
    <3>1. pc' = "size" => last # 0
      BY <1>6 DEF WaitData, ReadAvail, Goto
    <3> QED
      BY <2>1, <2>2, <2>3, <3>1 DEF Value
  <2>5. pc' = "exact" => want' <= Len(rx')
    <3>1. pc' = "exact" => want' = Minimum(ReadMax, last)
      BY <1>6 DEF WaitData, ReadAvail, Goto
    <3> QED
      BY <2>1, <2>2, <2>3, <3>1, LineAssumption DEF Minimum, Value
  <2> QED
    BY <1>6, <2>4, <2>5, BeginsRead DEF WaitData, ReadAvail, Goto
<1>7. CASE ReadExact
  <2>1. Execute
    BY <1>7, ReadExactReads
  <2>2. pc' \in {"free", "discon"}
    BY <2>1 DEF Execute, Goto
  <2> QED
    BY <2>1, <2>2, BeginsRead DEF Execute, Goto
<1>8. CASE Handshake \/ ClientClose \/ Abort
  <2>1. UNCHANGED <<tx_rd, tx_wr, unacked, rx, pc, high, last, held, said, want,
                    misplaced>>
    BY <1>8 DEF Handshake, ClientClose, Abort
  <2>2. Register(pc)' = Register(pc) /\ Turn' = Turn /\ Polled' = Polled
    BY <2>1 DEF Register, Pending, Turn, Polled
  <2> QED
    BY <1>t, <2>1, <2>2 DEF Read
<1>o. ASSUME UNCHANGED <<pc, tx_wr, high, last, want, said, misplaced>>,
             held' = IF pc \in Polling THEN held \cup {Register(pc)'} ELSE held,
             pc = "pointer" => Before(tx_wr, tx_rd, tx_rd'),
             Pending' + unacked' <= Pending + unacked,
             Len(rx) <= Len(rx')
      PROVE  Read'
  <2> SUFFICES ASSUME Polled PROVE Before(Turn, Register(pc), Register(pc)')
    BY <1>o, ObservesRead
  <2>1. CASE pc = "pointer"
    BY <1>o, <2>1 DEF Register, Avail, Turn
  <2>2. CASE pc # "pointer"
    <3>1. Register(pc) \in Value /\ Register(pc)' \in Value
      BY <1>n, <1>r, <1>o, RegisterNext DEF Polled
    <3>2. CASE pc = "free"
      <4>1. Register(pc) = TxSize - Pending - unacked
        BY <1>t, <3>2, FreeMeasured DEF Polled
      <4>2. Register(pc)' = TxSize - Pending' - unacked'
        BY <1>n, <1>o, <3>2, FreeNext DEF Polled
      <4>3. Pending \in Nat /\ unacked \in Nat /\ TxSize \in Nat
        BY <1>t, PendingMeasured, WordType DEF Measured, Value
      <4>4. Pending' \in Nat /\ unacked' \in Nat
        BY <1>n, PendingNext DEF Measured, Value
      <4>5. Register(pc) <= Register(pc)'
        <5>1. Pending' + unacked' <= Pending + unacked
          BY <1>o
        <5>2. TxSize - Pending - unacked <= TxSize - Pending' - unacked'
          BY ONLY <4>3, <4>4, <5>1, Lessens
        <5> QED
          BY ONLY <4>1, <4>2, <5>2
      <4> QED
        BY <2>2, <3>1, <4>5, InOrder
    <3>3. CASE pc \in Avail
      <4>1. Register(pc) = Len(rx) /\ Register(pc)' = Len(rx')
        BY <1>o, <3>3 DEF Register, Avail
      <4> QED
        BY <1>o, <2>2, <3>1, <4>1, InOrder
    <3> QED
      BY <2>2, <3>2, <3>3 DEF Polled, Polling
  <2> QED
    BY <2>1, <2>2
<1>9. CASE Acknowledge \/ Receive
  <2>1. /\ UNCHANGED <<tx_rd, tx_wr, sending, pc, high, last, said, want, misplaced>>
        /\ held' = IF pc \in Polling THEN held \cup {Register(pc)'} ELSE held
    BY <1>9 DEF Acknowledge, Receive, Observe
  <2>2. unacked' <= unacked /\ Len(rx) <= Len(rx')
    <3>1. unacked \in Nat /\ rx \in Seq(Byte) /\ Line \in Seq(Byte) /\ sent \in Seq(Byte)
      BY LineAssumption, <1>t, WordType DEF Typed, TypeOK
    <3>2. CASE Acknowledge
      BY <3>1, <3>2 DEF Acknowledge
    <3>3. CASE Receive
      <4>1. PICK j \in (Len(sent) + 1)..Len(Line) :
              rx' = rx \o SubSeq(Line, Len(sent) + 1, j)
        BY <3>3 DEF Receive
      <4>2. SubSeq(Line, Len(sent) + 1, j) \in Seq(Byte)
        BY <3>1
      <4> QED
        BY <3>1, <3>3, <4>1, <4>2 DEF Receive
    <3> QED
      BY <1>9, <3>2, <3>3
  <2>3. Pending' = Pending /\ Pending \in Nat /\ unacked \in Nat /\ unacked' \in Nat
    BY <1>t, <1>n, <2>1, PendingType DEF Pending, Measured, Value
  <2>4. Pending' + unacked' <= Pending + unacked
    <3>1. unacked' <= unacked
      BY <2>2
    <3>2. Pending + unacked' <= Pending + unacked
      BY ONLY <2>3, <3>1, Acknowledges
    <3> QED
      BY ONLY <2>3, <3>2
  <2>5. Before(tx_wr, tx_rd, tx_rd')
    BY <1>t, <2>1, BeforeSelf DEF Measured
  <2> QED
    BY <1>o, <2>1, <2>2, <2>4, <2>5
<1>10. CASE Transmit
  <2>1. PICK n \in 0..Pending : tx_rd' = (tx_rd + n) % Word /\ unacked' = unacked + n
    BY <1>10 DEF Transmit
  <2>2. /\ UNCHANGED <<tx_wr, pc, high, last, said, want, rx, misplaced>>
        /\ held' = IF pc \in Polling THEN held \cup {Register(pc)'} ELSE held
    BY <1>10 DEF Transmit, Observe
  <2>3. Pending' = Pending - n
    BY <1>t, <2>1, <2>2, Transmits
  <2>4. Pending \in Nat /\ unacked \in Nat /\ Len(rx) \in Nat /\ rx' = rx
    BY <1>t, <2>2, PendingType DEF Measured, Value
  <2>5. Pending' + unacked' <= Pending + unacked /\ Len(rx) <= Len(rx')
    BY ONLY n \in 0..Pending, <2>1, <2>3, <2>4
  <2>6. Before(tx_wr, tx_rd, tx_rd')
    BY <1>t, <2>1, TransmitsBefore
  <2> QED
    BY <1>o, <2>2, <2>5, <2>6
<1> QED
  BY <1>1, <1>2, <1>3, <1>4, <1>5, <1>6, <1>7, <1>8, <1>9, <1>10 DEF Next, Driver

-----------------------------------------------------------------------------
(* The invariant, put together.                                            *)

(* The invariant holds when the program starts.                            *)
LEMMA InitIInv == Init => IInv
<1> SUFFICES ASSUME Init PROVE IInv
  OBVIOUS
<1> USE DEF Init
<1>1. 0 \in Value /\ Pending = 0
  BY WordType DEF Value, Pending
<1>2. << >> \in Seq(Byte) /\ << >> \in Seq(Seq(Byte)) /\ Len(<< >>) = 0
  OBVIOUS
<1>3. Typed
  BY <1>1, <1>2, WordType, LineAssumption DEF Typed, TypeOK, Status
<1>4. Read
  BY DEF Read, Polled, Polling, Avail
<1>5. Phase
  BY <1>1, <1>2, WordType DEF Phase, Uncovered, Avail
<1>6. Stage
  BY DEF Stage, Handling, Polling, Avail
<1>7. SubSeq(Line, 1, 0) = << >> /\ Len(Line) \in Nat
  BY LineAssumption
<1>8. Incoming
  BY <1>2, <1>7 DEF Incoming
<1>9. Outgoing
  BY <1>1, <1>2 DEF Outgoing, Uncovered
<1> QED
  BY <1>3, <1>4, <1>5, <1>6, <1>8, <1>9 DEF IInv

(* In each phase the connection is in a state that suits it, or the client *)
(* has left.                                                               *)
LEMMA NextStage == IInv /\ Next => Stage'
<1> SUFFICES ASSUME IInv, Next PROVE Stage'
  OBVIOUS
<1> USE DEF IInv, Stage, Goto, Handling, Polling, Avail, history
<1>1. CASE ReadHigh \/ ReadAgain
  BY <1>1 DEF ReadHigh, ReadAgain, chipVars
<1>2. CASE Boot
  BY <1>2 DEF Boot, Fresh
<1>3. CASE OpenSocket
  BY <1>3 DEF OpenSocket, Fresh, chipVars
<1>4. CASE ListenCommand
  BY <1>4 DEF ListenCommand
<1>5. CASE AwaitClient
  BY <1>5 DEF AwaitClient, chipVars
<1>6. CASE WriteFree \/ WritePointer \/ WaitData
  <2>1. pc = "free" /\ pc' = "panic" => misplaced'
    BY <1>6, FreeSuffices DEF WriteFree, WritePointer, WaitData
  <2> QED
    BY <1>6, <2>1 DEF WriteFree, WritePointer, WaitData, chipVars
<1>7. CASE WriteData
  BY <1>7 DEF WriteData
<1>8. CASE WriteSend
  BY <1>8 DEF WriteSend
<1>9. CASE ReadAvail
  BY <1>9 DEF ReadAvail, chipVars
<1>10. CASE ReadExact
  <2>1. pc' \in {"discon", "free"}
    BY <1>10, ReadExactReads DEF Execute
  <2> QED
    BY <1>10, <2>1 DEF ReadExact
<1>11. CASE Disconnect
  BY <1>11 DEF Disconnect
<1>12. CASE AwaitClosed
  BY <1>12 DEF AwaitClosed, chipVars
<1>13. CASE Watchdog
  BY <1>13 DEF Watchdog, Guarded, chipVars
<1>14. CASE Handshake
  BY <1>14 DEF Handshake
<1>15. CASE Transmit \/ Acknowledge \/ Receive
  BY <1>15 DEF Transmit, Acknowledge, Receive
<1>16. CASE ClientClose
  BY <1>16 DEF ClientClose
<1>17. CASE Abort
  BY <1>17 DEF Abort
<1> QED
  BY <1>1, <1>2, <1>3, <1>4, <1>5, <1>6, <1>7, <1>8, <1>9, <1>10, <1>11, <1>12,
     <1>13, <1>14, <1>15, <1>16, <1>17 DEF Next, Driver


(* The invariant depends on the variables alone.                           *)
LEMMA StutterIInv == IInv /\ UNCHANGED vars => IInv'
<1> SUFFICES ASSUME IInv, UNCHANGED vars PROVE IInv'
  OBVIOUS
<1> USE DEF vars, chipVars, readVars, callVars, history
<1>1. /\ Pending' = Pending /\ Uncovered' = Uncovered /\ Register(pc)' = Register(pc)
      /\ Turn' = Turn /\ Polled' = Polled
  BY DEF Pending, Uncovered, Register, Turn, Polled
<1>2. Typed'
  BY DEF IInv, Typed, TypeOK
<1>3. Read'
  BY <1>1 DEF IInv, Read
<1>4. Phase'
  BY <1>1 DEF IInv, Phase, Room
<1>5. Stage' /\ Incoming'
  BY DEF IInv, Stage, Incoming
<1>6. Outgoing'
  BY <1>1 DEF IInv, Outgoing
<1> QED
  BY <1>2, <1>3, <1>4, <1>5, <1>6 DEF IInv

(* The invariant is inductive.                                             *)
LEMMA NextIInv == IInv /\ [Next]_vars => IInv'
<1> SUFFICES ASSUME IInv, [Next]_vars PROVE IInv'
  OBVIOUS
<1>1. CASE Next
  <2>1. Typed' /\ Read' /\ Phase' /\ Stage' /\ Incoming' /\ Outgoing'
    BY <1>1, NextTyped, NextRead, NextPhase, NextStage, NextIncoming, NextOutgoing
  <2> QED
    BY <2>1 DEF IInv
<1> QED
  BY <1>1, StutterIInv

(* The invariant always holds.                                             *)
THEOREM Invariance == Spec => []IInv
<1>1. Init => IInv
  BY InitIInv
<1>2. IInv /\ [Next]_vars => IInv'
  BY NextIInv
<1> QED
  BY <1>1, <1>2, PTL DEF Spec

(* Type correctness: no pointer, count or register of the driver leaves    *)
(* its range.                                                              *)
THEOREM Types == Spec => []TypeOK
<1>1. IInv => TypeOK
  BY DEF IInv, Typed
<1> QED
  BY <1>1, Invariance, PTL

(* The value read_u16_stable() returns is one the register had during the  *)
(* call, although its bytes are read one after the other while the chip    *)
(* changes the register.                                                   *)
THEOREM StableReads == Spec => []StableHeld
<1>1. IInv => StableHeld
  BY StableIsHeld DEF IInv
<1> QED
  BY <1>1, Invariance, PTL

(* No assertion of the driver fails and no status of the socket makes it   *)
(* panic unless the client left before disconnect() was called or a        *)
(* write() was not told where the last one ended.                          *)
THEOREM NoPanic == Spec => []PanicOnlyIfLeft
<1>1. IInv => PanicOnlyIfLeft
  BY DEF IInv, Stage, PanicOnlyIfLeft
<1> QED
  BY <1>1, Invariance, PTL

-----------------------------------------------------------------------------
(* The driver, the chip and the network implement the two byte streams.    *)

InboundStep == [Inbound!Next]_(Inbound!vars)
OutboundStep == [Outbound!Next]_(Outbound!vars)

(* Reading gives the caller more of what the client sent.                  *)
LEMMA ReadGets == IInv /\ ReadExact => Inbound!Take
<1> SUFFICES ASSUME IInv, ReadExact PROVE Inbound!Take
  OBVIOUS
<1>1. dst' = SubSeq(rx, 1, want) /\ want \in 1..Len(rx) /\ dst = << >>
  BY ReadExactReads
<1>2. rx \in Seq(Byte) /\ sent = dst \o rx
  BY DEF IInv, Typed, Incoming
<1>3. sent = rx
  BY <1>1, <1>2
<1>4. want \in Len(dst)..Len(sent) /\ dst' = SubSeq(sent, 1, want)
  BY <1>1, <1>2, <1>3
<1>5. dst' \in Seq(Byte) /\ Len(dst') \in Nat
  BY <1>1, <1>2
<1>6. SubSeq(dst', 1, 0) = << >>
  BY <1>5
<1>7. Inbound!Prefix(dst, dst')
  BY <1>1, <1>5, <1>6 DEF Inbound!Prefix
<1>8. sent' = sent
  BY DEF ReadExact
<1> QED
  BY <1>4, <1>7, <1>8 DEF Inbound!Take

(* A segment that arrives is one the client's line has there.              *)
LEMMA ReceiveGives == IInv /\ Receive => Inbound!Next
<1> SUFFICES ASSUME IInv, Receive PROVE Inbound!Next
  OBVIOUS
<1>1. PICK j \in (Len(sent) + 1)..Len(Line) :
        sent' = sent \o SubSeq(Line, Len(sent) + 1, j)
  BY DEF Receive
<1>2. dst' = dst
  BY DEF Receive, callVars
<1>3. Len(sent) \in Nat /\ Len(Line) \in Nat /\ DOMAIN Line = 1..Len(Line)
  BY LineAssumption DEF IInv, Typed
<1>4. Len(sent) + 1 \in DOMAIN Line /\ j \in DOMAIN Line
  BY <1>1, <1>3
<1> DEFINE segment == SubSeq(Line, Len(sent) + 1, j)
           Segments == {SubSeq(Line, i, k) : i, k \in DOMAIN Line}
<1>5. segment \in Segments
  BY <1>4
<1>6. Inbound!Give(segment)
  BY <1>1, <1>2 DEF Inbound!Give
<1> HIDE DEF segment, Segments
<1>7. \E x \in Segments : Inbound!Give(x)
  BY <1>5, <1>6
<1> QED
  BY <1>7 DEF Inbound!Next, Segments

(* Each step of the system is a step of what the client says, or leaves it *)
(* alone.                                                                  *)
LEMMA StepInbound == IInv /\ [Next]_vars => InboundStep
<1> SUFFICES ASSUME IInv, [Next]_vars PROVE InboundStep
  OBVIOUS
<1> USE DEF chipVars, readVars, callVars, history
<1>1. ASSUME UNCHANGED <<sent, dst>> PROVE InboundStep
  BY <1>1 DEF InboundStep, Inbound!vars
<1>2. ASSUME sent' = << >>, dst' = << >> PROVE InboundStep
  BY <1>2 DEF InboundStep, Inbound!Next, Inbound!Renew
<1>3. CASE ReadHigh \/ ReadAgain \/ ListenCommand \/ AwaitClient
  BY <1>1, <1>3 DEF ReadHigh, ReadAgain, ListenCommand, AwaitClient
<1>4. CASE WriteFree \/ WritePointer \/ WriteData \/ WriteSend \/ WaitData
  BY <1>1, <1>4 DEF WriteFree, WritePointer, WriteData, WriteSend, WaitData
<1>5. CASE ReadAvail \/ Disconnect \/ AwaitClosed
  BY <1>1, <1>5 DEF ReadAvail, Disconnect, AwaitClosed
<1>6. CASE Watchdog \/ Handshake \/ Transmit \/ Acknowledge \/ ClientClose \/ Abort
  BY <1>1, <1>6 DEF Watchdog, Handshake, Transmit, Acknowledge, ClientClose, Abort
<1>7. CASE Boot
  BY <1>2, <1>7 DEF Boot, Fresh
<1>8. CASE OpenSocket
  BY <1>1, <1>2, <1>8 DEF OpenSocket, Fresh
<1>9. CASE ReadExact
  BY <1>9, ReadGets DEF InboundStep, Inbound!Next
<1>10. CASE Receive
  BY <1>10, ReceiveGives DEF InboundStep
<1>11. CASE UNCHANGED vars
  BY <1>1, <1>11 DEF vars
<1> QED
  BY <1>3, <1>4, <1>5, <1>6, <1>7, <1>8, <1>9, <1>10, <1>11 DEF Next, Driver

(* What the program reads is a prefix of what this client sent: polling,   *)
(* read_avail() and read_exact() lose, repeat and mix up nothing.          *)
THEOREM InboundRefinement == Spec => InboundSpec
<1>1. Init => Inbound!Init
  BY DEF Init, Inbound!Init
<1>2. IInv /\ [Next]_vars => [Inbound!Next]_(Inbound!vars)
  BY StepInbound DEF InboundStep
<1> QED
  BY <1>1, <1>2, Invariance, PTL DEF Spec, InboundSpec, Inbound!Spec

(* Transmitting lets the client hear more of what the program wrote.       *)
LEMMA TransmitHears == IInv /\ ~misplaced /\ Transmit => Outbound!Take
<1> SUFFICES ASSUME IInv, ~misplaced, Transmit PROVE Outbound!Take
  OBVIOUS
<1>0. ~misplaced'
  BY DEF Transmit, history
<1>1. PICK n \in 0..Pending :
        /\ heard' = SubSeq(said, 1, Len(heard) + n)
        /\ heard' \in Seq(Byte) /\ Len(heard') = Len(heard) + n
        /\ Len(heard') <= Len(said)
  BY Hears
<1>2. n \in Nat /\ said \in Seq(Byte) /\ heard \in Seq(Byte)
  BY PendingType DEF IInv, Typed, Value
<1>3. /\ Len(heard) \in Nat /\ Len(said) \in Nat
      /\ Len(heard) + n \in Len(heard)..Len(said)
  BY <1>1, <1>2
<1>4. heard = SubSeq(heard', 1, Len(heard))
  <2>1. SubSeq(heard', 1, Len(heard)) \in Seq(Byte)
        /\ Len(SubSeq(heard', 1, Len(heard))) = Len(heard)
    BY <1>1, <1>2, <1>3
  <2>2. ASSUME NEW k \in 1..Len(heard)
        PROVE  SubSeq(heard', 1, Len(heard))[k] = heard[k]
    <3>1. heard[k] = said[k]
      BY DEF IInv, Outgoing
    <3>2. heard'[k] = said[k]
      BY <1>1, <1>2, <1>3
    <3>3. SubSeq(heard', 1, Len(heard))[k] = heard'[k]
      BY <1>1, <1>2, <1>3
    <3> QED
      BY <3>1, <3>2, <3>3
  <2> QED
    BY <1>2, <2>1, <2>2
<1>5. Outbound!Prefix(heard, heard')
  BY <1>1, <1>2, <1>3, <1>4 DEF Outbound!Prefix
<1>6. said' = said
  BY DEF Transmit, callVars
<1>7. \E k \in Len(heard)..Len(said) : heard' = SubSeq(said, 1, k)
  BY <1>1, <1>3
<1> QED
  BY <1>0, <1>5, <1>6, <1>7 DEF Outbound!Take

(* Each step of the system is a step of what the program says, or leaves   *)
(* it alone.                                                               *)
LEMMA StepOutbound == IInv /\ [Next]_vars => OutboundStep
<1> SUFFICES ASSUME IInv, [Next]_vars PROVE OutboundStep
  OBVIOUS
<1> USE DEF chipVars, readVars, callVars, history
<1>1. ASSUME UNCHANGED <<said, heard, misplaced>> PROVE OutboundStep
  BY <1>1 DEF OutboundStep, Outbound!vars
<1>2. ASSUME (said' = << >> /\ heard' = << >>) \/ misplaced' PROVE OutboundStep
  BY <1>2 DEF OutboundStep, Outbound!Next, Outbound!Renew
<1>3. CASE ReadHigh \/ ReadAgain \/ ListenCommand \/ AwaitClient
  BY <1>1, <1>3 DEF ReadHigh, ReadAgain, ListenCommand, AwaitClient
<1>4. CASE WriteFree \/ WriteSend \/ WaitData \/ ReadExact \/ Receive
  BY <1>1, <1>4 DEF WriteFree, WriteSend, WaitData, ReadExact, Receive
<1>5. CASE ReadAvail \/ Disconnect \/ AwaitClosed
  BY <1>1, <1>5 DEF ReadAvail, Disconnect, AwaitClosed
<1>6. CASE Watchdog \/ Handshake \/ Acknowledge \/ ClientClose \/ Abort
  BY <1>1, <1>6 DEF Watchdog, Handshake, Acknowledge, ClientClose, Abort
<1>7. CASE Boot
  BY <1>2, <1>7 DEF Boot, Fresh
<1>8. CASE OpenSocket
  BY <1>1, <1>2, <1>8 DEF OpenSocket, Fresh
<1>9. CASE WritePointer
  <2>1. UNCHANGED <<said, heard>> /\ (misplaced' = (misplaced \/ last # tx_wr))
    BY <1>9 DEF WritePointer
  <2>2. misplaced' \/ (~misplaced' /\ ~misplaced)
    BY <2>1
  <2>3. ASSUME ~misplaced', ~misplaced PROVE OutboundStep
    BY <2>1, <2>3 DEF OutboundStep, Outbound!vars
  <2> QED
    BY <1>2, <2>2, <2>3
<1>10. CASE WriteData
  <2>1. said' = said \o Head(todo) /\ UNCHANGED <<heard, misplaced>>
    BY <1>10 DEF WriteData
  <2>2. todo # << >> /\ todo \in Seq(Seq(Byte))
    BY <1>10 DEF IInv, Phase, Typed, WriteData
  <2>3. 1 \in DOMAIN todo /\ Head(todo) = todo[1]
    BY <2>2
  <2>4. Head(todo) \in Printed
    BY <2>3 DEF IInv, Phase
  <2>5. ~misplaced => Outbound!Give(Head(todo))
    BY <2>1 DEF Outbound!Give
  <2>6. ~misplaced => Outbound!Next
    BY <2>4, <2>5 DEF Outbound!Next
  <2> QED
    BY <1>2, <2>1, <2>6 DEF OutboundStep
<1>11. CASE Transmit
  <2>1. misplaced' = misplaced
    BY <1>11 DEF Transmit
  <2> QED
    BY <1>2, <1>11, <2>1, TransmitHears DEF OutboundStep, Outbound!Next
<1>12. CASE UNCHANGED vars
  BY <1>1, <1>12 DEF vars
<1> QED
  BY <1>3, <1>4, <1>5, <1>6, <1>7, <1>8, <1>9, <1>10, <1>11, <1>12
     DEF Next, Driver

(* What the client hears is a prefix of what this connection printed, as   *)
(* long as every write() is told where the last one ended: write(), the    *)
(* chip's pointers and its buffer add no other flaw.                       *)
THEOREM OutboundRefinement == Spec => OutboundSpec
<1>1. Init => Outbound!Init
  BY DEF Init, Outbound!Init
<1>2. IInv /\ [Next]_vars => [Outbound!Next]_(Outbound!vars)
  BY StepOutbound DEF OutboundStep
<1> QED
  BY <1>1, <1>2, Invariance, PTL DEF Spec, OutboundSpec, Outbound!Spec

=============================================================================
