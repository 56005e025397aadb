------------------------------- MODULE RxRing -------------------------------
(***************************************************************************)
(* ring_buffer_t<Size> of the picoHSM's network MCU, with its two users:   *)
(* the receive interrupt of a USART, which calls put(), and the main       *)
(* context, which calls pop(), flush() and size() with the interrupt       *)
(* enabled.  An interrupt runs to its end before the main context          *)
(* resumes, so put() is one step.  The main context's operations are split *)
(* at their accesses to the volatile indices, where an interrupt may fall. *)
(* The security MCU's ring (firmware-sec/src/uart.cxx) is the same         *)
(* algorithm with Size = 64 and no flush().                                *)
(***************************************************************************)
EXTENDS Integers, Sequences

CONSTANTS
  Size,     \* template parameter: 256 in usart.cxx
  Byte,     \* the values a received byte may have
  NoByte,   \* "the data register is empty", "nothing read yet"
  Word      \* number of values of a uint32_t: 2^32 in the code

(* put() keeps the next index in a uint8_t: a larger ring would wrap at    *)
(* 256 whatever its Size.  A ring of one slot could hold no byte.          *)
ASSUME SizeAssumption == Size \in 2..256
ASSUME WordAssumption == Word \in Nat /\ Word > Size
ASSUME NoByteAssumption == NoByte \notin Byte

VARIABLES
  dr,         \* data register of the USART; NoByte: RXNE is not set
  buffer,
  write,
  read,
  pc,         \* where the main context is in a ring operation
  value,      \* pop(): the local variable of that name
  base,       \* flush(): what the inner assignment yields for `read`
  delivered,  \* what the last pop() returned
  available   \* what the last size() returned

vars == <<dr, buffer, write, read, pc, value, base, delivered, available>>

Index == 0..(Size - 1)

Slots == Byte \cup {NoByte}

TypeOK ==
  /\ dr \in Slots
  /\ buffer \in [Index -> Slots]
  /\ write \in Index
  /\ read \in Index
  /\ pc \in {"idle", "advance", "flush", "store", "size", "size_wrapped"}
  /\ value \in Slots
  /\ base \in Index
  /\ delivered \in Slots
  /\ available \in 0..(Word - 1)

-----------------------------------------------------------------------------
(* Index arithmetic.  Here and below, an operator whose comment begins     *)
(* with "Mutant" is no part of the specification: it is a plausible wrong  *)
(* version of the definition after it, which the properties must refute.   *)

(* Mutant: the wrap is forgotten.                                          *)
next_nowrap(current) == current + 1

next(current) == (current + 1) % Size

(* The value of `uint8_t write_next`.                                      *)
write_next == next(write) % 256

(* How many bytes there are from index r to index w.                       *)
Distance(r, w) == IF w >= r THEN w - r ELSE (Size - r) + w

-----------------------------------------------------------------------------

Init ==
  /\ dr = NoByte
  /\ buffer = [i \in Index |-> NoByte]
  /\ write = 0
  /\ read = 0
  /\ pc = "idle"
  /\ value = NoByte
  /\ base = 0
  /\ delivered = NoByte
  /\ available = 0

(* The line has shifted in a byte: RXNE is set and the interrupt pends.    *)
Arrive(b) ==
  /\ dr = NoByte
  /\ dr' = b
  /\ UNCHANGED <<buffer, write, read, pc, value, base, delivered, available>>

(* Mutant: the check for a full buffer is forgotten.                       *)
PutUnchecked ==
  /\ dr # NoByte
  /\ buffer' = [buffer EXCEPT ![write] = dr]
  /\ write' = write_next
  /\ dr' = NoByte
  /\ UNCHANGED <<read, pc, value, base, delivered, available>>

(* usart2_handler() calling put(usart2.dr).                                *)
Put ==
  /\ dr # NoByte
  /\ IF write_next = read
       THEN UNCHANGED <<buffer, write>>
       ELSE /\ buffer' = [buffer EXCEPT ![write] = dr]
            /\ write' = write_next
  /\ dr' = NoByte
  /\ UNCHANGED <<read, pc, value, base, delivered, available>>

(* pop(): wait for a byte and fetch it; the slot is freed a step later.    *)
PopFetch ==
  /\ pc = "idle"
  /\ read # write
  /\ value' = buffer[read]
  /\ pc' = "advance"
  /\ UNCHANGED <<dr, buffer, write, read, base, delivered, available>>

PopAdvance ==
  /\ pc = "advance"
  /\ read' = next(read)
  /\ delivered' = value
  /\ value' = NoByte
  /\ pc' = "idle"
  /\ UNCHANGED <<dr, buffer, write, base, available>>

(* flush() is `read = write = 0`: write is cleared first.  What read is    *)
(* given is the value of the inner assignment: 0, or, as write is volatile,*)
(* a fresh read of write (FlushReload), which an interrupt may have moved. *)
FlushWrite ==
  /\ pc = "idle"
  /\ write' = 0
  /\ base' = 0
  /\ pc' = "flush"
  /\ UNCHANGED <<dr, buffer, read, value, delivered, available>>

FlushReload ==
  /\ pc = "flush"
  /\ base' = write
  /\ pc' = "store"
  /\ UNCHANGED <<dr, buffer, write, read, value, delivered, available>>

(* Mutant: read keeps its value.                                           *)
FlushReadKeep ==
  /\ pc \in {"flush", "store"}
  /\ base' = 0
  /\ pc' = "idle"
  /\ UNCHANGED <<dr, buffer, write, read, value, delivered, available>>

FlushRead ==
  /\ pc \in {"flush", "store"}
  /\ read' = base
  /\ base' = 0
  /\ pc' = "idle"
  /\ UNCHANGED <<dr, buffer, write, value, delivered, available>>

(* size() reads write for the comparison and again for the result.         *)
SizeCompare ==
  /\ pc = "idle"
  /\ pc' = IF write >= read THEN "size" ELSE "size_wrapped"
  /\ UNCHANGED <<dr, buffer, write, read, value, base, delivered, available>>

SizeReturn ==
  /\ \/ /\ pc = "size"
        /\ available' = (write - read) % Word
     \/ /\ pc = "size_wrapped"
        /\ available' = (Size - read) + write
  /\ pc' = "idle"
  /\ UNCHANGED <<dr, buffer, write, read, value, base, delivered>>

Next ==
  \/ \E b \in Byte : Arrive(b)
  \/ Put
  \/ PopFetch
  \/ PopAdvance
  \/ FlushWrite
  \/ FlushReload
  \/ FlushRead
  \/ SizeCompare
  \/ SizeReturn

Spec == Init /\ [][Next]_vars

-----------------------------------------------------------------------------
(* The queue the ring stands for: the slots from where the reader is, or   *)
(* will be when its flush() ends, up to write.                             *)

Flushing == pc \in {"flush", "store"}

Start == IF Flushing THEN base ELSE read

Count == Distance(Start, write)

Slot(i) == IF Start + i < Size THEN Start + i ELSE (Start + i) - Size

Queue == [i \in 1..Count |-> buffer[Slot(i - 1)]]

Fifo == INSTANCE FifoQueue WITH
  Capacity <- Size - 1, queue <- Queue, flushing <- Flushing

(* The ring is a FIFO queue of Size - 1 bytes: whatever the interleaving   *)
(* of the interrupt's put() with pop(), flush() and size(), bytes are      *)
(* delivered once, in the order they came, and one is dropped only when    *)
(* the ring is full or being flushed.                                      *)
FifoSpec == Fifo!Spec

(* While pop() holds a fetched byte, the interrupt cannot overwrite or     *)
(* discard its slot: the byte pop() will return is still the oldest one.   *)
FetchedIsOldest ==
  pc = "advance" => read # write /\ value = buffer[read]

(* flush() clears write first: until read is cleared too, the interrupt    *)
(* may store at most up to the old read and never wraps, so the bytes it   *)
(* stores lie in [base, write).                                            *)
FlushNeverWraps == Flushing => base <= write
=============================================================================
