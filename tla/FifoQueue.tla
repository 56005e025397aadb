------------------------------ MODULE FifoQueue ------------------------------
(***************************************************************************)
(* What a receive ring of the picoHSM promises to the code that reads it:  *)
(* a bounded FIFO queue.  A received byte waits in the data register dr    *)
(* until the receive interrupt takes it; the interrupt stores it at the    *)
(* end of the queue, or discards it, and may discard it only when the      *)
(* queue is full or while the reader is flushing.  The reader takes the    *)
(* oldest byte, or flushes the queue.                                      *)
(***************************************************************************)
EXTENDS Naturals, Sequences

CONSTANTS
  Byte,       \* the values a received byte may have
  NoByte,     \* "the data register is empty", "nothing delivered yet"
  Capacity    \* how many bytes the queue may hold

VARIABLES
  dr,         \* the byte waiting in the UART's data register
  queue,      \* the bytes received and not yet delivered, oldest first
  delivered,  \* the byte the last read returned
  flushing    \* a flush has begun and is not complete

vars == <<dr, queue, delivered, flushing>>

-----------------------------------------------------------------------------

Init ==
  /\ dr = NoByte
  /\ queue = << >>
  /\ delivered = NoByte
  /\ flushing = FALSE

Arrive(b) ==
  /\ dr = NoByte
  /\ dr' = b
  /\ UNCHANGED <<queue, delivered, flushing>>

Store ==
  /\ dr # NoByte
  /\ Len(queue) < Capacity
  /\ queue' = Append(queue, dr)
  /\ dr' = NoByte
  /\ UNCHANGED <<delivered, flushing>>

Discard ==
  /\ dr # NoByte
  /\ Len(queue) = Capacity \/ flushing
  /\ dr' = NoByte
  /\ UNCHANGED <<queue, delivered, flushing>>

Take ==
  /\ ~flushing
  /\ queue # << >>
  /\ delivered' = Head(queue)
  /\ queue' = Tail(queue)
  /\ UNCHANGED <<dr, flushing>>

FlushStart ==
  /\ ~flushing
  /\ queue' = << >>
  /\ flushing' = TRUE
  /\ UNCHANGED <<dr, delivered>>

(* Bytes that arrive while the flush is under way may be flushed as well.  *)
FlushAgain ==
  /\ flushing
  /\ queue' = << >>
  /\ UNCHANGED <<dr, delivered, flushing>>

FlushDone ==
  /\ flushing
  /\ flushing' = FALSE
  /\ UNCHANGED <<dr, queue, delivered>>

Next ==
  \/ \E b \in Byte : Arrive(b)
  \/ Store
  \/ Discard
  \/ Take
  \/ FlushStart
  \/ FlushAgain
  \/ FlushDone

Spec == Init /\ [][Next]_vars
=============================================================================
