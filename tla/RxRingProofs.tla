---------------------------- MODULE RxRingProofs ----------------------------
(***************************************************************************)
(* The receive ring is correct for every Size from 2 to 256 and every set  *)
(* of bytes: the invariants TLC checks on small rings, and that the ring   *)
(* implements FifoQueue.                                                   *)
(***************************************************************************)
EXTENDS RxRing, SequenceTheorems, TLAPS

(* The inductive invariant.  While flush() is between its two writes, the  *)
(* interrupt still compares with the old read, which keeps write from      *)
(* wrapping: this is what makes the bytes stored meanwhile a segment.      *)
IInv ==
  /\ TypeOK
  /\ FetchedIsOldest
  /\ FlushNeverWraps
  /\ Flushing => (read = 0 \/ write < read)
  /\ pc = "flush" => base = 0
  /\ pc = "size_wrapped" => write < read

-----------------------------------------------------------------------------
(* Index arithmetic.                                                       *)

(* next() goes to the following slot, and from the last one to slot 0.     *)
LEMMA NextIndex ==
  ASSUME NEW i \in Index
  PROVE  next(i) = IF i = Size - 1 THEN 0 ELSE i + 1
  BY SizeAssumption DEF Index, next

(* For the sizes the template is used with, the uint8_t in put() never     *)
(* truncates.                                                              *)
LEMMA WriteNextFits ==
  ASSUME write \in Index
  PROVE  write_next = IF write = Size - 1 THEN 0 ELSE write + 1
  <1>1. next(write) = IF write = Size - 1 THEN 0 ELSE write + 1
    BY NextIndex
  <1>2. next(write) \in 0..255
    BY <1>1, SizeAssumption DEF Index
  <1>. QED
    BY <1>1, <1>2 DEF write_next

-----------------------------------------------------------------------------
(* The invariant.                                                          *)

LEMMA InitIInv == Init => IInv
  <1>. SUFFICES ASSUME Init
                PROVE  IInv
    OBVIOUS
  <1>1. 0 \in Index /\ 0 \in 0..(Word - 1)
    BY SizeAssumption, WordAssumption DEF Index
  <1>2. TypeOK
    BY <1>1 DEF Init, TypeOK, Slots
  <1>. QED
    BY <1>2 DEF Init, IInv, FetchedIsOldest, FlushNeverWraps, Flushing

LEMMA NextIInv == IInv /\ [Next]_vars => IInv'
  <1>. SUFFICES ASSUME IInv, [Next]_vars
                PROVE  IInv'
    OBVIOUS
  <1>. USE SizeAssumption, WordAssumption, NoByteAssumption
       DEF IInv, FetchedIsOldest, FlushNeverWraps, Flushing
  <1>t. TypeOK
    OBVIOUS
  <1>1. ASSUME NEW b \in Byte, Arrive(b)
        PROVE  IInv'
    BY <1>t, <1>1 DEF Arrive, TypeOK, Slots
  <1>2. CASE Put
    <2>. USE <1>2 DEF Put
    <2>1. write_next = IF write = Size - 1 THEN 0 ELSE write + 1
      BY <1>t, WriteNextFits DEF TypeOK
    <2>2. TypeOK'
      BY <1>t, <2>1 DEF TypeOK, Index, Slots
    <2>3. FetchedIsOldest'
      BY <1>t DEF TypeOK
    <2>4. FlushNeverWraps' /\ (Flushing => (read = 0 \/ write < read))'
      BY <1>t, <2>1 DEF TypeOK, Index
    <2>5. (pc = "flush" => base = 0)'
      OBVIOUS
    <2>6. (pc = "size_wrapped" => write < read)'
      BY <1>t, <2>1 DEF TypeOK, Index
    <2>. QED
      BY <2>2, <2>3, <2>4, <2>5, <2>6
  <1>3. CASE PopFetch
    BY <1>t, <1>3 DEF PopFetch, TypeOK
  <1>4. CASE PopAdvance
    <2>1. next(read) \in Index
      BY <1>t, NextIndex DEF TypeOK, Index
    <2>. QED
      BY <1>t, <1>4, <2>1 DEF PopAdvance, TypeOK, Slots
  <1>5. CASE FlushWrite
    BY <1>t, <1>5 DEF FlushWrite, TypeOK, Index
  <1>6. CASE FlushReload
    BY <1>t, <1>6 DEF FlushReload, TypeOK, Index
  <1>7. CASE FlushRead
    BY <1>t, <1>7 DEF FlushRead, TypeOK, Index
  <1>8. CASE SizeCompare
    BY <1>t, <1>8 DEF SizeCompare, TypeOK, Index
  <1>9. CASE SizeReturn
    <2>1. ASSUME pc = "size_wrapped"
          PROVE  (Size - read) + write \in 0..(Word - 1)
      BY <1>t, <1>9, <2>1 DEF SizeReturn, TypeOK, Index
    <2>2. (write - read) % Word \in 0..(Word - 1)
      BY <1>t DEF TypeOK, Index
    <2>. QED
      BY <1>t, <1>9, <2>1, <2>2 DEF SizeReturn, TypeOK
  <1>10. CASE UNCHANGED vars
    BY <1>t, <1>10 DEF vars, TypeOK
  <1>. QED
    BY <1>1, <1>2, <1>3, <1>4, <1>5, <1>6, <1>7, <1>8, <1>9, <1>10 DEF Next

(* In every reachable state of a ring of any Size, the inductive invariant *)
(* holds: every index stays in the buffer, and size() and pop() return     *)
(* values of their types.                                                  *)
THEOREM Invariance == Spec => []IInv
  <1>1. Init => IInv
    BY InitIInv
  <1>2. IInv /\ [Next]_vars => IInv'
    BY NextIInv
  <1>. QED
    BY <1>1, <1>2, PTL DEF Spec

(* The variables of the ring of any Size keep their types.                 *)
THEOREM TypeCorrect == Spec => []TypeOK
  <1>1. IInv => TypeOK
    BY DEF IInv
  <1>. QED
    BY <1>1, Invariance, PTL

(* For every Size, the interrupt cannot touch the slot pop() has fetched   *)
(* and not yet freed.                                                      *)
THEOREM FetchedStaysOldest == Spec => []FetchedIsOldest
  <1>1. IInv => FetchedIsOldest
    BY DEF IInv
  <1>. QED
    BY <1>1, Invariance, PTL

(* For every Size, the bytes stored while flush() is under way form one    *)
(* segment of the buffer that does not wrap.                               *)
THEOREM FlushIsSegment == Spec => []FlushNeverWraps
  <1>1. IInv => FlushNeverWraps
    BY DEF IInv
  <1>. QED
    BY <1>1, Invariance, PTL

-----------------------------------------------------------------------------
(* The ring implements the FIFO queue.                                     *)

(* The queue has one byte for each slot from Start to write, and at most   *)
(* one byte less than the ring has slots.                                  *)
LEMMA QueueShape ==
  ASSUME IInv
  PROVE  /\ Start \in Index
         /\ Count \in 0..(Size - 1)
         /\ \A i \in 0..(Size - 1) : Slot(i) \in Index
         /\ Queue \in Seq(Slots)
         /\ Len(Queue) = Count
  <1>1. Start \in Index /\ write \in Index
    BY DEF IInv, TypeOK, Start
  <1>2. Count \in 0..(Size - 1)
    BY <1>1, SizeAssumption DEF Count, Distance, Index
  <1>3. ASSUME NEW i \in 0..(Size - 1)
        PROVE  Slot(i) \in Index
    BY <1>1, SizeAssumption DEF Slot, Index
  <1>4. ASSUME NEW i \in 1..Count
        PROVE  buffer[Slot(i - 1)] \in Slots
    <2>1. i - 1 \in 0..(Size - 1)
      BY <1>2, SizeAssumption
    <2>2. Slot(i - 1) \in Index
      BY <1>3, <2>1
    <2>. QED
      BY <2>2 DEF IInv, TypeOK
  <1>5. Queue \in [1..Count -> Slots]
    BY <1>4 DEF Queue
  <1>6. Queue \in Seq(Slots)
    BY <1>2, <1>5, SizeAssumption
  <1>7. Len(Queue) = Count
    BY <1>2, <1>6, SizeAssumption DEF Queue
  <1>. QED
    BY <1>1, <1>2, <1>3, <1>6, <1>7

(* A sequence is the function of its elements.                             *)
LEMMA SeqIsFunction ==
  ASSUME NEW S, NEW s \in Seq(S)
  PROVE  s = [i \in 1..Len(s) |-> s[i]]
  BY LenProperties

(* A step that moves none of the indices in use and none of the bytes      *)
(* leaves the queue as it is.                                              *)
LEMMA SameQueue ==
  ASSUME IInv, Start' = Start, write' = write, buffer' = buffer
  PROVE  Queue' = Queue
  BY DEF Queue, Slot, Count, Distance

(* put(): a stored byte goes to the end of the queue.                      *)
LEMMA StoreAppends ==
  ASSUME IInv, IInv', Put, write_next # read
  PROVE  /\ Queue' = Append(Queue, dr)
         /\ Len(Queue) < Size - 1
  <1>. USE SizeAssumption
  <1>t. TypeOK
    BY DEF IInv
  <1>1. write_next = IF write = Size - 1 THEN 0 ELSE write + 1
    BY <1>t, WriteNextFits DEF TypeOK
  <1>2. /\ Start' = Start
        /\ write' = write_next
        /\ buffer' = [buffer EXCEPT ![write] = dr]
    BY DEF Put, Start, Flushing
  <1>s. /\ Queue \in Seq(Slots)
        /\ Len(Queue) = Count
        /\ \A i \in 0..(Size - 1) : Slot(i) \in Index
    BY QueueShape
  <1>3. /\ Start \in Index
        /\ write \in Index
        /\ Count \in 0..(Size - 1)
    BY <1>t, QueueShape DEF TypeOK
  <1>4. ASSUME Flushing
        PROVE  Start <= write /\ write_next = write + 1
    <2>1. Start = base /\ base <= write /\ (read = 0 \/ write < read)
      BY <1>4 DEF IInv, FlushNeverWraps, Start
    <2>2. write # Size - 1
      BY <1>t, <1>1, <2>1 DEF TypeOK, Index
    <2>. QED
      BY <1>1, <2>1, <2>2
  <1>5. ~Flushing => Start = read
    BY DEF Start
  <1>6. Count < Size - 1 /\ Count' = Count + 1
    <2>1. CASE write = Size - 1
      <3>1. Start = read /\ write_next = 0 /\ read # 0
        BY <1>1, <1>3, <1>4, <1>5, <2>1 DEF Index
      <3>. QED
        BY <1>2, <1>3, <2>1, <3>1 DEF Count, Distance, Index
    <2>2. CASE write # Size - 1
      <3>1. write_next = write + 1 /\ Start # write + 1
        BY <1>1, <1>3, <1>4, <1>5, <2>2 DEF Index
      <3>. QED
        BY <1>2, <1>3, <2>2, <3>1 DEF Count, Distance, Index
    <2>. QED
      BY <2>1, <2>2
  <1>7. Slot(Count) = write
    BY <1>3 DEF Slot, Count, Distance, Index
  <1>8. ASSUME NEW i \in 0..(Count - 1)
        PROVE  Slot(i) # write
    BY <1>3, <1>8 DEF Slot, Count, Distance, Index
  <1>9. Queue' = [i \in 1..(Count + 1) |-> buffer'[Slot(i - 1)]]
    BY <1>2, <1>6 DEF Queue, Slot
  <1>10. ASSUME NEW i \in 1..(Count + 1)
         PROVE  buffer'[Slot(i - 1)] = Append(Queue, dr)[i]
    <2>1. CASE i = Count + 1
      <3>1. buffer'[Slot(i - 1)] = dr
        BY <1>2, <1>3, <1>7, <1>t, <2>1 DEF TypeOK
      <3>2. Append(Queue, dr)[i] = dr
        BY <1>s, <1>3, <2>1
      <3>. QED
        BY <3>1, <3>2
    <2>2. CASE i # Count + 1
      <3>1. i \in 1..Count /\ i - 1 \in 0..(Count - 1) /\ i - 1 \in 0..(Size - 1)
        BY <1>3, <1>6, <2>2
      <3>2. buffer'[Slot(i - 1)] = buffer[Slot(i - 1)]
        BY <1>2, <1>3, <1>s, <1>8, <1>t, <3>1 DEF TypeOK
      <3>3. Append(Queue, dr)[i] = Queue[i]
        BY <1>s, <1>3, <3>1
      <3>. QED
        BY <3>1, <3>2, <3>3 DEF Queue
    <2>. QED
      BY <2>1, <2>2
  <1>11. /\ Append(Queue, dr) \in Seq(Slots)
         /\ Len(Append(Queue, dr)) = Count + 1
    BY <1>s, <1>3, <1>t DEF TypeOK
  <1>12. Queue' = Append(Queue, dr)
    <2>1. Append(Queue, dr)
            = [i \in 1..(Count + 1) |-> Append(Queue, dr)[i]]
      BY <1>11, SeqIsFunction
    <2>2. Queue' = [i \in 1..(Count + 1) |-> Append(Queue, dr)[i]]
      BY <1>9, <1>10, Zenon
    <2>. QED
      BY <2>1, <2>2
  <1>. QED
    BY <1>s, <1>6, <1>12

(* pop(): the byte read is the head of the queue, the rest stays.          *)
LEMMA AdvanceTakes ==
  ASSUME IInv, PopAdvance
  PROVE  /\ Queue # << >>
         /\ value = Head(Queue)
         /\ Queue' = Tail(Queue)
  <1>. USE SizeAssumption
  <1>t. TypeOK
    BY DEF IInv
  <1>s. /\ Queue \in Seq(Slots)
        /\ Len(Queue) = Count
    BY QueueShape
  <1>1. /\ Start = read /\ Start' = next(read)
        /\ write' = write /\ buffer' = buffer
        /\ read # write
        /\ value = buffer[read]
    BY DEF PopAdvance, Start, Flushing, IInv, FetchedIsOldest
  <1>2. /\ read \in Index /\ write \in Index
        /\ Start' = IF read = Size - 1 THEN 0 ELSE read + 1
    BY <1>t, <1>1, NextIndex DEF TypeOK
  <1>3. Count \in 1..(Size - 1) /\ Count' = Count - 1
    BY <1>1, <1>2 DEF Count, Distance, Index
  <1>4. Queue # << >>
    BY <1>s, <1>3
  <1>5. Head(Queue) = value
    <2>1. Slot(0) = read
      BY <1>1, <1>2 DEF Slot, Index
    <2>2. Queue[1] = buffer[Slot(0)]
      BY <1>3 DEF Queue
    <2>. QED
      BY <1>s, <1>1, <1>4, <2>1, <2>2
  <1>6. /\ Tail(Queue) \in Seq(Slots)
        /\ Len(Tail(Queue)) = Count - 1
        /\ \A i \in 1..(Count - 1) : Tail(Queue)[i] = Queue[i + 1]
    BY <1>s, <1>4, HeadTailProperties
  <1>7. ASSUME NEW i \in 1..(Count - 1)
        PROVE  Slot(i - 1)' = Slot(i)
    BY <1>1, <1>2, <1>3 DEF Slot, Index
  <1>8. ASSUME NEW i \in 1..(Count - 1)
        PROVE  Queue'[i] = Tail(Queue)[i]
    <2>1. Queue'[i] = buffer[Slot(i - 1)']
      BY <1>1, <1>3 DEF Queue
    <2>2. Queue[i + 1] = buffer[Slot(i)]
      BY <1>3 DEF Queue
    <2>. QED
      BY <1>6, <1>7, <2>1, <2>2
  <1>9. Queue' = [i \in 1..(Count - 1) |-> Queue'[i]]
    BY <1>3 DEF Queue
  <1>10. Tail(Queue) = [i \in 1..(Count - 1) |-> Tail(Queue)[i]]
    BY <1>6, SeqIsFunction
  <1>11. Queue' = [i \in 1..(Count - 1) |-> Tail(Queue)[i]]
    BY <1>8, <1>9, Zenon
  <1>. QED
    BY <1>4, <1>5, <1>10, <1>11

(* An empty ring is an empty queue; the flush() steps make it empty.       *)
LEMMA EmptyQueue ==
  ASSUME Start = write, write \in Index
  PROVE  Queue = << >>
  <1>1. Count = 0
    BY SizeAssumption DEF Count, Distance, Index
  <1>. QED
    BY <1>1 DEF Queue

LEMMA EmptyQueueNext ==
  ASSUME Start' = write', write' \in Index
  PROVE  Queue' = << >>
  <1>1. Count' = 0
    <2>1. \A r \in Index : Distance(r, r) = 0
      BY SizeAssumption DEF Distance, Index
    <2>2. Count' = Distance(write', write')
      BY DEF Count
    <2>. QED
      BY <2>1, <2>2
  <1>. QED
    BY <1>1 DEF Queue

LEMMA RingInit == Init => Fifo!Init
  <1>. SUFFICES ASSUME Init
                PROVE  Fifo!Init
    OBVIOUS
  <1>1. Queue = << >>
    BY EmptyQueue, SizeAssumption DEF Init, Start, Flushing, Index
  <1>. QED
    BY <1>1 DEF Init, Fifo!Init, Flushing

(* put() is Store or Discard.                                              *)
LEMMA PutStep ==
  ASSUME IInv, IInv', Put
  PROVE  Fifo!Store \/ Fifo!Discard
  <1>. USE DEF Put
  <1>t. TypeOK
    BY DEF IInv
  <1>1. Flushing' = Flushing
    BY DEF Flushing
  <1>2. CASE write_next = read
    <2>1. Queue' = Queue
      BY <1>1, <1>2, SameQueue DEF Start
    <2>2. ASSUME ~Flushing
          PROVE  Len(Queue) = Size - 1
      <3>1. Start = read
        BY <2>2 DEF Start
      <3>2. write_next = IF write = Size - 1 THEN 0 ELSE write + 1
        BY <1>t, WriteNextFits DEF TypeOK
      <3>3. Count = Size - 1
        BY <1>2, <1>t, <3>1, <3>2, SizeAssumption
           DEF Count, Distance, TypeOK, Index
      <3>. QED
        BY <3>3, QueueShape
    <2>. QED
      BY <1>1, <1>2, <2>1, <2>2 DEF Fifo!Discard
  <1>3. CASE write_next # read
    BY <1>1, <1>3, StoreAppends DEF Fifo!Store
  <1>. QED
    BY <1>2, <1>3

(* Every step of the ring is a step of the queue, or leaves it unchanged.  *)
LEMMA RingStep == IInv /\ IInv' /\ [Next]_vars => [Fifo!Next]_(Fifo!vars)
  <1>. SUFFICES ASSUME IInv, IInv', [Next]_vars
                PROVE  Fifo!Next \/ UNCHANGED Fifo!vars
    OBVIOUS
  <1>t. TypeOK
    BY DEF IInv
  <1>1. ASSUME NEW b \in Byte, Arrive(b)
        PROVE  Fifo!Arrive(b)
    <2>1. Start' = Start /\ Flushing' = Flushing
      BY <1>1 DEF Arrive, Start, Flushing
    <2>2. Queue' = Queue
      BY <1>1, <2>1, SameQueue DEF Arrive
    <2>. QED
      BY <1>1, <2>1, <2>2 DEF Arrive, Fifo!Arrive
  <1>2. CASE Put
    BY <1>2, PutStep DEF Fifo!Next
  <1>3. CASE PopFetch
    <2>1. Start' = Start /\ Flushing' = Flushing
      BY <1>3 DEF PopFetch, Start, Flushing
    <2>2. Queue' = Queue
      BY <1>3, <2>1, SameQueue DEF PopFetch
    <2>. QED
      BY <1>3, <2>1, <2>2 DEF PopFetch, Fifo!vars
  <1>4. CASE PopAdvance
    <2>1. Flushing' = Flushing /\ ~Flushing
      BY <1>4 DEF PopAdvance, Flushing
    <2>2. Fifo!Take
      BY <1>4, <2>1, AdvanceTakes DEF PopAdvance, Fifo!Take
    <2>. QED
      BY <2>2 DEF Fifo!Next
  <1>5. CASE FlushWrite
    <2>1. ~Flushing /\ Flushing' = TRUE /\ Start' = write'
      BY <1>5 DEF FlushWrite, Flushing, Start
    <2>2. Queue' = << >>
      BY <1>5, <2>1, EmptyQueueNext, SizeAssumption DEF FlushWrite, Index
    <2>3. Fifo!FlushStart
      BY <1>5, <2>1, <2>2 DEF FlushWrite, Fifo!FlushStart
    <2>. QED
      BY <2>3 DEF Fifo!Next
  <1>6. CASE FlushReload
    <2>1. Flushing /\ Flushing' = TRUE /\ Flushing = TRUE /\ Start' = write'
      BY <1>6 DEF FlushReload, Flushing, Start
    <2>2. Queue' = << >>
      BY <1>6, <1>t, <2>1, EmptyQueueNext DEF FlushReload, TypeOK
    <2>3. Fifo!FlushAgain
      BY <1>6, <2>1, <2>2 DEF FlushReload, Fifo!FlushAgain
    <2>. QED
      BY <2>3 DEF Fifo!Next
  <1>7. CASE FlushRead
    <2>1. Flushing /\ Flushing' = FALSE
      BY <1>7 DEF FlushRead, Flushing
    <2>2. Start' = Start
      BY <1>7, <2>1 DEF FlushRead, Start
    <2>3. Queue' = Queue
      BY <1>7, <2>2, SameQueue DEF FlushRead
    <2>4. Fifo!FlushDone
      BY <1>7, <2>1, <2>3 DEF FlushRead, Fifo!FlushDone
    <2>. QED
      BY <2>4 DEF Fifo!Next
  <1>8. CASE SizeCompare
    <2>1. Start' = Start /\ Flushing' = Flushing
      BY <1>8 DEF SizeCompare, Start, Flushing
    <2>2. Queue' = Queue
      BY <1>8, <2>1, SameQueue DEF SizeCompare
    <2>. QED
      BY <1>8, <2>1, <2>2 DEF SizeCompare, Fifo!vars
  <1>9. CASE SizeReturn
    <2>1. Start' = Start /\ Flushing' = Flushing
      BY <1>9 DEF SizeReturn, Start, Flushing
    <2>2. Queue' = Queue
      BY <1>9, <2>1, SameQueue DEF SizeReturn
    <2>. QED
      BY <1>9, <2>1, <2>2 DEF SizeReturn, Fifo!vars
  <1>10. CASE UNCHANGED vars
    <2>1. Start' = Start /\ Flushing' = Flushing
      BY <1>10 DEF vars, Start, Flushing
    <2>2. Queue' = Queue
      BY <1>10, <2>1, SameQueue DEF vars
    <2>. QED
      BY <1>10, <2>1, <2>2 DEF vars, Fifo!vars
  <1>. QED
    BY <1>1, <1>2, <1>3, <1>4, <1>5, <1>6, <1>7, <1>8, <1>9, <1>10
       DEF Next, Fifo!Next

(* The ring of any Size implements a FIFO queue of Size - 1 bytes: bytes   *)
(* are delivered once and in order, and one is lost only to a full ring or *)
(* to a flush().                                                           *)
THEOREM RingIsFifo == Spec => FifoSpec
  <1>1. Init => Fifo!Init
    BY RingInit
  <1>2. IInv /\ IInv' /\ [Next]_vars => [Fifo!Next]_(Fifo!vars)
    BY RingStep
  <1>. QED
    BY <1>1, <1>2, Invariance, PTL DEF Spec, FifoSpec, Fifo!Spec

=============================================================================
