--------------------------- MODULE KeyboardProofs ---------------------------
(***************************************************************************)
(* The event ring of drivers/keyboard.c is correct for every capacity,     *)
(* every set of keys and every interleaving of interrupts.                 *)
(***************************************************************************)
EXTENDS Keyboard, SequenceTheorems, TLAPS

\* An index one lap or less past the end of the ring wraps once.
LEMMA Wrap ==
    ASSUME NEW x \in Int, 0 <= x, x < 2 * CAP
    PROVE  x % CAP = IF x < CAP THEN x ELSE x - CAP
<1>1. CASE x < CAP
  BY <1>1, CapAssumption, SMT
<1>2. CASE x >= CAP
  <2>1. x = CAP * 1 + (x - CAP) /\ x - CAP \in 0..(CAP - 1)
    BY <1>2, CapAssumption
  <2> QED BY <1>2, <2>1, CapAssumption, SMT
<1> QED BY <1>1, <1>2, CapAssumption

Lap(x) == IF x < CAP THEN x ELSE x - CAP

\* What Wrap says of the sums that index the ring.
LEMMA RingIndex ==
    ASSUME NEW t \in 0..(CAP - 1)
    PROVE  /\ Step(t) = Lap(t + 1) /\ Step(t) \in 0..(CAP - 1)
           /\ \A i \in 0..CAP : (t + i) % CAP = Lap(t + i) /\ (t + i) % CAP \in 0..(CAP - 1)
<1>1. \A i \in 0..CAP : (t + i) % CAP = Lap(t + i)
  <2> TAKE i \in 0..CAP
  <2>1. t + i \in Int /\ 0 <= t + i /\ t + i < 2 * CAP
    BY CapAssumption
  <2> QED BY <2>1, Wrap DEF Lap
<1>2. \A i \in 0..CAP : Lap(t + i) \in 0..(CAP - 1)
  BY CapAssumption DEF Lap
<1>3. 1 \in 0..CAP
  BY CapAssumption
<1> QED BY <1>1, <1>2, <1>3 DEF Step

\* Moving the tail one slot on moves every later slot one place nearer.
LEMMA NextSlot ==
    ASSUME NEW t \in 0..(CAP - 1), NEW i \in 0..(CAP - 1)
    PROVE  (Step(t) + i) % CAP = (t + (i + 1)) % CAP
<1>1. i \in 0..CAP /\ i + 1 \in 0..CAP
  BY CapAssumption
<1>2. /\ Step(t) = Lap(t + 1) /\ Step(t) \in 0..(CAP - 1)
      /\ (t + (i + 1)) % CAP = Lap(t + (i + 1))
  BY <1>1, RingIndex
<1>3. (Step(t) + i) % CAP = Lap(Step(t) + i)
  BY <1>1, <1>2, RingIndex
<1>4. CASE t = CAP - 1
  <2>1. Step(t) = 0
    BY <1>2, <1>4, CapAssumption DEF Lap
  <2>2. Lap(0 + i) = Lap(t + (i + 1))
    BY <1>4, CapAssumption DEF Lap
  <2> QED BY <1>2, <1>3, <2>1, <2>2
<1>5. CASE t # CAP - 1
  <2>1. Step(t) = t + 1
    BY <1>2, <1>5, CapAssumption DEF Lap
  <2>2. (t + 1) + i = t + (i + 1)
    OBVIOUS
  <2> QED BY <1>2, <1>3, <2>1, <2>2
<1> QED BY <1>4, <1>5

\* A scancode byte becomes an event, whatever the shift state.
LEMMA PackIsEvent ==
    ASSUME NEW scancode \in Scancodes, NEW shift \in BOOLEAN, NEW pressed \in BOOLEAN
    PROVE  kbd_event_pack(scancode, Keycode(scancode, shift), pressed) \in Events
BY DEF kbd_event_pack, Keycode, Events, Keycodes

Inv == TypeOK /\ RingInv /\ FlagsInv

LEMMA InitInv == Init => Inv
<1> SUFFICES ASSUME Init PROVE Inv
  OBVIOUS
<1> USE DEF Init, init_keyboard
<1>1. 0 \in 0..(CAP - 1) /\ 0 \in 0..CAP
  BY CapAssumption
<1>2. wire \in Seq(Bytes)
  BY EmptySeq
<1>3. TypeOK
  BY <1>1, <1>2 DEF TypeOK, Pcs
<1>4. RingInv
  BY <1>1, RingIndex, CapAssumption DEF RingInv, Waiting, First, Lap
<1>5. FlagsInv
  BY DEF FlagsInv
<1> QED BY <1>3, <1>4, <1>5 DEF Inv

\* The keyboard's own steps, the byte it puts on the wire aside, leave the driver
\* alone.
LEMMA SendInv ==
    ASSUME Inv, NEW bytes \in Seq(Bytes), Send(bytes), down' \in SUBSET Keys
    PROVE  Inv'
<1>1. wire' \in Seq(Bytes)
  BY ConcatProperties DEF Inv, TypeOK, Send
<1> QED BY <1>1 DEF Inv, TypeOK, RingInv, FlagsInv, Waiting, First, Send, ring, shifts, cpu

\* Putting an event in the ring keeps it well formed, full or not.
LEMMA EnqueueInv ==
    ASSUME Inv, pc = "caller", NEW e \in Events, Enqueue(e)
    PROVE  /\ queue' \in [0..(CAP - 1) -> Events \cup {NoEvent}]
           /\ head' \in 0..(CAP - 1) /\ tail' \in 0..(CAP - 1) /\ size' \in 0..CAP
           /\ head' = (tail' + size') % CAP
           /\ \A i \in 0..(CAP - 1) : i < size' => queue'[(tail' + i) % CAP] \in Events
<1> USE DEF Inv, TypeOK
<1>1. /\ head = (tail + size) % CAP
      /\ \A i \in 0..(CAP - 1) : i < size => queue[(tail + i) % CAP] \in Events
  BY DEF RingInv, Waiting, First
<1>2. /\ queue' \in [0..(CAP - 1) -> Events \cup {NoEvent}]
      /\ queue'[head] = e
      /\ \A j \in 0..(CAP - 1) : j # head => queue'[j] = queue[j]
  BY DEF Enqueue
<1>3. head' = Lap(head + 1) /\ head' \in 0..(CAP - 1)
  BY RingIndex DEF Enqueue
<1>4. tail' = (IF size = CAP THEN Lap(tail + 1) ELSE tail) /\ tail' \in 0..(CAP - 1)
  BY RingIndex DEF Enqueue
<1>5. size' = (IF size = CAP THEN CAP ELSE size + 1) /\ size' \in 0..CAP
  BY CapAssumption DEF Enqueue
<1>6. head = Lap(tail + size)
  BY <1>1, RingIndex
<1>7. \A i \in 0..CAP : (tail' + i) % CAP = Lap(tail' + i) /\ (tail + i) % CAP = Lap(tail + i)
  BY <1>4, RingIndex
<1>8. head' = Lap(tail' + size')
  BY <1>3, <1>4, <1>5, <1>6, CapAssumption DEF Lap
<1>9. ASSUME NEW i \in 0..(CAP - 1), i < size'
      PROVE  queue'[Lap(tail' + i)] \in Events
  <2>1. CASE Lap(tail' + i) = head
    BY <2>1, <1>2
  <2>2. CASE Lap(tail' + i) # head
    <3>1. Lap(tail' + i) \in 0..(CAP - 1)
      BY <1>4, CapAssumption DEF Lap
    <3>2. \E k \in 0..(CAP - 1) : k < size /\ Lap(tail' + i) = Lap(tail + k)
      <4>1. CASE size = CAP
        <5>1. i + 1 \in 0..(CAP - 1)
          BY <4>1, <2>2, <1>4, <1>6, <1>9, CapAssumption DEF Lap
        <5>2. Lap(tail' + i) = Lap(tail + (i + 1))
          BY <4>1, <5>1, <1>4, CapAssumption DEF Lap
        <5>3. i + 1 < size
          BY <4>1, <5>1, CapAssumption
        <5> QED BY <5>1, <5>2, <5>3
      <4>2. CASE size # CAP
        <5>1. i < size
          BY <4>2, <2>2, <1>4, <1>5, <1>6, <1>9, CapAssumption DEF Lap
        <5> QED BY <4>2, <5>1, <1>4
      <4> QED BY <4>1, <4>2
    <3>3. PICK k \in 0..(CAP - 1) : k < size /\ Lap(tail' + i) = Lap(tail + k)
      BY <3>2
    <3>4. (tail + k) % CAP = Lap(tail' + i) /\ queue[(tail + k) % CAP] \in Events
      <4>1. k \in 0..CAP
        BY CapAssumption
      <4>2. (tail + k) % CAP = Lap(tail + k)
        BY <4>1, <1>7
      <4> QED BY <4>2, <3>3, <1>1
    <3> QED BY <3>1, <3>4, <2>2, <1>2
  <2> QED BY <2>1, <2>2
<1>10. \A i \in 0..(CAP - 1) : i < size' => queue'[(tail' + i) % CAP] \in Events
  BY <1>7, <1>9, CapAssumption
<1>11. head' = (tail' + size') % CAP
  BY <1>5, <1>7, <1>8
<1> QED BY <1>2, <1>3, <1>4, <1>5, <1>10, <1>11

\* Handling a byte: it leaves the wire and, unless it is a prefix, is recorded.
LEMMA InterruptInv == Inv /\ interrupt_handler => Inv'
<1> SUFFICES ASSUME Inv, interrupt_handler PROVE Inv'
  OBVIOUS
<1> USE DEF Inv
<1>1. wire \in Seq(Bytes) /\ wire # <<>>
  BY DEF TypeOK, interrupt_handler
<1>2. Head(wire) \in Bytes /\ wire' \in Seq(Bytes)
  BY <1>1, HeadTailProperties DEF interrupt_handler
<1>3. pc = "caller" /\ pc' = pc /\ ret' = ret /\ eflags' = eflags
      /\ intEnabled' = intEnabled /\ event' = event /\ down' = down
  BY DEF FlagsInv, interrupt_handler, cpu
<1>4. FlagsInv'
  BY <1>3 DEF FlagsInv
<1>5. CASE Head(wire) \in Prefixes
  BY <1>2, <1>3, <1>4, <1>5
     DEF TypeOK, RingInv, Waiting, First, interrupt_handler, ring, shifts
<1>6. CASE Head(wire) \notin Prefixes
  <2> DEFINE scancode == Head(wire)[1]  pressed == Head(wire)[2]
             e == kbd_event_pack(scancode, Keycode(scancode, shift_pressed'), pressed)
  <2>1. scancode \in Scancodes /\ pressed \in BOOLEAN
    BY <1>2, <1>6 DEF Bytes
  <2>2. UpdateShift(scancode, pressed) /\ Enqueue(e)
    BY <1>6 DEF interrupt_handler, HandleByte
  <2>3. /\ left_shift_pressed' \in BOOLEAN /\ right_shift_pressed' \in BOOLEAN
        /\ shift_pressed' \in BOOLEAN
    BY <2>1, <2>2 DEF UpdateShift, TypeOK
  <2>4. e \in Events
    BY <2>1, <2>3, PackIsEvent
  <2>5. /\ queue' \in [0..(CAP - 1) -> Events \cup {NoEvent}]
        /\ head' \in 0..(CAP - 1) /\ tail' \in 0..(CAP - 1) /\ size' \in 0..CAP
        /\ head' = (tail' + size') % CAP
        /\ \A i \in 0..(CAP - 1) : i < size' => queue'[(tail' + i) % CAP] \in Events
    BY <1>3, <2>2, <2>4, EnqueueInv
  <2>6. TypeOK'
    BY <1>2, <1>3, <2>3, <2>5 DEF TypeOK
  <2>7. RingInv'
    BY <1>3, <2>5 DEF RingInv, Waiting, First
  <2> QED BY <1>4, <2>6, <2>7
<1> QED BY <1>5, <1>6

\* The steps of the two operations and of the exception path.
LEMMA OperationInv ==
    Inv /\ (EnterException \/ killproc_sti \/ kbd_pop_event \/ kbd_clear_buffer \/ Restore)
    => Inv'
<1> SUFFICES ASSUME Inv,
                    EnterException \/ killproc_sti \/ kbd_pop_event \/ kbd_clear_buffer
                    \/ Restore
             PROVE  Inv'
  OBVIOUS
<1> USE DEF Inv, TypeOK, FlagsInv, RingInv, Waiting, First, Pcs, ring, shifts, keyboard,
        Elsewhere
<1>0. /\ Step(tail) = Lap(tail + 1) /\ Step(tail) \in 0..(CAP - 1)
      /\ \A i \in 0..CAP : (tail + i) % CAP = Lap(tail + i)
      /\ \A i \in 0..CAP : (Step(tail) + i) % CAP = Lap(Step(tail) + i)
  BY RingIndex
<1>1. CASE EnterException
  BY <1>1 DEF EnterException
<1>2. CASE killproc_sti
  BY <1>2 DEF killproc_sti
<1>3. CASE PopCall
  BY <1>3 DEF PopCall, irq_save_disable
<1>4. CASE PopCheck
  BY <1>4 DEF PopCheck
<1>5. CASE PopRead
  <2>1. pc = "pop_read" /\ pc' = "pop_advance" /\ event' = queue[tail] /\ size > 0
        /\ UNCHANGED <<ring, Elsewhere>>
    BY <1>5 DEF PopRead
  <2>2. head = (tail + size) % CAP
    BY <2>1
  <2>3. ASSUME NEW i \in 0..(CAP - 1), i < size - 1
        PROVE  queue[(Step(tail) + i) % CAP] \in Events
    <3>1. i + 1 \in 0..(CAP - 1) /\ i + 1 < size /\ i \in 0..CAP /\ i + 1 \in 0..CAP
      BY <2>3, CapAssumption, SMTT(30)
    <3>2. (Step(tail) + i) % CAP = (tail + (i + 1)) % CAP
      BY <3>1, NextSlot
    <3> QED BY <2>1, <3>1, <3>2
  <2>4. TypeOK' /\ FlagsInv'
    BY <2>1
  <2>5. RingInv'
    BY <2>1, <2>2, <2>3, CapAssumption
  <2> QED BY <2>4, <2>5
<1>6. CASE PopAdvance
  <2>1. pc = "pop_advance" /\ pc' = "pop_shrink" /\ tail' = Step(tail) /\ size > 0
        /\ UNCHANGED <<queue, head, size, event, Elsewhere>>
    BY <1>6 DEF PopAdvance
  <2>2. head = (tail' + size - 1) % CAP
    <3>1. head = (tail + size) % CAP
      BY <2>1
    <3>2. size - 1 \in 0..(CAP - 1) /\ (size - 1) + 1 = size
      BY <2>1, CapAssumption
    <3>3. (Step(tail) + (size - 1)) % CAP = (tail + size) % CAP
      BY <3>2, NextSlot
    <3>4. tail' + (size - 1) = tail' + size - 1
      BY <2>1, <1>0, CapAssumption
    <3> QED BY <2>1, <3>1, <3>3, <3>4
  <2>3. TypeOK' /\ FlagsInv'
    BY <2>1, <1>0
  <2>4. RingInv'
    BY <2>1, <2>2
  <2> QED BY <2>3, <2>4
<1>7. CASE PopShrink
  <2>1. pc = "pop_shrink" /\ pc' = "restore" /\ size' = size - 1 /\ size > 0
        /\ UNCHANGED <<queue, head, tail, event, Elsewhere>>
    BY <1>7 DEF PopShrink
  <2>2. head = (tail + size') % CAP
    <3>1. tail + size - 1 = tail + size'
      BY <2>1, CapAssumption
    <3> QED BY <2>1, <3>1
  <2>3. TypeOK' /\ FlagsInv'
    BY <2>1, CapAssumption
  <2>4. RingInv'
    BY <2>1, <2>2
  <2> QED BY <2>3, <2>4
<1>8. CASE Restore
  BY <1>8 DEF Restore, irq_restore
<1>9. CASE ClearCall
  BY <1>9 DEF ClearCall, irq_save_disable
<1>10. CASE ClearHead
  BY <1>10, CapAssumption DEF ClearHead
<1>11. CASE ClearTail
  BY <1>11, CapAssumption DEF ClearTail
<1>12. CASE ClearSize
  BY <1>12, CapAssumption DEF ClearSize
<1> QED BY <1>1, <1>2, <1>3, <1>4, <1>5, <1>6, <1>7, <1>8, <1>9, <1>10, <1>11, <1>12
        DEF kbd_pop_event, kbd_clear_buffer

LEMMA NextInv == Inv /\ [Next]_vars => Inv'
<1> SUFFICES ASSUME Inv, [Next]_vars PROVE Inv'
  OBVIOUS
<1>1. CASE \E k \in Keys : Press(k) \/ Release(k)
  <2> PICK k \in Keys : Press(k) \/ Release(k)
    BY <1>1
  <2>1. Codes[k][TRUE] \in Seq(Bytes) /\ Codes[k][FALSE] \in Seq(Bytes)
    BY WireAssumption
  <2>2. down \cup {k} \in SUBSET Keys /\ down \ {k} \in SUBSET Keys
    BY DEF Inv, TypeOK
  <2> QED BY <2>1, <2>2, SendInv DEF Press, Release
<1>2. CASE interrupt_handler
  BY <1>2, InterruptInv
<1>3. CASE EnterException \/ killproc_sti \/ kbd_pop_event \/ kbd_clear_buffer \/ Restore
  BY <1>3, OperationInv
<1>4. CASE UNCHANGED vars
  BY <1>4 DEF vars, Inv, TypeOK, RingInv, FlagsInv, Waiting, First
<1> QED BY <1>1, <1>2, <1>3, <1>4 DEF Next

THEOREM Invariance == Spec => []Inv
<1> QED BY InitInv, NextInv, PTL DEF Spec

\* The ring indices never leave the array and the count never exceeds the
\* capacity, whatever interrupts whatever.
THEOREM TypeCorrect == Spec => []TypeOK
<1>1. Inv => TypeOK
  BY DEF Inv
<1> QED BY <1>1, Invariance, PTL

\* An interrupt always finds head, tail and size in agreement and an event in
\* every slot between them.
THEOREM RingIsConsistent == Spec => []RingConsistent
<1>1. Inv => RingConsistent
  BY DEF Inv, RingInv, FlagsInv, RingConsistent, Waiting, First
<1> QED BY <1>1, Invariance, PTL

\* irq_save_disable and irq_restore give each caller its IF back.
THEOREM IFIsKept == Spec => []CallerKeepsIF
<1>1. Inv => CallerKeepsIF
  BY DEF Inv, FlagsInv, CallerKeepsIF
<1> QED BY <1>1, Invariance, PTL

-----------------------------------------------------------------------------
(* The ring implements the event log.                                       *)

PendingShape ==
    /\ Waiting \in 0..CAP
    /\ Pending \in Seq(Events) /\ Len(Pending) = Waiting
    /\ \A i \in 1..Waiting : Pending[i] = queue[(First + i - 1) % CAP]

LEMMA PendingIsSeq == Inv => PendingShape
<1> SUFFICES ASSUME Inv PROVE PendingShape
  OBVIOUS
<1> USE DEF Inv, TypeOK
<1>1. Waiting \in 0..CAP
  BY CapAssumption DEF RingInv, Waiting
<1>2. ASSUME NEW i \in 1..Waiting
      PROVE  queue[(First + i - 1) % CAP] \in Events
  <2>1. i - 1 \in 0..(CAP - 1) /\ i - 1 < Waiting
    BY <1>1, CapAssumption
  <2>2. First \in Int
    BY RingIndex DEF First
  <2>3. First + (i - 1) = First + i - 1
    BY <2>2
  <2> QED BY <2>1, <2>3 DEF RingInv
<1>3. Pending \in [1..Waiting -> Events]
  BY <1>2 DEF Pending
<1> QED BY <1>1, <1>3, LenProperties, SeqDef DEF Pending, PendingShape

\* Two places less than a lap apart are different slots.
LEMMA SlotsDiffer ==
    ASSUME NEW t \in 0..(CAP - 1), NEW i \in 0..(CAP - 1), NEW j \in 0..CAP,
           i < j, j - i < CAP
    PROVE  (t + i) % CAP # (t + j) % CAP
<1>1. i \in 0..CAP
  BY CapAssumption
<1>2. (t + i) % CAP = Lap(t + i) /\ (t + j) % CAP = Lap(t + j)
  BY <1>1, RingIndex
<1> QED BY <1>2, CapAssumption DEF Lap

\* What Enqueue does to the ring is what Put does to the log.
LEMMA EnqueuePuts ==
    ASSUME Inv, Inv', pc = "caller", pc' = "caller", event' = event,
           NEW e \in Events, Enqueue(e)
    PROVE  Log!Put(e)
<1> USE DEF Inv, TypeOK
<1>1. PendingShape /\ PendingShape'
  <2>1. PendingShape
    BY PendingIsSeq
  <2>2. PendingShape'
    BY PendingIsSeq, PTL
  <2> QED BY <2>1, <2>2
<1>2. Waiting = size /\ First = tail /\ Waiting' = size' /\ First' = tail'
  BY DEF Waiting, First
<1> DEFINE kept == IF Len(Pending) = CAP THEN Tail(Pending) ELSE Pending
           put == Append(kept, e)
<1>3. /\ queue'[head] = e
      /\ \A j \in 0..(CAP - 1) : j # head => queue'[j] = queue[j]
      /\ head = (tail + size) % CAP
  BY DEF Enqueue, RingInv
<1>4. \A i \in 0..CAP : (tail + i) % CAP \in 0..(CAP - 1)
  BY RingIndex
<1>5. CASE size = CAP
  <2>1. size' = CAP /\ tail' = Step(tail)
    BY <1>5 DEF Enqueue
  <2>2. Pending # <<>> /\ kept = Tail(Pending)
    BY <1>1, <1>2, <1>5, CapAssumption, EmptySeq DEF PendingShape
  <2>3. kept \in Seq(Events) /\ Len(kept) = CAP - 1
        /\ \A i \in 1..(CAP - 1) : kept[i] = Pending[i + 1]
    BY <1>1, <1>2, <1>5, <2>2, HeadTailProperties DEF PendingShape
  <2>4. put \in Seq(Events) /\ Len(put) = CAP
        /\ (\A i \in 1..(CAP - 1) : put[i] = kept[i]) /\ put[CAP] = e
    BY <2>3, AppendProperties, CapAssumption
  <2>5. ASSUME NEW i \in 1..CAP
        PROVE  Pending'[i] = put[i]
    <3>1. i - 1 \in 0..(CAP - 1) /\ (i - 1) + 1 = i /\ tail' + (i - 1) = tail' + i - 1
      BY CapAssumption
    <3>2. (tail' + i - 1) % CAP = (tail + i) % CAP
      BY <2>1, <3>1, NextSlot
    <3>3. Pending'[i] = queue'[(tail + i) % CAP]
      BY <1>1, <1>2, <2>1, <3>2 DEF PendingShape
    <3>4. CASE i = CAP
      BY <3>3, <3>4, <1>3, <1>5, <2>4
    <3>5. CASE i # CAP
      <4>1. i \in 0..(CAP - 1) /\ i < CAP /\ CAP - i < CAP /\ CAP \in 0..CAP
            /\ i + 1 \in 1..CAP /\ i \in 1..(CAP - 1)
        BY <3>5, CapAssumption
      <4>2. (tail + i) % CAP # head
        BY <4>1, <1>3, <1>5, SlotsDiffer
      <4>3. Pending[i + 1] = queue[(tail + i) % CAP]
        <5>1. tail + (i + 1) - 1 = tail + i
          BY <4>1, CapAssumption
        <5> QED BY <4>1, <5>1, <1>1, <1>2, <1>5 DEF PendingShape
      <4>4. (tail + i) % CAP \in 0..(CAP - 1)
        BY <1>4
      <4>5. Pending'[i] = queue[(tail + i) % CAP]
        BY <4>2, <4>4, <3>3, <1>3
      <4>6. put[i] = Pending[i + 1]
        BY <4>1, <2>3, <2>4
      <4> QED BY <4>3, <4>5, <4>6
    <3> QED BY <3>4, <3>5
  <2>6. Pending' \in Seq(Events) /\ Len(Pending') = CAP
    BY <1>1, <1>2, <2>1 DEF PendingShape
  <2>7. Pending' = put
    BY <2>4, <2>5, <2>6, SeqEqual
  <2> QED BY <2>7 DEF Log!Put
<1>6. CASE size # CAP
  <2>1. size' = size + 1 /\ tail' = tail /\ size \in 0..(CAP - 1)
    BY <1>6, CapAssumption DEF Enqueue
  <2>2. kept = Pending
    BY <1>1, <1>2, <1>6 DEF PendingShape
  <2>3. put \in Seq(Events) /\ Len(put) = size + 1
        /\ (\A i \in 1..size : put[i] = Pending[i]) /\ put[size + 1] = e
    BY <1>1, <1>2, <2>2, AppendProperties DEF PendingShape
  <2>4. ASSUME NEW i \in 1..(size + 1)
        PROVE  Pending'[i] = put[i]
    <3>1. i - 1 \in 0..(CAP - 1) /\ tail + (i - 1) = tail + i - 1 /\ i - 1 \in 0..CAP
      BY <2>1, CapAssumption
    <3>2. Pending'[i] = queue'[(tail + (i - 1)) % CAP]
      BY <1>1, <1>2, <2>1, <3>1 DEF PendingShape
    <3>3. CASE i = size + 1
      <4>1. i - 1 = size
        BY <3>3, <2>1, CapAssumption
      <4> QED BY <3>2, <3>3, <4>1, <1>3, <2>3
    <3>4. CASE i # size + 1
      <4>1. i \in 1..size /\ i - 1 < size /\ size - (i - 1) < CAP /\ size \in 0..CAP
        BY <3>4, <2>1, CapAssumption
      <4>2. (tail + (i - 1)) % CAP # head
        BY <4>1, <3>1, <1>3, SlotsDiffer
      <4>3. Pending'[i] = queue[(tail + (i - 1)) % CAP]
        BY <4>2, <3>1, <3>2, <1>3, <1>4
      <4>4. put[i] = queue[(tail + (i - 1)) % CAP]
        BY <4>1, <3>1, <1>1, <1>2, <2>3 DEF PendingShape
      <4> QED BY <4>3, <4>4
    <3> QED BY <3>3, <3>4
  <2>5. Pending' \in Seq(Events) /\ Len(Pending') = size + 1
    BY <1>1, <1>2, <2>1 DEF PendingShape
  <2>6. Pending' = put
    BY <2>3, <2>4, <2>5, SeqEqual
  <2> QED BY <2>6 DEF Log!Put
<1> QED BY <1>5, <1>6

\* A step that moves neither end of the waiting events leaves the log alone.
LEMMA Unmoved ==
    ASSUME Waiting' = Waiting, First' = First, queue' = queue
    PROVE  Pending' = Pending
BY DEF Pending

Stutter == UNCHANGED <<Pending, event>>

\* Reading the slot at the tail takes the oldest event.
LEMMA PopTakes == Inv /\ Inv' /\ PopRead => Log!Take
<1> SUFFICES ASSUME Inv, Inv', PopRead PROVE Log!Take
  OBVIOUS
<1> USE DEF Inv, TypeOK
<1>1. PendingShape /\ PendingShape'
  <2>1. PendingShape
    BY PendingIsSeq
  <2>2. PendingShape'
    BY PendingIsSeq, PTL
  <2> QED BY <2>1, <2>2
<1>2. /\ pc = "pop_read" /\ pc' = "pop_advance" /\ event' = queue[tail]
      /\ queue' = queue /\ head' = head /\ tail' = tail /\ size' = size
  BY DEF PopRead, ring
<1>3. Waiting = size /\ First = tail /\ Waiting' = size - 1 /\ First' = Step(tail)
  BY <1>2 DEF Waiting, First
<1>4. size \in 1..CAP
  BY <1>2 DEF RingInv
<1>5. Len(Pending) = size /\ Pending \in Seq(Events) /\ Pending # <<>>
  BY <1>1, <1>3, <1>4, EmptySeq DEF PendingShape
<1>6. Head(Pending) = queue[tail]
  <2>1. Head(Pending) = Pending[1]
    BY <1>5
  <2>2. Pending[1] = queue[(tail + 1 - 1) % CAP]
    BY <1>1, <1>3, <1>4 DEF PendingShape
  <2>3. tail \in Int /\ 0 <= tail /\ tail < 2 * CAP /\ tail < CAP /\ tail + 1 - 1 = tail
    BY CapAssumption
  <2>4. tail % CAP = tail
    BY <2>3, Wrap
  <2> QED BY <2>1, <2>2, <2>3, <2>4
<1>7. Tail(Pending) \in Seq(Events) /\ Len(Tail(Pending)) = size - 1
      /\ \A i \in 1..(size - 1) : Tail(Pending)[i] = Pending[i + 1]
  BY <1>5, HeadTailProperties
<1>8. Pending' \in Seq(Events) /\ Len(Pending') = size - 1
  BY <1>1, <1>3 DEF PendingShape
<1>9. ASSUME NEW i \in 1..(size - 1)
      PROVE  Pending'[i] = Tail(Pending)[i]
  <2>1. i - 1 \in 0..(CAP - 1) /\ (i - 1) + 1 = i /\ i + 1 \in 1..size
    BY <1>4, CapAssumption
  <2>2. (Step(tail) + (i - 1)) % CAP = (tail + i) % CAP
    BY <2>1, NextSlot
  <2>3. Step(tail) + (i - 1) = Step(tail) + i - 1 /\ tail + (i + 1) - 1 = tail + i
    BY RingIndex
  <2>4. Pending'[i] = queue[(Step(tail) + i - 1) % CAP]
    BY <1>1, <1>2, <1>3 DEF PendingShape
  <2>5. Pending[i + 1] = queue[(tail + (i + 1) - 1) % CAP]
    BY <2>1, <1>1, <1>3 DEF PendingShape
  <2> QED BY <1>7, <2>2, <2>3, <2>4, <2>5
<1>10. Pending' = Tail(Pending)
  BY <1>7, <1>8, <1>9, SeqEqual
<1> QED BY <1>2, <1>5, <1>6, <1>10 DEF Log!Take

\* No event waits exactly when the log is empty.
LEMMA EmptyLog == Inv /\ Waiting = 0 => Pending = <<>>
<1> SUFFICES ASSUME Inv, Waiting = 0 PROVE Pending = <<>>
  OBVIOUS
<1>1. Pending \in Seq(Events) /\ Len(Pending) = 0
  BY PendingIsSeq DEF PendingShape
<1> QED BY <1>1, EmptySeq

LEMMA EmptyLogNext == (Inv /\ Waiting = 0)' => (Pending = <<>>)'
BY EmptyLog, PTL

\* The steps of the two operations: reading the empty ring, reading an event and
\* the first store of the clear act on the log, the others do not.
LEMMA OperationImplements ==
    Inv /\ Inv' /\ (EnterException \/ killproc_sti \/ kbd_pop_event \/ kbd_clear_buffer
                    \/ Restore)
    => Log!Next \/ Stutter
<1> SUFFICES ASSUME Inv, Inv',
                    EnterException \/ killproc_sti \/ kbd_pop_event \/ kbd_clear_buffer
                    \/ Restore
             PROVE  Log!Next \/ Stutter
  OBVIOUS
<1> USE DEF Inv, Stutter, Waiting, First, ring
<1>1. CASE EnterException
  BY <1>1, Unmoved DEF EnterException
<1>2. CASE killproc_sti
  BY <1>2, Unmoved DEF killproc_sti
<1>3. CASE PopCall
  BY <1>3, Unmoved DEF PopCall, irq_save_disable
<1>4. CASE PopCheck
  <2>1. Pending' = Pending
    BY <1>4, Unmoved DEF PopCheck
  <2>2. CASE size = 0
    <3>1. Pending = <<>>
      BY <1>4, <2>2, EmptyLog DEF PopCheck
    <3>2. event' = NoEvent
      BY <1>4, <2>2 DEF PopCheck
    <3> QED BY <2>1, <3>1, <3>2 DEF Log!TakeNothing, Log!Next
  <2>3. CASE size # 0
    BY <1>4, <2>1, <2>3 DEF PopCheck
  <2> QED BY <2>2, <2>3
<1>5. CASE PopRead
  BY <1>5, PopTakes DEF Log!Next
<1>6. CASE PopAdvance
  BY <1>6, Unmoved DEF PopAdvance
<1>7. CASE PopShrink
  BY <1>7, Unmoved DEF PopShrink
<1>8. CASE Restore
  BY <1>8, Unmoved DEF TypeOK, Restore, irq_restore
<1>9. CASE ClearCall
  BY <1>9, Unmoved DEF ClearCall, irq_save_disable
<1>10. CASE ClearHead
  <2>1. Waiting' = 0 /\ event' = event
    BY <1>10 DEF ClearHead
  <2>2. Pending' = <<>>
    BY <2>1, EmptyLogNext
  <2> QED BY <2>1, <2>2 DEF Log!Clear, Log!Next
<1>11. CASE ClearTail \/ ClearSize
  <2>1. Waiting = 0 /\ Waiting' = 0 /\ event' = event
    BY <1>11 DEF ClearTail, ClearSize
  <2>2. Pending = <<>>
    BY <2>1, EmptyLog
  <2>3. Pending' = <<>>
    BY <2>1, EmptyLogNext
  <2> QED BY <2>1, <2>2, <2>3
<1> QED BY <1>1, <1>2, <1>3, <1>4, <1>5, <1>6, <1>7, <1>8, <1>9, <1>10, <1>11
        DEF kbd_pop_event, kbd_clear_buffer

\* The interrupt handler puts one event in the log, or none for a prefix byte.
LEMMA InterruptImplements == Inv /\ Inv' /\ interrupt_handler => Log!Next \/ Stutter
<1> SUFFICES ASSUME Inv, Inv', interrupt_handler PROVE Log!Next \/ Stutter
  OBVIOUS
<1> USE DEF Inv
<1>1. pc = "caller" /\ pc' = "caller" /\ event' = event
  BY DEF FlagsInv, interrupt_handler, cpu
<1>2. CASE Head(wire) \in Prefixes
  <2>1. queue' = queue /\ tail' = tail /\ size' = size
    BY <1>2 DEF interrupt_handler, ring
  <2> QED BY <1>1, <2>1, Unmoved DEF Waiting, First, Stutter
<1>3. CASE Head(wire) \notin Prefixes
  <2> DEFINE scancode == Head(wire)[1]  pressed == Head(wire)[2]
             e == kbd_event_pack(scancode, Keycode(scancode, shift_pressed'), pressed)
  <2>1. Head(wire) \in Bytes
    BY HeadTailProperties DEF TypeOK, interrupt_handler
  <2>2. scancode \in Scancodes /\ pressed \in BOOLEAN /\ shift_pressed' \in BOOLEAN
    BY <1>3, <2>1 DEF Bytes, TypeOK
  <2>3. e \in Events
    BY <2>2, PackIsEvent
  <2>4. Enqueue(e)
    BY <1>3 DEF interrupt_handler, HandleByte
  <2>5. Log!Put(e)
    BY <1>1, <2>3, <2>4, EnqueuePuts
  <2> QED BY <2>3, <2>5 DEF Log!Next
<1> QED BY <1>2, <1>3

LEMMA StepImplements == Inv /\ Inv' /\ [Next]_vars => [Log!Next]_(Log!vars)
<1> SUFFICES ASSUME Inv, Inv', [Next]_vars PROVE Log!Next \/ Stutter
  BY DEF Stutter, Log!vars
<1>1. CASE \E k \in Keys : Press(k) \/ Release(k)
  <2>1. queue' = queue /\ tail' = tail /\ size' = size /\ pc' = pc /\ event' = event
    BY <1>1 DEF Press, Release, Send, ring, cpu
  <2> QED BY <2>1, Unmoved DEF Waiting, First, Stutter
<1>2. CASE interrupt_handler
  BY <1>2, InterruptImplements
<1>3. CASE EnterException \/ killproc_sti \/ kbd_pop_event \/ kbd_clear_buffer \/ Restore
  BY <1>3, OperationImplements
<1>4. CASE UNCHANGED vars
  BY <1>4, Unmoved DEF vars, Waiting, First, Stutter
<1> QED BY <1>1, <1>2, <1>3, <1>4 DEF Next

LEMMA InitImplements == Init => Log!Init
<1> SUFFICES ASSUME Init PROVE Log!Init
  OBVIOUS
<1>1. Waiting = 0 /\ event = NoEvent
  BY DEF Init, init_keyboard, Waiting
<1>2. Inv
  BY InitInv
<1> QED BY <1>1, <1>2, EmptyLog DEF Log!Init

\* For every capacity and every interleaving of the interrupt with the stores of
\* the two operations, the ring is the bounded event log.
THEOREM Refinement == Spec => RefinesEventLog
<1>1. Inv /\ Inv' /\ [Next]_vars => [Log!Next]_(Log!vars)
  BY StepImplements
<1>2. Init => Log!Init
  BY InitImplements
<1> QED BY <1>1, <1>2, Invariance, PTL DEF Spec, RefinesEventLog, Log!Spec

-----------------------------------------------------------------------------
(* The shift keys, on a keyboard whose keys send one byte each              *)

\* Each key has a scancode of its own, sends it without a prefix, and its release is not
\* read as one.
PlainCodes == Scancodes \ {96, 97}
PlainKeys ==
    /\ \A k \in Keys : \E s \in PlainCodes : \A pressed \in BOOLEAN : Codes[k][pressed] = <<<<s, pressed>>>>
    /\ \A k, l \in Keys : Codes[k][TRUE] = Codes[l][TRUE] => k = l

\* The last byte of a key on the wire says whether it is held; when there is none, the
\* flag does.
Expected(s, flag) ==
    /\ (\A i \in 1..Len(wire) : wire[i][1] # s) => flag = Held(s)
    /\ \A i \in 1..Len(wire) :
           wire[i][1] = s /\ (\A j \in 1..Len(wire) : j > i => wire[j][1] # s) => wire[i][2] = Held(s)

ShiftInv ==
    /\ Expected(LeftShift, left_shift_pressed) /\ Expected(RightShift, right_shift_pressed)
    /\ shift_pressed = (left_shift_pressed \/ right_shift_pressed)
    /\ wire \in Seq(PlainCodes \X BOOLEAN)
    /\ left_shift_pressed \in BOOLEAN /\ right_shift_pressed \in BOOLEAN

\* A key pressed, repeated or released is the last byte on the wire.
LEMMA SendExpected ==
    ASSUME PlainKeys, wire \in Seq(PlainCodes \X BOOLEAN), down \in SUBSET Keys,
           NEW k \in Keys, NEW pressed \in BOOLEAN, wire' = wire \o Codes[k][pressed],
           down' = IF pressed THEN down \cup {k} ELSE down \ {k},
           NEW s \in Scancodes, NEW flag, Expected(s, flag)
    PROVE  Expected(s, flag)' /\ wire' \in Seq(PlainCodes \X BOOLEAN)
<1>1. PICK c \in PlainCodes : \A p \in BOOLEAN : Codes[k][p] = <<<<c, p>>>>
  BY DEF PlainKeys
<1>2. PICK n \in Nat : n = Len(wire)
  BY LenProperties
<1>3. PICK b : b = <<c, pressed>>
  OBVIOUS
<1>4. b \in PlainCodes \X BOOLEAN /\ b[1] = c /\ b[2] = pressed
  BY <1>3
<1>5. /\ wire' \in Seq(PlainCodes \X BOOLEAN) /\ Len(wire') = n + 1 /\ wire'[n + 1] = b
      /\ \A i \in 1..n : wire'[i] = wire[i]
  <2>1. wire' = wire \o <<b>>
    BY <1>1, <1>3
  <2> QED BY <1>2, <1>4, <2>1
<1>6. CASE c = s
  <2>1. Held(s)' = pressed
    <3>1. ASSUME NEW l \in Keys, Codes[l][TRUE] = <<<<s, TRUE>>>> PROVE l = k
      BY <1>1, <1>6, <3>1 DEF PlainKeys
    <3>2. Codes[k][TRUE] = <<<<s, TRUE>>>>
      BY <1>1, <1>6
    <3>3. \A l \in down' : Codes[l][TRUE] = <<<<s, TRUE>>>> => l = k
      BY <3>1
    <3>4. k \in down' <=> pressed
      OBVIOUS
    <3> QED BY <3>2, <3>3, <3>4 DEF Held
  <2>2. n + 1 \in 1..(n + 1) /\ wire'[n + 1][1] = s /\ wire'[n + 1][2] = pressed
    BY <1>4, <1>5, <1>6
  <2>3. ASSUME NEW i \in 1..(n + 1), \A j \in 1..(n + 1) : j > i => wire'[j][1] # s PROVE i = n + 1
    <3>1. i # n + 1 => n + 1 > i
      OBVIOUS
    <3> QED BY <2>2, <2>3, <3>1
  <2> QED BY <1>5, <2>1, <2>2, <2>3, SMTT(30) DEF Expected
<1>7. CASE c # s
  <2>1. Held(s)' = Held(s)
    <3>1. Codes[k][TRUE] # <<<<s, TRUE>>>>
      <4>1. Codes[k][TRUE] = <<<<c, TRUE>>>>
        BY <1>1
      <4>2. Codes[k][TRUE][1][1] = c /\ <<<<s, TRUE>>>>[1][1] = s
        BY <4>1
      <4> QED BY <1>7, <4>2
    <3> QED BY <3>1 DEF Held
  <2>2. n + 1 \in 1..(n + 1) /\ wire'[n + 1][1] # s /\ \A i \in 1..n : i \in 1..(n + 1)
    BY <1>4, <1>5, <1>7
  <2>3. ASSUME NEW i \in 1..(n + 1), wire'[i][1] = s PROVE i \in 1..n
    <3>1. i # n + 1
      BY <2>2, <2>3
    <3> QED BY <3>1
  <2>4. (\A i \in 1..(n + 1) : wire'[i][1] # s) => flag = Held(s)'
    BY <1>2, <1>5, <2>1, <2>2 DEF Expected
  <2>5. ASSUME NEW i \in 1..(n + 1), wire'[i][1] = s, \A j \in 1..(n + 1) : j > i => wire'[j][1] # s
        PROVE  wire'[i][2] = Held(s)'
    <3>1. i \in 1..n /\ wire'[i] = wire[i]
      BY <1>5, <2>3, <2>5
    <3>2. \A j \in 1..n : j > i => wire[j][1] # s
      BY <1>5, <2>2, <2>5
    <3> QED BY <1>2, <2>1, <2>5, <3>1, <3>2 DEF Expected
  <2> QED BY <1>5, <2>4, <2>5 DEF Expected
<1> QED BY <1>5, <1>6, <1>7

\* The handler takes the first byte.
LEMMA HandleExpected ==
    ASSUME wire \in Seq(PlainCodes \X BOOLEAN), wire # <<>>, wire' = Tail(wire), down' = down,
           NEW s \in Scancodes, NEW flag, NEW new, Expected(s, flag),
           new = IF Head(wire)[1] = s THEN Head(wire)[2] ELSE flag
    PROVE  Expected(s, new)' /\ wire' \in Seq(PlainCodes \X BOOLEAN)
<1>1. PICK n \in Nat : n = Len(wire)
  BY LenProperties
<1>2. /\ n >= 1 /\ wire' \in Seq(PlainCodes \X BOOLEAN) /\ Len(wire') = n - 1 /\ Head(wire) = wire[1]
      /\ \A i \in 1..(n - 1) : wire'[i] = wire[i + 1]
  BY <1>1, HeadTailProperties, EmptySeq
<1>3. Held(s)' = Held(s)
  BY DEF Held
<1>4. \A i \in 1..n : i = 1 \/ (i - 1 \in 1..(n - 1) /\ wire'[i - 1] = wire[i])
  BY <1>2
<1>5. ASSUME \A i \in 1..(n - 1) : wire'[i][1] # s PROVE new = Held(s)
  <2>1. \A i \in 1..n : i # 1 => wire[i][1] # s
    BY <1>4, <1>5
  <2>2. CASE wire[1][1] = s
    <3>1. 1 \in 1..n /\ \A j \in 1..n : j > 1 => wire[j][1] # s
      BY <1>2, <2>1
    <3> QED BY <1>1, <1>2, <2>2, <3>1 DEF Expected
  <2>3. CASE wire[1][1] # s
    BY <1>1, <1>2, <2>1, <2>3 DEF Expected
  <2> QED BY <2>2, <2>3
<1>6. ASSUME NEW i \in 1..(n - 1), wire'[i][1] = s, \A j \in 1..(n - 1) : j > i => wire'[j][1] # s
      PROVE  wire'[i][2] = Held(s)
  <2>1. i + 1 \in 1..n /\ wire'[i] = wire[i + 1]
    BY <1>2
  <2>2. ASSUME NEW j \in 1..n, j > i + 1 PROVE wire[j][1] # s
    <3>1. j - 1 \in 1..(n - 1) /\ j - 1 > i /\ wire'[j - 1] = wire[j]
      <4>1. j # 1 /\ j - 1 > i /\ j - 1 \in 1..(n - 1)
        BY <2>2
      <4> QED BY <1>4, <4>1
    <3> QED BY <1>6, <3>1
  <2> QED BY <1>1, <1>6, <2>1, <2>2 DEF Expected
<1> QED BY <1>2, <1>3, <1>5, <1>6 DEF Expected

LEMMA SameExpected ==
    ASSUME UNCHANGED <<wire, down>>, NEW s, NEW flag, Expected(s, flag)
    PROVE  Expected(s, flag)'
BY DEF Expected, Held

LEMMA NextShift ==
    ASSUME PlainKeys, TypeOK, ShiftInv, [Next]_vars
    PROVE  ShiftInv'
<1>1. PICK l, r : l = left_shift_pressed /\ r = right_shift_pressed
  OBVIOUS
<1>2. LeftShift \in Scancodes /\ RightShift \in Scancodes /\ LeftShift # RightShift
  BY CodeAssumption
<1>3. Expected(LeftShift, l) /\ Expected(RightShift, r) /\ wire \in Seq(PlainCodes \X BOOLEAN)
  BY <1>1 DEF ShiftInv
<1>4. ASSUME UNCHANGED shifts, Expected(LeftShift, l)', Expected(RightShift, r)',
             wire' \in Seq(PlainCodes \X BOOLEAN)
      PROVE  ShiftInv'
  <2>1. left_shift_pressed' = l /\ right_shift_pressed' = r
    BY <1>1, <1>4 DEF shifts
  <2>2. Expected(LeftShift, left_shift_pressed)' /\ Expected(RightShift, right_shift_pressed)'
    BY <1>4, <2>1 DEF Expected
  <2> QED BY <1>4, <2>2 DEF ShiftInv, shifts
<1>5. ASSUME NEW k \in Keys, Press(k) \/ Release(k) PROVE ShiftInv'
  <2>1. PICK pressed \in BOOLEAN : /\ wire' = wire \o Codes[k][pressed]
                                   /\ down' = IF pressed THEN down \cup {k} ELSE down \ {k}
    <3>1. CASE Press(k)
      <4>1. wire' = wire \o Codes[k][TRUE] /\ down' = IF TRUE THEN down \cup {k} ELSE down \ {k}
        BY <3>1 DEF Press, Send
      <4> QED BY <4>1
    <3>2. CASE Release(k)
      <4>1. wire' = wire \o Codes[k][FALSE] /\ down' = IF FALSE THEN down \cup {k} ELSE down \ {k}
        BY <3>2 DEF Release, Send
      <4> QED BY <4>1
    <3> QED BY <1>5, <3>1, <3>2
  <2>2. Expected(LeftShift, l)' /\ Expected(RightShift, r)' /\ wire' \in Seq(PlainCodes \X BOOLEAN)
    BY <1>2, <1>3, <2>1, SendExpected DEF TypeOK
  <2>3. UNCHANGED shifts
    BY <1>5 DEF Press, Release, Send
  <2> QED BY <1>4, <2>2, <2>3
<1>6. CASE interrupt_handler
  <2>1. wire # <<>> /\ wire' = Tail(wire) /\ down' = down
    BY <1>6 DEF interrupt_handler
  <2>2. PICK c \in PlainCodes, p \in BOOLEAN : Head(wire)[1] = c /\ Head(wire)[2] = p /\ Head(wire) = <<c, p>>
    BY <1>3, <2>1, HeadTailProperties
  <2>3. Head(wire) \notin Prefixes
    <3>1. c # 96 /\ c # 97
      BY DEF PlainCodes
    <3>2. ASSUME NEW b \in Prefixes PROVE b[1] = 96 \/ b[1] = 97
      <4>1. CASE b = <<96, FALSE>>
        BY <4>1
      <4>2. CASE b = <<97, FALSE>>
        BY <4>2
      <4> QED BY <3>2, <4>1, <4>2, Zenon DEF Prefixes
    <3> QED BY <2>2, <3>1, <3>2, Zenon
  <2>4. UpdateShift(c, p)
    BY <1>6, <2>2, <2>3 DEF interrupt_handler, HandleByte
  <2>5. PICK newl, newr : /\ newl = IF Head(wire)[1] = LeftShift THEN Head(wire)[2] ELSE l
                          /\ newr = IF Head(wire)[1] = RightShift THEN Head(wire)[2] ELSE r
    OBVIOUS
  <2>6. left_shift_pressed' = newl /\ right_shift_pressed' = newr
    BY <1>1, <2>2, <2>4, <2>5 DEF UpdateShift
  <2>7. Expected(LeftShift, newl)' /\ Expected(RightShift, newr)' /\ wire' \in Seq(PlainCodes \X BOOLEAN)
    BY <1>2, <1>3, <2>1, <2>5, HandleExpected
  <2>8. Expected(LeftShift, left_shift_pressed)' /\ Expected(RightShift, right_shift_pressed)'
    BY <2>6, <2>7 DEF Expected
  <2>9. /\ left_shift_pressed' \in BOOLEAN /\ right_shift_pressed' \in BOOLEAN
        /\ shift_pressed' = (left_shift_pressed' \/ right_shift_pressed')
    BY <2>2, <2>4 DEF UpdateShift, ShiftInv
  <2> QED BY <2>7, <2>8, <2>9 DEF ShiftInv
<1>7. ASSUME UNCHANGED <<shifts, wire, down>> PROVE ShiftInv'
  BY <1>3, <1>4, <1>7, SameExpected
<1>8. CASE EnterException \/ killproc_sti \/ kbd_pop_event \/ kbd_clear_buffer \/ Restore
  <2>1. UNCHANGED <<shifts, wire, down>>
    BY <1>8 DEF EnterException, killproc_sti, kbd_pop_event, PopCall, PopCheck, PopRead, PopAdvance,
       PopShrink, kbd_clear_buffer, ClearCall, ClearHead, ClearTail, ClearSize, Restore, irq_restore,
       irq_save_disable, keyboard, Elsewhere
  <2> QED BY <1>7, <2>1
<1>9. CASE UNCHANGED vars
  BY <1>7, <1>9 DEF vars, shifts
<1> QED BY <1>5, <1>6, <1>8, <1>9 DEF Next

\* On a keyboard of such keys, whatever is held, repeated and released in whatever order and
\* however long interrupts are masked: when no byte waits, the shift state is that of the keys.
THEOREM ShiftIsFollowed ==
    ASSUME PlainKeys
    PROVE  Spec => []ShiftFollowsKeys
<1>1. Init => ShiftInv
  <2> SUFFICES ASSUME Init PROVE ShiftInv
    OBVIOUS
  <2>1. wire = <<>> /\ down = {} /\ left_shift_pressed = FALSE /\ right_shift_pressed = FALSE
        /\ shift_pressed = FALSE
    BY DEF Init, init_keyboard
  <2>2. wire \in Seq(PlainCodes \X BOOLEAN) /\ Len(wire) = 0
    BY <2>1
  <2>3. Expected(LeftShift, left_shift_pressed) /\ Expected(RightShift, right_shift_pressed)
    <3>1. \A s : Held(s) = FALSE
      BY <2>1 DEF Held
    <3>2. 1..Len(wire) = {}
      BY <2>2
    <3> QED BY <2>1, <3>1, <3>2 DEF Expected
  <2> QED BY <2>1, <2>2, <2>3 DEF ShiftInv
<1>2. TypeOK /\ ShiftInv /\ [Next]_vars => ShiftInv'
  BY NextShift
<1>3. ShiftInv => ShiftFollowsKeys
  BY DEF ShiftInv, ShiftFollowsKeys, Expected
<1> QED BY <1>1, <1>2, <1>3, TypeCorrect, PTL DEF Spec
=============================================================================
