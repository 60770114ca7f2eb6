------------------------------ MODULE Keyboard ------------------------------
(***************************************************************************)
(* drivers/keyboard.c: the IRQ1 handler that turns scancode bytes into     *)
(* events, the ring buffer they wait in, and the two operations the rest   *)
(* of the kernel calls, kbd_pop_event and kbd_clear_buffer, one store at a *)
(* time so that an interrupt may fall between any two of them while IF is  *)
(* set.  The keyboard itself (keys held, bytes on the wire) is external.   *)
(***************************************************************************)
EXTENDS Integers, Sequences

CONSTANTS CAP,               \* KBD_EVENT_QUEUE_CAPACITY
          Scancodes,         \* set-1 scancodes the keyboard can send
          LeftShift, RightShift, Backspace,
          sc_ascii, sc_ascii_shift,  \* scancode -> ASCII code, 0 for '?' and beyond
          Keys,              \* the physical keys
          Codes,             \* Codes[k][pressed]: the bytes key k sends
          MaxWire            \* bound: bytes the keyboard holds back

ASSUME CapAssumption == CAP \in Nat \ {0}
ASSUME CodeAssumption ==
    /\ Scancodes \subseteq 1..127
    /\ {LeftShift, RightShift, Backspace} \subseteq Scancodes
    /\ LeftShift # RightShift
    /\ sc_ascii \in [Scancodes -> Nat]
    /\ sc_ascii_shift \in [Scancodes -> Nat]

\* A byte is its low seven bits and whether the release bit is clear.
Prefixes == {<<96, FALSE>>, <<97, FALSE>>}           \* 0xe0, 0xe1
Bytes == (Scancodes \X BOOLEAN) \cup Prefixes

ASSUME WireAssumption == Codes \in [Keys -> [BOOLEAN -> Seq(Bytes)]]

VARIABLES
    queue, head, tail, size,        \* kbd_event_queue, _head, _tail, _size
    left_shift_pressed, right_shift_pressed, shift_pressed,
    intEnabled,                     \* EFLAGS.IF
    pc,                             \* where the code that uses the queue is
    eflags,                         \* IF as irq_save_disable saved it
    event,                          \* what kbd_pop_event returns
    ret,                            \* where kbd_clear_buffer or kbd_pop_event returns to
    down, wire                      \* keys held down, bytes not delivered yet

ring == <<queue, head, tail, size>>
shifts == <<left_shift_pressed, right_shift_pressed, shift_pressed>>
cpu == <<intEnabled, pc, ret, eflags, event>>
keyboard == <<down, wire>>
vars == <<queue, head, tail, size, left_shift_pressed, right_shift_pressed,
          shift_pressed, intEnabled, pc, ret, eflags, event, down, wire>>

-----------------------------------------------------------------------------
(* Events.  kbd_event_pack is injective: an event is the triple it packs.   *)

Keycodes == {0, 8} \cup {sc_ascii[s] : s \in Scancodes}
            \cup {sc_ascii_shift[s] : s \in Scancodes}
kbd_event_pack(scancode, keycode, pressed) == <<scancode, keycode, pressed>>
Events == Scancodes \X Keycodes \X BOOLEAN
NoEvent == kbd_event_pack(0, 0, FALSE)               \* the integer 0

Keycode(scancode, shift) ==
    IF scancode = Backspace THEN 8
    ELSE IF shift THEN sc_ascii_shift[scancode] ELSE sc_ascii[scancode]

Step(i) == (i + 1) % CAP

init_keyboard ==
    /\ queue = [i \in 0..(CAP - 1) |-> NoEvent]
    /\ head = 0 /\ tail = 0 /\ size = 0
    /\ left_shift_pressed = FALSE /\ right_shift_pressed = FALSE
    /\ shift_pressed = FALSE

Init ==
    /\ init_keyboard
    /\ intEnabled = TRUE /\ eflags = TRUE
    /\ pc = "caller" /\ ret = "caller" /\ event = NoEvent
    /\ down = {} /\ wire = <<>>

-----------------------------------------------------------------------------
(* The keyboard: pressing, repeating and releasing keys puts bytes on the   *)
(* wire in order; the controller raises IRQ1 while a byte waits.            *)

Send(bytes) ==
    /\ Len(wire) + Len(bytes) <= MaxWire
    /\ wire' = wire \o bytes
    /\ UNCHANGED <<ring, shifts, cpu>>

Press(k) == Send(Codes[k][TRUE]) /\ down' = down \cup {k}   \* or typematic repeat

Release(k) == k \in down /\ Send(Codes[k][FALSE]) /\ down' = down \ {k}

-----------------------------------------------------------------------------
(* The interrupt handler; its gate clears IF, so it runs as one step.       *)

\* Mutants of the handler's two parts.
EnqueueOverwriteNewest(e) ==
    IF size = CAP
    THEN queue' = [queue EXCEPT ![(head + CAP - 1) % CAP] = e]
         /\ UNCHANGED <<head, tail, size>>
    ELSE /\ queue' = [queue EXCEPT ![head] = e]
         /\ head' = Step(head)
         /\ size' = size + 1
         /\ tail' = tail
EnqueueKeepSize(e) ==
    /\ queue' = [queue EXCEPT ![head] = e]
    /\ head' = Step(head)
    /\ size' = size + 1
    /\ tail' = IF size = CAP THEN Step(tail) ELSE tail
UpdateShiftToggle(scancode, pressed) ==
    /\ left_shift_pressed' =
         IF scancode = LeftShift THEN ~left_shift_pressed ELSE left_shift_pressed
    /\ right_shift_pressed' =
         IF scancode = RightShift THEN pressed ELSE right_shift_pressed
    /\ shift_pressed' = (left_shift_pressed' \/ right_shift_pressed')
UpdateShiftShared(scancode, pressed) ==
    /\ left_shift_pressed' =
         IF scancode = LeftShift THEN pressed ELSE left_shift_pressed
    /\ right_shift_pressed' =
         IF scancode = RightShift THEN pressed ELSE right_shift_pressed
    /\ shift_pressed' =
         IF scancode \in {LeftShift, RightShift} THEN pressed ELSE shift_pressed

\* The newest event goes in at the head; a full ring drops its oldest.
Enqueue(e) ==
    /\ queue' = [queue EXCEPT ![head] = e]
    /\ head' = Step(head)
    /\ tail' = IF size = CAP THEN Step(tail) ELSE tail
    /\ size' = IF size = CAP THEN size ELSE size + 1

UpdateShift(scancode, pressed) ==
    /\ left_shift_pressed' =
         IF scancode = LeftShift THEN pressed ELSE left_shift_pressed
    /\ right_shift_pressed' =
         IF scancode = RightShift THEN pressed ELSE right_shift_pressed
    /\ shift_pressed' =
         IF scancode \in {LeftShift, RightShift}
         THEN left_shift_pressed' \/ right_shift_pressed' ELSE shift_pressed

HandleByte(scancode, pressed) ==
    /\ UpdateShift(scancode, pressed)
    /\ Enqueue(kbd_event_pack(scancode, Keycode(scancode, shift_pressed'), pressed))

interrupt_handler ==
    /\ intEnabled
    /\ wire # <<>>
    /\ wire' = Tail(wire)
    /\ IF Head(wire) \in Prefixes
       THEN UNCHANGED <<ring, shifts>>
       ELSE HandleByte(Head(wire)[1], Head(wire)[2])
    /\ UNCHANGED <<cpu, down>>

-----------------------------------------------------------------------------
(* The callers: the shell and system calls run with IF set.  An exception   *)
(* gate clears IF; killproc clears the queue at most once and sets IF again. *)

EnterException ==
    /\ pc = "caller" /\ pc' = "exception"
    /\ intEnabled' = FALSE
    /\ UNCHANGED <<ring, shifts, ret, eflags, event, keyboard>>

killproc_sti ==
    /\ pc \in {"exception", "killproc"} /\ pc' = "caller"
    /\ intEnabled' = TRUE
    /\ UNCHANGED <<ring, shifts, ret, eflags, event, keyboard>>

\* Mutants: the flag is saved but cli is missing; the restore is a plain sti.
SaveWithoutCli(next) ==
    /\ eflags' = intEnabled /\ pc' = next
    /\ UNCHANGED <<ring, shifts, intEnabled, event, keyboard>>
RestoreAsSti ==
    /\ intEnabled' = TRUE /\ pc' = ret
    /\ UNCHANGED <<ring, shifts, ret, eflags, event, keyboard>>

irq_save_disable(next) ==
    /\ eflags' = intEnabled /\ intEnabled' = FALSE /\ pc' = next
    /\ UNCHANGED <<ring, shifts, event, keyboard>>

irq_restore ==
    /\ intEnabled' = eflags /\ pc' = ret
    /\ UNCHANGED <<ring, shifts, ret, eflags, event, keyboard>>

\* The parts of the state that no store of the two operations touches.
Elsewhere == <<shifts, intEnabled, ret, eflags, keyboard>>

(* kbd_pop_event *)
PopCall == pc = "caller" /\ ret' = "caller" /\ irq_save_disable("pop_check")

PopCheck ==
    /\ pc = "pop_check"
    /\ IF size = 0 THEN pc' = "restore" /\ event' = NoEvent
                   ELSE pc' = "pop_read" /\ event' = event
    /\ UNCHANGED <<ring, Elsewhere>>

PopRead ==
    /\ pc = "pop_read" /\ pc' = "pop_advance"
    /\ event' = queue[tail]
    /\ UNCHANGED <<ring, Elsewhere>>

PopAdvance ==
    /\ pc = "pop_advance" /\ pc' = "pop_shrink"
    /\ tail' = Step(tail)
    /\ UNCHANGED <<queue, head, size, event, Elsewhere>>

PopShrink ==
    /\ pc = "pop_shrink" /\ pc' = "restore"
    /\ size' = size - 1
    /\ UNCHANGED <<queue, head, tail, event, Elsewhere>>

Restore == pc = "restore" /\ irq_restore

(* kbd_clear_buffer *)
ClearCall ==
    /\ pc \in {"caller", "exception"}
    /\ ret' = IF pc = "caller" THEN "caller" ELSE "killproc"
    /\ irq_save_disable("clear_head")

ClearHead ==
    /\ pc = "clear_head" /\ pc' = "clear_tail"
    /\ head' = 0
    /\ UNCHANGED <<queue, tail, size, event, Elsewhere>>

ClearTail ==
    /\ pc = "clear_tail" /\ pc' = "clear_size"
    /\ tail' = 0
    /\ UNCHANGED <<queue, head, size, event, Elsewhere>>

ClearSize ==
    /\ pc = "clear_size" /\ pc' = "restore"
    /\ size' = 0
    /\ UNCHANGED <<queue, head, tail, event, Elsewhere>>

kbd_pop_event == PopCall \/ PopCheck \/ PopRead \/ PopAdvance \/ PopShrink
kbd_clear_buffer == ClearCall \/ ClearHead \/ ClearTail \/ ClearSize

Next ==
    \/ \E k \in Keys : Press(k) \/ Release(k)
    \/ interrupt_handler
    \/ EnterException \/ killproc_sti
    \/ kbd_pop_event \/ kbd_clear_buffer \/ Restore

Spec == Init /\ [][Next]_vars

\* The CPU runs on inside the two operations and out of an exception, and the
\* interrupt controller keeps the request until the first moment IF is set.
Fairness ==
    /\ WF_vars(PopCheck \/ PopRead \/ PopAdvance \/ PopShrink \/ ClearHead
               \/ ClearTail \/ ClearSize \/ Restore)
    /\ WF_vars(killproc_sti)
    /\ SF_vars(interrupt_handler)

FairSpec == Spec /\ Fairness

-----------------------------------------------------------------------------
(* Properties                                                               *)

Pcs == {"caller", "exception", "killproc", "pop_check", "pop_read", "pop_advance", "pop_shrink",
        "clear_head", "clear_tail", "clear_size", "restore"}

\* Every variable of drivers/keyboard.c stays in its range; in particular the
\* ring indices stay inside the array and the count never passes its capacity.
TypeOK ==
    /\ queue \in [0..(CAP - 1) -> Events \cup {NoEvent}]
    /\ head \in 0..(CAP - 1) /\ tail \in 0..(CAP - 1) /\ size \in 0..CAP
    /\ left_shift_pressed \in BOOLEAN /\ right_shift_pressed \in BOOLEAN
    /\ shift_pressed \in BOOLEAN
    /\ intEnabled \in BOOLEAN /\ eflags \in BOOLEAN
    /\ pc \in Pcs /\ ret \in {"caller", "killproc"} /\ event \in Events \cup {NoEvent}
    /\ down \in SUBSET Keys /\ wire \in Seq(Bytes)

\* The events waiting, read off the ring.  A pop takes effect when it reads the
\* slot and a clear with its first store; the rest of either is invisible.
First == IF pc = "pop_advance" THEN Step(tail) ELSE tail
Waiting == CASE pc \in {"clear_tail", "clear_size"} -> 0
             [] pc \in {"pop_advance", "pop_shrink"} -> size - 1
             [] OTHER -> size

\* Whenever an interrupt can arrive, head, tail and size describe the same
\* queue and every slot in use holds a real event: kbd_pop_event never answers
\* with the sentinel 0 or a stale slot while events wait.
RingConsistent ==
    intEnabled =>
        /\ head = (tail + size) % CAP
        /\ \A i \in 0..(CAP - 1) : i < size => queue[(tail + i) % CAP] \in Events

\* What holds of the ring in the middle of an operation, with IF clear.
RingInv ==
    /\ pc \in {"pop_read", "pop_advance", "pop_shrink"} => size > 0
    /\ head = CASE pc \in {"clear_tail", "clear_size"} -> 0
                [] pc = "pop_shrink" -> (tail + size - 1) % CAP
                [] OTHER -> (tail + size) % CAP
    /\ pc = "clear_size" => tail = 0
    /\ \A i \in 0..(CAP - 1) : i < Waiting => queue[(First + i) % CAP] \in Events

\* IF is set exactly outside the operations and the exception handler, and
\* irq_save_disable saved what the place it returns to needs.
FlagsInv ==
    /\ intEnabled = (pc = "caller")
    /\ pc \notin {"caller", "exception", "killproc"} => eflags = (ret = "caller")

\* irq_save_disable and irq_restore nest: after either operation IF is what it
\* was before, clear while an exception is handled and set everywhere else.
CallerKeepsIF ==
    /\ pc = "caller" => intEnabled
    /\ pc \in {"exception", "killproc"} => ~intEnabled

Held(scancode) == \E k \in down : Codes[k][TRUE] = <<<<scancode, TRUE>>>>

\* Once every byte has been handled, the shift state used to choose between the
\* two tables says exactly which shift keys are held.
ShiftFollowsKeys ==
    wire = <<>> =>
        /\ left_shift_pressed = Held(LeftShift)
        /\ right_shift_pressed = Held(RightShift)
        /\ shift_pressed = (left_shift_pressed \/ right_shift_pressed)

\* A shift key that is held is noticed, however often the kernel masks
\* interrupts to read or clear the queue, and so is its release.
ShiftNoticed ==
    /\ Held(LeftShift) ~> (shift_pressed \/ ~Held(LeftShift))
    /\ (~Held(LeftShift) /\ ~Held(RightShift))
         ~> (~shift_pressed \/ Held(LeftShift) \/ Held(RightShift))

Pending == [i \in 1..Waiting |-> queue[(First + i - 1) % CAP]]

Log == INSTANCE EventLog WITH N <- CAP, pending <- Pending, answer <- event

\* The ring with its two operations and the handler, at any interleaving, is
\* the bounded queue of EventLog: no event is lost, doubled or reordered except
\* that the oldest one is dropped when the ring is full.
RefinesEventLog == Log!Spec
=============================================================================
