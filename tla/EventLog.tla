------------------------------ MODULE EventLog ------------------------------
(***************************************************************************)
(* What kbd_pop_event, kbd_clear_buffer and the IRQ1 handler promise their *)
(* callers together: the key events that were not read yet form a bounded  *)
(* queue that forgets its oldest event when a new one does not fit.        *)
(* snake.md, line 47, asks for the last 32 presses and releases or more.   *)
(***************************************************************************)
EXTENDS Naturals, Sequences

CONSTANTS Events,    \* what the interrupt handler can report
          NoEvent,   \* the answer "nothing to read"
          N          \* how many events are remembered

VARIABLES pending,   \* the events not read yet, oldest first
          answer     \* what the last read returned

vars == <<pending, answer>>

Init == pending = <<>> /\ answer = NoEvent

\* An event arrives; the oldest one makes room for it.
Put(e) ==
    /\ pending' = Append(IF Len(pending) = N THEN Tail(pending) ELSE pending, e)
    /\ answer' = answer

\* A read answers with the oldest event and removes it.
Take ==
    /\ pending # <<>>
    /\ answer' = Head(pending)
    /\ pending' = Tail(pending)

\* A read of the empty log says so.
TakeNothing ==
    /\ pending = <<>>
    /\ answer' = NoEvent
    /\ pending' = pending

Clear == pending' = <<>> /\ answer' = answer

Next == (\E e \in Events : Put(e)) \/ Take \/ TakeNothing \/ Clear

Spec == Init /\ [][Next]_vars
=============================================================================
