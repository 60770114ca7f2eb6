------------------------------- MODULE Clock --------------------------------
(***************************************************************************)
(* drivers/pit.c and drivers/speaker.c: the timer interrupt, the 64-bit     *)
(* millisecond clock the 32-bit kernel reads in two halves, msleep, and the *)
(* tone that a callback of the timer switches off.  The thread is at one    *)
(* step of the system call it makes; the interrupt may fall between any two *)
(* of them while IF is set.                                                 *)
(***************************************************************************)
EXTENDS Integers, Sequences

CONSTANTS
    MsPerTick,               \* 1000 / CLOCK_PRECISION_HZ
    Word,                    \* what a 32-bit word holds: 2^32
    Durations,               \* the durations given to SYS_sleep and SYS_beep
    MAX_CALLBACKS,           \* the length of callbacks
    Start,                   \* the time at which the run starts
    MaxNow,                  \* bound: the clock stands still from here on
    CountFirst               \* orders in which a build may emit add_timer_callback's stores

ASSUME ClockAssumption ==
    /\ MsPerTick \in Nat \ {0} /\ Word \in Nat \ {0} /\ MsPerTick < Word
    /\ MAX_CALLBACKS \in Nat /\ MAX_CALLBACKS >= 3   \* three are registered
    /\ Start \in Nat /\ MaxNow \in Nat /\ CountFirst \subseteq BOOLEAN
    /\ \A d \in Durations : d \in Nat \ {0} /\ 2 * d < Word   \* a uint16_t, half a uint32_t

VARIABLES
    monotonic_ms,            \* its two words
    callbacks, registered_callbacks,
    speaker_off_deadline_ms, \* 0: no tone to end
    speaker,                 \* the enable bits of port 0x61
    intEnabled, eflags,      \* EFLAGS.IF and its copy in pit_monotonic_ms
    pc, ret,                 \* the step of the system call; who called pit_monotonic_ms
    ms,                      \* what pit_monotonic_ms has read
    duration, deadline,      \* of msleep or speaker_beep
    asked,                   \* history: when the call was made
    due,                     \* history: when the last tone should end, 0 until it is set
    overlap,                 \* history: an earlier tone was on when it was asked for
    message

clock == <<monotonic_ms, callbacks, registered_callbacks>>
sound == <<speaker_off_deadline_ms, speaker>>
local == <<duration, deadline, asked>>
tone == <<due, overlap>>
call == <<local, tone>>
vars == <<monotonic_ms, callbacks, registered_callbacks, speaker_off_deadline_ms, speaker,
          intEnabled, eflags, pc, ret, ms, duration, deadline, asked, due, overlap,
          message>>

Value(w) == w.high * Word + w.low
Words(n) == [high |-> n \div Word, low |-> n % Word]
Now == Value(monotonic_ms)

NULL == "null"
\* kmain registers the speaker's and the framebuffer's callback before it sets IF;
\* the run starts where it goes on to register the spinner's.
Early == <<"speaker_tick", "mode13_fb_tick">>

Init ==
    /\ monotonic_ms = Words(Start)
    /\ callbacks = [i \in 1..MAX_CALLBACKS |-> IF i <= Len(Early) THEN Early[i] ELSE NULL]
    /\ registered_callbacks = Len(Early)
    /\ speaker_off_deadline_ms = 0 /\ speaker = FALSE
    /\ intEnabled = TRUE /\ eflags = TRUE
    /\ pc = "register" /\ ret = "user"
    /\ ms = Words(0) /\ duration = 0 /\ deadline = 0 /\ asked = 0
    /\ due = 0 /\ overlap = FALSE
    /\ message = ""

-----------------------------------------------------------------------------
(* The timer interrupt; its gate clears IF, so it runs as one step.          *)

\* Mutants: the deadline compared as an unsigned number, or only for equality.
ExpiredUnsigned(now) == now >= speaker_off_deadline_ms
ExpiredExactly(now) == now = speaker_off_deadline_ms
\* (int32_t)(now - deadline) >= 0
Expired(now) == (now - speaker_off_deadline_ms) % Word < Word \div 2

speaker_tick(now) ==
    IF speaker_off_deadline_ms # 0 /\ Expired(now)
    THEN speaker_off_deadline_ms' = 0 /\ speaker' = FALSE
    ELSE UNCHANGED sound

\* Mutant: the loop runs once too often (i <= registered_callbacks).
RegisteredOrNext(c) == \E i \in 1..(registered_callbacks + 1) : callbacks[i] = c
Registered(c) == \E i \in 1..registered_callbacks : callbacks[i] = c

\* The clock advances and every registered callback runs; hlt returns.
timer_interrupt_handler ==
    /\ intEnabled
    /\ monotonic_ms' = Words(IF Now + MsPerTick > MaxNow THEN Now ELSE Now + MsPerTick)
    /\ speaker_tick(monotonic_ms'.low)
    /\ IF Registered(NULL)
       THEN pc' = "panic" /\ message' = "Page Fault" /\ intEnabled' = FALSE
       ELSE /\ pc' = IF pc = "halted" THEN "sleep_loop" ELSE pc
            /\ UNCHANGED <<message, intEnabled>>
    /\ UNCHANGED <<callbacks, registered_callbacks, eflags, ret, ms, call>>

-----------------------------------------------------------------------------
(* add_timer_callback(update_spinner): the counter and the entry, in either  *)
(* order a build may store them in                                           *)

Unregistered == <<monotonic_ms, sound, intEnabled, eflags, ret, ms, call, message>>

StoreCount(next) ==
    /\ pc' = next /\ registered_callbacks' = registered_callbacks + 1
    /\ UNCHANGED <<callbacks, Unregistered>>

StoreEntry(i, next) ==
    /\ pc' = next /\ callbacks' = [callbacks EXCEPT ![i] = "update_spinner"]
    /\ UNCHANGED <<registered_callbacks, Unregistered>>

StoreFirst ==
    /\ pc = "register" /\ registered_callbacks < MAX_CALLBACKS
    /\ \/ TRUE \in CountFirst /\ StoreCount("register_entry")
       \/ FALSE \in CountFirst /\ StoreEntry(registered_callbacks + 1, "register_count")

StoreSecond ==
    \/ pc = "register_entry" /\ StoreEntry(registered_callbacks, "user")
    \/ pc = "register_count" /\ StoreCount("user")

add_timer_callback == StoreFirst \/ StoreSecond

-----------------------------------------------------------------------------
(* pit_monotonic_ms, in the order of its instructions                        *)

Hardware == <<clock, sound, message>>

\* Back to the program; the kernel's locals are gone.
Return ==
    /\ pc' = "user" /\ ret' = "user" /\ ms' = Words(0)
    /\ duration' = 0 /\ deadline' = 0 /\ asked' = 0

\* Mutant: the flag is saved but interrupts stay on.
ReadSaveWithoutCli ==
    /\ pc = "read" /\ pc' = "read_low"
    /\ eflags' = intEnabled /\ UNCHANGED intEnabled
    /\ UNCHANGED <<Hardware, ret, ms, call>>

ReadSave ==
    /\ pc = "read" /\ pc' = "read_low"
    /\ eflags' = intEnabled /\ intEnabled' = FALSE
    /\ UNCHANGED <<Hardware, ret, ms, call>>

ReadLow ==
    /\ pc = "read_low" /\ pc' = "read_high"
    /\ ms' = [ms EXCEPT !.low = monotonic_ms.low]
    /\ UNCHANGED <<Hardware, intEnabled, eflags, ret, call>>

ReadHigh ==
    /\ pc = "read_high" /\ pc' = "read_restore"
    /\ ms' = [ms EXCEPT !.high = monotonic_ms.high]
    /\ UNCHANGED <<Hardware, intEnabled, eflags, ret, call>>

\* Mutant: interrupts are never enabled again.
ReadRestoreNot ==
    /\ pc = "read_restore"
    /\ IF ret = "user" THEN Return ELSE pc' = ret /\ UNCHANGED <<ret, ms, local>>
    /\ UNCHANGED <<Hardware, intEnabled, eflags, tone>>

ReadRestore ==
    /\ pc = "read_restore"
    /\ IF ret = "user" THEN Return ELSE pc' = ret /\ UNCHANGED <<ret, ms, local>>
    /\ intEnabled' = (intEnabled \/ eflags)
    /\ UNCHANGED <<Hardware, eflags, tone>>

pit_monotonic_ms == ReadSave \/ ReadLow \/ ReadHigh \/ ReadRestore

-----------------------------------------------------------------------------
(* The system calls                                                          *)

\* A call to pit_monotonic_ms that goes on at next.
Read(next) == pc' = "read" /\ ret' = next
Thread == <<intEnabled, eflags, Hardware>>

handle_time_ms ==
    /\ pc = "user" /\ Read("user")
    /\ asked' = Now
    /\ UNCHANGED <<Thread, ms, duration, deadline, tone>>

handle_sleep(d) ==
    /\ pc = "user" /\ Now + d <= MaxNow
    /\ Read("sleep_deadline")
    /\ duration' = d /\ asked' = Now
    /\ UNCHANGED <<Thread, ms, deadline, tone>>

SleepDeadline ==
    /\ pc = "sleep_deadline" /\ pc' = "sleep_loop"
    /\ deadline' = Value(ms) + duration
    /\ UNCHANGED <<Thread, ret, ms, duration, asked, tone>>

SleepLoop ==
    /\ pc = "sleep_loop" /\ Read("sleep_test")
    /\ UNCHANGED <<Thread, ms, call>>

\* Mutant: the last tick of the sleep is not waited for.
TooEarlyByTick(now) == now + MsPerTick < deadline
TooEarly(now) == now < deadline

SleepTest ==
    /\ pc = "sleep_test"
    /\ IF TooEarly(Value(ms)) THEN pc' = "hlt" /\ UNCHANGED <<ret, ms, local>> ELSE Return
    /\ UNCHANGED <<Thread, tone>>

\* Between the test and hlt a tick may pass unseen; the next one wakes the CPU.
Halt ==
    /\ pc = "hlt" /\ pc' = "halted"
    /\ UNCHANGED <<Thread, ret, ms, call>>

msleep == SleepDeadline \/ SleepLoop \/ SleepTest \/ Halt

\* A tone of no length or frequency is refused before it gets here.
handle_beep(d) ==
    /\ pc = "user" /\ pc' = "beep_on" /\ Now + d <= MaxNow
    /\ duration' = d /\ asked' = Now
    /\ overlap' = (speaker_off_deadline_ms # 0) /\ due' = 0
    /\ UNCHANGED <<Thread, ret, ms, deadline>>

speaker_on ==
    /\ pc = "beep_on" /\ Read("beep_deadline")
    /\ speaker' = TRUE
    /\ UNCHANGED <<clock, speaker_off_deadline_ms, message, intEnabled, eflags, ms, call>>

\* Mutant: the deadline keeps its high word.
BeepDeadlineWide ==
    /\ pc = "beep_deadline" /\ Return
    /\ due' = Value(ms) + duration
    /\ speaker_off_deadline_ms' = due'
    /\ UNCHANGED <<clock, speaker, message, intEnabled, eflags, overlap>>

BeepDeadline ==
    /\ pc = "beep_deadline" /\ Return
    /\ due' = Value(ms) + duration
    /\ speaker_off_deadline_ms' = due' % Word
    /\ UNCHANGED <<clock, speaker, message, intEnabled, eflags, overlap>>

speaker_beep == speaker_on \/ BeepDeadline

Thread_Next ==
    \/ add_timer_callback
    \/ handle_time_ms \/ (\E d \in Durations : handle_sleep(d) \/ handle_beep(d))
    \/ pit_monotonic_ms \/ msleep \/ speaker_beep

Next == timer_interrupt_handler \/ Thread_Next

Spec == Init /\ [][Next]_vars

\* The CPU runs on inside the kernel; the interrupt controller keeps the timer's
\* request until the first moment IF is set.
Fairness ==
    /\ WF_vars(add_timer_callback \/ pit_monotonic_ms \/ msleep \/ speaker_beep)
    /\ SF_vars(timer_interrupt_handler)

FairSpec == Spec /\ Fairness

-----------------------------------------------------------------------------
(* Properties                                                               *)

Pcs == {"register", "register_entry", "register_count", "user", "read", "read_low", "read_high", "read_restore",
        "sleep_deadline", "sleep_loop", "sleep_test", "hlt", "halted", "beep_on",
        "beep_deadline", "panic"}

\* The words of the clock and the deadline fit 32 bits, the callback count
\* stays inside the array.
TypeOK ==
    /\ monotonic_ms \in [high : Nat, low : 0..(Word - 1)]
    /\ ms \in [high : Nat, low : 0..(Word - 1)]
    /\ callbacks \in [1..MAX_CALLBACKS -> {NULL, "speaker_tick", "mode13_fb_tick", "update_spinner"}]
    /\ registered_callbacks \in 0..MAX_CALLBACKS
    /\ speaker_off_deadline_ms \in 0..(Word - 1) /\ speaker \in BOOLEAN
    /\ intEnabled \in BOOLEAN /\ eflags \in BOOLEAN
    /\ pc \in Pcs /\ ret \in {"user", "sleep_deadline", "sleep_test", "beep_deadline"}
    /\ duration \in Nat /\ deadline \in Nat /\ asked \in Nat /\ due \in Nat
    /\ overlap \in BOOLEAN /\ message \in {"", "Page Fault"}

\* pit_monotonic_ms never mixes the halves of two times, and its caller gets
\* back the IF it had: the answer is the time at which it was read.
ReadIsNow ==
    /\ pc = "read_restore" => Value(ms) = Now
    /\ pc \notin {"read_low", "read_high", "read_restore", "panic"} => intEnabled

\* msleep never returns before its time is over, however the ticks fall.
SleepsLongEnough ==
    [][pc = "sleep_test" /\ pc' = "user" => Now >= asked + duration]_vars

\* A tick lost between the test and hlt delays msleep but never strands it
\* (a deadline beyond the bound of the clock aside).
SleepEnds == (pc = "sleep_loop" /\ deadline <= MaxNow) ~> pc = "user"

\* A tone that no other tone was pending at sounds until it is due, across the
\* wrap of the 32-bit deadline too.
ToneLasts == (Now < due /\ ~overlap) => speaker

\* Every tone ends, unless its deadline is the value that stands for "none"
\* (or lies beyond the bound of the clock).
ToneEnds == (speaker /\ due <= MaxNow) ~> (~speaker \/ due % Word = 0 \/ due > MaxNow)

\* In whatever order a build stores the entry and the counter, a tick can only find an entry
\* that is not there between the two stores, when the counter came first: not before, not
\* after, and not while the system calls run.
NullOnlyBetweenStores == [][message' # message => pc = "register_entry"]_vars

\* The kernel comes up: no tick of the clock stops it.
KernelStarts == message = ""
=============================================================================
