---------------------------- MODULE ClockProofs -----------------------------
(***************************************************************************)
(* drivers/pit.c and drivers/speaker.c: for every length of a tick and of a *)
(* word, and wherever the timer interrupt falls between two steps of a      *)
(* system call, the clock is read whole, msleep is never too short and no   *)
(* tone is cut off; and a tick finds every callback it counts, except       *)
(* between the two stores of a registration.                                *)
(***************************************************************************)
EXTENDS Clock, TLAPS

Reading == {"read_low", "read_high", "read_restore"}

\* A read of the clock on behalf of the step r is under way.
ReadFor(r) == pc \in {"read"} \cup Reading /\ ret = r

Asleep == pc \in {"sleep_loop", "sleep_test", "hlt", "halted"} \/ ReadFor("sleep_test")
ToneOn == pc = "beep_deadline" \/ ReadFor("beep_deadline")

\* IF is off exactly while the two halves are read.
Flags ==
    /\ pc \in Reading => ~intEnabled /\ eflags
    /\ pc \notin Reading \cup {"panic"} => intEnabled

Halves ==
    /\ pc = "read_high" => ms.low = monotonic_ms.low
    /\ pc = "read_restore" => ms = monotonic_ms

\* The deadline of a sleep is no earlier than asked for, and no answer of the clock
\* is from the future.
Sleeping ==
    /\ asked <= Now
    /\ pc = "sleep_deadline" => Value(ms) >= asked
    /\ Asleep => deadline >= asked + duration
    /\ pc \in {"sleep_test", "beep_deadline"} => Value(ms) <= Now

\* Nothing switches a tone off before it is due, unless an earlier one was pending.
Sounding ==
    /\ pc = "beep_on" \/ ToneOn =>
           due = 0 /\ duration \in Durations /\ (~overlap => speaker_off_deadline_ms = 0)
    /\ ToneOn /\ ~overlap => speaker
    /\ Now < due /\ ~overlap =>
           /\ speaker /\ 2 * (due - Now) < Word
           /\ speaker_off_deadline_ms \in {0, due % Word}

Counting == pc = "register_count" => registered_callbacks < MAX_CALLBACKS

WholeRead == Flags /\ Halves

-----------------------------------------------------------------------------
(* Two words, and the distance of two times in one of them                   *)

Clocks == [high : Nat, low : 0..(Word - 1)]

LEMMA WordNat == Word \in Nat \ {0}
BY ClockAssumption

\* An integer in words.
LEMMA Division ==
    ASSUME NEW n \in Nat
    PROVE  /\ n \div Word \in Nat /\ n % Word \in 0..(Word - 1)
           /\ n = (n \div Word) * Word + (n % Word)
<1>1. n \div Word \in Nat
  BY WordNat, SMT
<1>2. n % Word \in 0..(Word - 1)
  BY WordNat, SMT
<1>3. n = (n \div Word) * Word + (n % Word)
  BY WordNat, SMT
<1> QED BY <1>1, <1>2, <1>3

LEMMA Remainder ==
    ASSUME NEW p \in Int, NEW r \in 0..(Word - 1), NEW n, n = Word * p + r
    PROVE  n % Word = r
BY WordNat, SMT

LEMMA TwoWords ==
    /\ \A n \in Nat : Words(n) \in Clocks /\ Value(Words(n)) = n /\ Words(n).low = n % Word
    /\ \A w \in Clocks : Value(w) \in Nat
<1>1. ASSUME NEW n \in Nat
      PROVE  Words(n) \in Clocks /\ Value(Words(n)) = n /\ Words(n).low = n % Word
  <2>1. PICK q \in Nat, r \in 0..(Word - 1) :
            q = n \div Word /\ r = n % Word /\ n = q * Word + r
    <3>1. /\ n \div Word \in Nat /\ n % Word \in 0..(Word - 1)
          /\ n = (n \div Word) * Word + (n % Word)
      BY Division
    <3> QED BY <3>1, Zenon
  <2>2. Words(n) = [high |-> q, low |-> r]
    BY <2>1, Zenon DEF Words
  <2>3. Words(n) \in Clocks /\ Words(n).high = q /\ Words(n).low = r
    BY <2>2 DEF Clocks
  <2>4. Value(Words(n)) = q * Word + r
    BY <2>3, Zenon DEF Value
  <2> QED BY <2>1, <2>3, <2>4, Zenon
<1>2. ASSUME NEW w \in Clocks PROVE Value(w) \in Nat
  <2>1. w.high \in Nat /\ w.low \in Nat
    BY WordNat DEF Clocks
  <2>2. ASSUME NEW h \in Nat, NEW l \in Nat PROVE h * Word + l \in Nat
    BY WordNat, SMT
  <2> QED BY <2>1, <2>2 DEF Value
<1> QED BY <1>1, <1>2

\* A deadline less than half a word ahead is not taken for one that has passed,
\* also across the wrap.
LEMMA Ahead ==
    ASSUME NEW a \in Nat, NEW b \in Nat, a < b, 2 * (b - a) < Word,
           NEW m, m = a % Word, NEW n, n = b % Word
    PROVE  ~((m - n) % Word < Word \div 2)
<1>1. PICK x \in Nat : x = b - a /\ 0 < x /\ 2 * x < Word
  OBVIOUS
<1>2. (Word - x) % Word = Word - x /\ (0 - x) % Word = Word - x
  <2>1. Word - x = Word * 0 + (Word - x) /\ 0 - x = Word * (0 - 1) + (Word - x)
    BY <1>1, WordNat
  <2>2. Word - x \in 0..(Word - 1) /\ 0 \in Int /\ 0 - 1 \in Int
    BY <1>1, WordNat
  <2> QED BY <2>1, <2>2, Remainder
<1>3. ~(Word - x < Word \div 2)
  BY <1>1, WordNat, SMT
<1>4. m - n \in {Word - x, 0 - x}
  <2>1. PICK p \in Nat, r \in 0..(Word - 1) : a = p * Word + r /\ r = m
    BY Division
  <2>2. b = a + x /\ p \in Int /\ r \in Int /\ x \in Int /\ Word \in Int
    BY <1>1, WordNat
  <2>3. CASE r + x < Word
    <3>1. b = Word * p + (r + x) /\ r + x \in 0..(Word - 1)
      BY <1>1, <2>1, <2>2, <2>3, SMT
    <3>2. n = r + x
      BY <3>1, Remainder
    <3>3. r - (r + x) = 0 - x
      BY <2>2
    <3> QED BY <2>1, <3>2, <3>3
  <2>4. CASE r + x >= Word
    <3>1. b = Word * (p + 1) + (r + x - Word)
      <4>1. Word * (p + 1) = p * Word + Word
        BY <2>2, SMT
      <4>2. PICK w \in Int : w = p * Word
        BY <2>2, SMT
      <4>3. w + Word + (r + x - Word) = w + r + x
        BY <2>2
      <4> QED BY <2>1, <2>2, <4>1, <4>2, <4>3
    <3>2. r + x - Word \in 0..(Word - 1) /\ p + 1 \in Int
      BY <1>1, <2>1, <2>4, WordNat
    <3>3. n = r + x - Word
      BY <3>1, <3>2, Remainder
    <3>4. r - (r + x - Word) = Word - x
      BY <2>2
    <3> QED BY <2>1, <3>3, <3>4
  <2>5. r + x < Word \/ r + x >= Word
    BY <2>2
  <2> QED BY <2>3, <2>4, <2>5
<1> QED BY <1>2, <1>3, <1>4

-----------------------------------------------------------------------------
(* Types                                                                     *)

Callbacks == {NULL, "speaker_tick", "mode13_fb_tick", "update_spinner"}
Callers == {"user", "sleep_deadline", "sleep_test", "beep_deadline"}

LEMMA Limits ==
    MsPerTick \in Nat /\ Start \in Nat /\ MAX_CALLBACKS \in Nat /\ MAX_CALLBACKS >= 3
BY ClockAssumption

LEMMA Later == \A m, n \in Nat : m + n \in Nat /\ m + n >= m
OBVIOUS

LEMMA InRange ==
    /\ 0 \in 0..(Word - 1)
    /\ \A n \in 0..MAX_CALLBACKS : n < MAX_CALLBACKS => n + 1 \in 0..MAX_CALLBACKS
BY WordNat, Limits

LEMMA Nearer == \A d, m, n \in Nat : n >= m /\ 2 * (d - m) < Word => 2 * (d - n) < Word
BY WordNat

LEMMA Short == \A d \in Durations : d \in Nat /\ 2 * d < Word
BY ClockAssumption

LEMMA Unpacked ==
    ASSUME TypeOK
    PROVE  /\ monotonic_ms \in Clocks /\ ms \in Clocks /\ Now \in Nat /\ Value(ms) \in Nat
           /\ callbacks \in [1..MAX_CALLBACKS -> Callbacks]
           /\ registered_callbacks \in 0..MAX_CALLBACKS
           /\ speaker_off_deadline_ms \in 0..(Word - 1) /\ speaker \in BOOLEAN
           /\ intEnabled \in BOOLEAN /\ eflags \in BOOLEAN
           /\ pc \in Pcs /\ ret \in Callers
           /\ duration \in Nat /\ deadline \in Nat /\ asked \in Nat /\ due \in Nat
           /\ overlap \in BOOLEAN /\ message \in {"", "Page Fault"}
<1>1. monotonic_ms \in Clocks /\ ms \in Clocks
  BY DEF TypeOK, Clocks
<1>2. Now \in Nat /\ Value(ms) \in Nat
  BY <1>1, TwoWords DEF Now
<1> QED BY <1>1, <1>2 DEF TypeOK, Callbacks, Callers

LEMMA Types ==
    ASSUME monotonic_ms' \in Clocks, ms' \in Clocks,
           callbacks' \in [1..MAX_CALLBACKS -> Callbacks],
           registered_callbacks' \in 0..MAX_CALLBACKS,
           speaker_off_deadline_ms' \in 0..(Word - 1), speaker' \in BOOLEAN,
           intEnabled' \in BOOLEAN, eflags' \in BOOLEAN, pc' \in Pcs, ret' \in Callers,
           duration' \in Nat, deadline' \in Nat, asked' \in Nat, due' \in Nat,
           overlap' \in BOOLEAN, message' \in {"", "Page Fault"}
    PROVE  TypeOK'
BY DEF TypeOK, Clocks, Callbacks, Callers

LEMMA InitType == Init => TypeOK /\ Counting
<1> SUFFICES ASSUME Init PROVE TypeOK /\ Counting
  OBVIOUS
<1>1. monotonic_ms \in Clocks /\ ms \in Clocks
  BY TwoWords, Limits DEF Init
<1>2. Len(Early) = 2 /\ Early[1] \in Callbacks /\ Early[2] \in Callbacks
  BY DEF Early, Callbacks
<1>3. callbacks \in [1..MAX_CALLBACKS -> Callbacks]
  <2>1. \A i \in 1..MAX_CALLBACKS : (IF i <= 2 THEN Early[i] ELSE NULL) \in Callbacks
    <3> TAKE i \in 1..MAX_CALLBACKS
    <3>1. i <= 2 => i = 1 \/ i = 2
      BY Limits
    <3> QED BY <1>2, <3>1 DEF Callbacks
  <2> QED BY <1>2, <2>1 DEF Init
<1>4. registered_callbacks \in 0..MAX_CALLBACKS
  <2>1. registered_callbacks = 2
    BY <1>2 DEF Init
  <2> QED BY <2>1, Limits
<1> QED BY <1>1, <1>3, <1>4, InRange DEF Init, TypeOK, Clocks, Pcs, Counting, Callbacks

\* The tick: time goes on or, at its bound, stands still.
LEMMA Ticks ==
    ASSUME TypeOK, timer_interrupt_handler
    PROVE  /\ monotonic_ms' \in Clocks /\ Now' \in Nat /\ Now' >= Now
           /\ monotonic_ms'.low = Now' % Word
<1>1. PICK n \in Nat : n >= Now /\ monotonic_ms' = Words(n)
  <2>1. Now \in Nat /\ Now + MsPerTick \in Nat /\ Now + MsPerTick >= Now
    BY Unpacked, Limits, Later
  <2>2. monotonic_ms' = Words(Now) \/ monotonic_ms' = Words(Now + MsPerTick)
    BY DEF timer_interrupt_handler
  <2> QED BY <2>1, <2>2
<1>2. Now' = n
  BY <1>1, TwoWords DEF Now
<1> QED BY <1>1, <1>2, TwoWords

LEMMA NextType == TypeOK /\ Counting /\ [Next]_vars => (TypeOK /\ Counting)'
<1> SUFFICES ASSUME TypeOK, Counting, [Next]_vars PROVE TypeOK' /\ Counting'
  OBVIOUS
<1> USE Unpacked, Types
<1> USE DEF Thread, Hardware, clock, sound, local, tone, call, Read
<1>1. CASE timer_interrupt_handler
  <2>1. monotonic_ms' \in Clocks
    BY <1>1, Ticks
  <2>2. speaker_off_deadline_ms' \in 0..(Word - 1) /\ speaker' \in BOOLEAN
    <3>1. \/ speaker_off_deadline_ms' = 0 /\ speaker' = FALSE
          \/ speaker_off_deadline_ms' = speaker_off_deadline_ms /\ speaker' = speaker
      BY <1>1 DEF timer_interrupt_handler, speaker_tick
    <3> QED BY <3>1, InRange
  <2>3. pc' \in Pcs /\ (pc' = "register_count" => pc = "register_count")
    BY <1>1 DEF timer_interrupt_handler, Pcs
  <2>4. intEnabled' \in BOOLEAN /\ message' \in {"", "Page Fault"}
    BY <1>1 DEF timer_interrupt_handler
  <2>5. UNCHANGED <<callbacks, registered_callbacks, eflags, ret, ms, duration, deadline,
                    asked, due, overlap>>
    BY <1>1 DEF timer_interrupt_handler
  <2> QED BY <2>1, <2>2, <2>3, <2>4, <2>5 DEF Counting
<1>2. CASE add_timer_callback
  <2> USE DEF Unregistered
  <2>1. ASSUME NEW step \in {"register_entry", "user"}, StoreCount(step),
               registered_callbacks < MAX_CALLBACKS
        PROVE  TypeOK' /\ Counting'
    <3>1. registered_callbacks' \in 0..MAX_CALLBACKS
      <4>1. registered_callbacks' = registered_callbacks + 1
        BY <2>1 DEF StoreCount
      <4> QED BY <2>1, <4>1, InRange
    <3>2. pc' \in Pcs /\ pc' # "register_count"
      BY <2>1 DEF StoreCount, Pcs
    <3> QED BY <2>1, <3>1, <3>2 DEF StoreCount, Counting
  <2>2. ASSUME NEW step \in {"register_count", "user"}, NEW i, StoreEntry(i, step),
               step = "register_count" => registered_callbacks < MAX_CALLBACKS
        PROVE  TypeOK' /\ Counting'
    <3>1. callbacks' \in [1..MAX_CALLBACKS -> Callbacks]
      BY <2>2 DEF StoreEntry, Callbacks
    <3>2. pc' \in Pcs /\ pc' = step
      BY <2>2 DEF StoreEntry, Pcs
    <3> QED BY <2>2, <3>1, <3>2 DEF StoreEntry, Counting
  <2> QED BY <1>2, <2>1, <2>2 DEF add_timer_callback, StoreFirst, StoreSecond, Counting
<1>3. CASE handle_time_ms
  BY <1>3 DEF handle_time_ms, Pcs, Counting, Callers
<1>4. ASSUME NEW d \in Durations, handle_sleep(d) \/ handle_beep(d) PROVE TypeOK' /\ Counting'
  <2>1. d \in Nat
    BY Short
  <2>2. CASE handle_sleep(d)
    BY <2>1, <2>2 DEF handle_sleep, Pcs, Counting, Callers
  <2>3. CASE handle_beep(d)
    <3>1. overlap' \in BOOLEAN
      BY <2>3 DEF handle_beep
    <3> QED BY <2>1, <2>3, <3>1 DEF handle_beep, Pcs, Counting
  <2> QED BY <1>4, <2>2, <2>3
<1>5. ASSUME Return, UNCHANGED <<clock, message, eflags>>,
             speaker_off_deadline_ms' \in 0..(Word - 1), speaker' \in BOOLEAN,
             intEnabled' \in BOOLEAN, due' \in Nat, overlap' \in BOOLEAN
      PROVE  TypeOK' /\ Counting'
  <2>1. Words(0) \in Clocks
    BY TwoWords
  <2> QED BY <1>5, <2>1 DEF Return, Pcs, Counting, Callers
<1>6. CASE pit_monotonic_ms
  <2>1. CASE ReadSave
    BY <2>1 DEF ReadSave, Pcs, Counting
  <2>2. CASE ReadLow \/ ReadHigh
    <3>1. ms' \in Clocks
      BY <2>2 DEF ReadLow, ReadHigh, Clocks
    <3> QED BY <2>2, <3>1 DEF ReadLow, ReadHigh, Pcs, Counting
  <2>3. CASE ReadRestore
    <3>1. intEnabled' \in BOOLEAN
      BY <2>3, Zenon DEF ReadRestore
    <3>2. CASE Return
      BY <1>5, <2>3, <3>1, <3>2 DEF ReadRestore
    <3>3. CASE pc' = ret /\ UNCHANGED <<ret, ms, local>>
      <4>1. pc' \in Pcs /\ pc' # "register_count"
        BY <3>3 DEF Callers, Pcs
      <4>2. UNCHANGED <<Hardware, eflags, tone>>
        BY <2>3 DEF ReadRestore
      <4> QED BY <3>1, <3>3, <4>1, <4>2 DEF Counting
    <3> QED BY <2>3, <3>2, <3>3 DEF ReadRestore
  <2> QED BY <1>6, <2>1, <2>2, <2>3 DEF pit_monotonic_ms
<1>7. CASE msleep \/ speaker_beep
  <2>1. CASE SleepDeadline
    <3>1. deadline' \in Nat
      <4>1. deadline' = Value(ms) + duration
        BY <2>1 DEF SleepDeadline
      <4> QED BY <4>1, Later
    <3> QED BY <2>1, <3>1 DEF SleepDeadline, Pcs, Counting
  <2>2. CASE SleepLoop \/ Halt \/ speaker_on
    BY <2>2 DEF SleepLoop, Halt, speaker_on, Pcs, Counting, Callers
  <2>3. CASE SleepTest
    <3>1. CASE Return
      BY <1>5, <2>3, <3>1 DEF SleepTest
    <3>2. CASE pc' = "hlt" /\ UNCHANGED <<ret, ms, local>>
      BY <2>3, <3>2 DEF SleepTest, Pcs, Counting
    <3> QED BY <2>3, <3>1, <3>2 DEF SleepTest
  <2>4. CASE BeepDeadline
    <3>1. due' = Value(ms) + duration
      BY <2>4 DEF BeepDeadline
    <3>2. due' \in Nat
      BY <3>1, Later
    <3>3. speaker_off_deadline_ms' \in 0..(Word - 1)
      BY <2>4, <3>2, Division DEF BeepDeadline
    <3> QED BY <1>5, <2>4, <3>2, <3>3 DEF BeepDeadline
  <2> QED BY <1>7, <2>1, <2>2, <2>3, <2>4 DEF msleep, speaker_beep
<1>8. CASE UNCHANGED vars
  BY <1>8 DEF vars, Counting
<1> QED BY <1>1, <1>2, <1>3, <1>4, <1>6, <1>7, <1>8 DEF Next, Thread_Next

\* For every tick, word and order of stores: the words of the clock and the deadline
\* fit, and the callbacks stay inside their array.
THEOREM TypeCorrect == Spec => []TypeOK
<1> QED BY InitType, NextType, PTL DEF Spec

-----------------------------------------------------------------------------
(* A read of the clock is one of a single moment                             *)

LEMMA InitRead == Init => WholeRead
BY DEF Init, WholeRead, Flags, Halves, Reading

LEMMA NextRead == TypeOK /\ WholeRead /\ [Next]_vars => WholeRead'
<1> SUFFICES ASSUME TypeOK, WholeRead, [Next]_vars PROVE WholeRead'
  OBVIOUS
<1> USE DEF WholeRead, Flags, Halves, Reading, Thread, Hardware, clock, Read
<1>1. CASE timer_interrupt_handler
  BY <1>1 DEF timer_interrupt_handler
<1>2. CASE add_timer_callback
  <2>1. /\ pc \in {"register", "register_entry", "register_count"}
        /\ pc' \in {"register_entry", "register_count", "user"} /\ UNCHANGED intEnabled
    BY <1>2 DEF add_timer_callback, StoreFirst, StoreSecond, StoreCount, StoreEntry, Unregistered
  <2> QED BY <2>1
<1>3. ASSUME NEW d, handle_time_ms \/ handle_sleep(d) \/ handle_beep(d) PROVE WholeRead'
  BY <1>3 DEF handle_time_ms, handle_sleep, handle_beep
<1>4. CASE ReadSave
  BY <1>4, Unpacked DEF ReadSave
<1>5. CASE ReadLow
  <2>1. ms'.low = monotonic_ms'.low
    BY <1>5, Unpacked DEF ReadLow, Clocks
  <2> QED BY <1>5, <2>1 DEF ReadLow
<1>6. CASE ReadHigh
  <2>1. ms' = monotonic_ms
    BY <1>6, Unpacked DEF ReadHigh, Clocks
  <2> QED BY <1>6, <2>1 DEF ReadHigh
<1>7. CASE ReadRestore
  <2>1. intEnabled'
    BY <1>7, Zenon DEF ReadRestore
  <2>2. pc' \in Callers
    BY <1>7, Unpacked DEF ReadRestore, Return, Callers
  <2> QED BY <2>1, <2>2 DEF Callers
<1>8. CASE msleep
  BY <1>8 DEF msleep, SleepDeadline, SleepLoop, SleepTest, Halt, Return
<1>9. CASE speaker_beep
  BY <1>9 DEF speaker_beep, speaker_on, BeepDeadline, Return
<1>10. CASE UNCHANGED vars
  BY <1>10 DEF vars
<1> QED BY <1>1, <1>2, <1>3, <1>4, <1>5, <1>6, <1>7, <1>8, <1>9, <1>10
        DEF Next, Thread_Next, pit_monotonic_ms

\* Wherever the timer interrupt falls, pit_monotonic_ms answers with one time the
\* clock has shown, and outside it IF stays on.
THEOREM ReadIsWhole == Spec => []ReadIsNow
<1>1. Init => TypeOK /\ Counting /\ WholeRead
  BY InitType, InitRead
<1>2. (TypeOK /\ Counting /\ WholeRead) /\ [Next]_vars => (TypeOK /\ Counting /\ WholeRead)'
  BY NextType, NextRead
<1>3. WholeRead => ReadIsNow
  BY DEF WholeRead, Flags, Halves, Reading, ReadIsNow, Now
<1> QED BY <1>1, <1>2, <1>3, PTL DEF Spec

-----------------------------------------------------------------------------
(* msleep is never too short                                                 *)

LEMMA InitSleeping == Init => Sleeping
<1> SUFFICES ASSUME Init PROVE Sleeping
  OBVIOUS
<1>1. Now \in Nat
  BY InitType, Unpacked
<1>2. asked = 0 /\ pc = "register"
  BY DEF Init
<1> QED BY <1>1, <1>2 DEF Sleeping, Asleep, ReadFor, Reading

LEMMA NextSleeping ==
    TypeOK /\ TypeOK' /\ WholeRead /\ Sleeping /\ [Next]_vars => Sleeping'
<1> SUFFICES ASSUME TypeOK, TypeOK', WholeRead, Sleeping, [Next]_vars PROVE Sleeping'
  OBVIOUS
<1>0. /\ Now \in Nat /\ Now' \in Nat /\ Value(ms) \in Nat /\ asked \in Nat /\ deadline \in Nat
      /\ duration \in Nat /\ Now >= asked
  <2>1. Now \in Nat /\ Value(ms) \in Nat /\ asked \in Nat /\ deadline \in Nat /\ duration \in Nat
    BY Unpacked
  <2>2. Now' \in Nat
    <3>1. monotonic_ms' \in Clocks
      BY DEF TypeOK, Clocks
    <3> QED BY <3>1, TwoWords DEF Now
  <2> QED BY <2>1, <2>2 DEF Sleeping
<1> USE DEF Sleeping, Asleep, ReadFor, Reading, Thread, Hardware, clock, local, tone, call, Read
<1>1. CASE timer_interrupt_handler
  <2>1. /\ Now' >= Now /\ UNCHANGED <<ret, ms, duration, deadline, asked>>
        /\ pc' \in {pc, "panic"} \/ (pc = "halted" /\ pc' = "sleep_loop")
    BY <1>1, Ticks DEF timer_interrupt_handler
  <2>2. Now' >= asked' /\ Value(ms') = Value(ms)
    BY <1>0, <2>1
  <2>3. Value(ms) <= Now => Value(ms') <= Now'
    BY <1>0, <2>1
  <2> QED BY <1>0, <2>1, <2>2, <2>3
<1>2. UNCHANGED monotonic_ms => Now' = Now
  BY DEF Now
<1>3. CASE add_timer_callback
  BY <1>2, <1>3 DEF add_timer_callback, StoreFirst, StoreSecond, StoreCount, StoreEntry,
                    Unregistered
<1>4. ASSUME NEW d, handle_time_ms \/ handle_sleep(d) \/ handle_beep(d) PROVE Sleeping'
  BY <1>0, <1>2, <1>4 DEF handle_time_ms, handle_sleep, handle_beep
<1>5. CASE ReadSave \/ ReadLow \/ ReadHigh
  BY <1>2, <1>5 DEF ReadSave, ReadLow, ReadHigh
<1>6. ASSUME Return, UNCHANGED monotonic_ms PROVE Sleeping'
  BY <1>0, <1>2, <1>6 DEF Return
<1>7. CASE ReadRestore
  <2>1. CASE Return
    BY <1>6, <1>7, <2>1 DEF ReadRestore
  <2>2. CASE pc' = ret /\ UNCHANGED <<ret, ms, local>>
    <3>1. Value(ms') = Now /\ Value(ms) = Now
      BY <1>7, <2>2 DEF ReadRestore, WholeRead, Halves, Now
    <3>2. ret \in Callers /\ pc' = ret /\ UNCHANGED <<duration, deadline, asked, monotonic_ms>>
      BY <1>7, <2>2, Unpacked DEF ReadRestore
    <3>3. pc' = "sleep_test" => deadline >= asked + duration
      BY <1>7, <3>2 DEF ReadRestore
    <3> QED BY <1>0, <1>2, <3>1, <3>2, <3>3 DEF Callers
  <2> QED BY <1>7, <2>1, <2>2 DEF ReadRestore
<1>8. CASE SleepDeadline
  <2>1. deadline' = Value(ms) + duration /\ Value(ms) >= asked
    BY <1>8 DEF SleepDeadline
  <2>2. deadline' >= asked + duration
    BY <1>0, <2>1
  <2> QED BY <1>0, <1>2, <1>8, <2>2 DEF SleepDeadline
<1>9. CASE SleepLoop \/ Halt \/ speaker_on
  BY <1>0, <1>2, <1>9 DEF SleepLoop, Halt, speaker_on
<1>10. CASE SleepTest
  <2>1. CASE Return
    BY <1>6, <1>10, <2>1 DEF SleepTest
  <2>2. CASE pc' = "hlt" /\ UNCHANGED <<ret, ms, local>>
    BY <1>2, <1>10, <2>2 DEF SleepTest
  <2> QED BY <1>10, <2>1, <2>2 DEF SleepTest
<1>11. CASE BeepDeadline
  BY <1>6, <1>11 DEF BeepDeadline
<1>12. CASE UNCHANGED vars
  BY <1>2, <1>12 DEF vars
<1> QED BY <1>1, <1>3, <1>4, <1>5, <1>7, <1>8, <1>9, <1>10, <1>11, <1>12
        DEF Next, Thread_Next, pit_monotonic_ms, msleep, speaker_beep

\* The test that ends a sleep looks at a time that has come, and at a deadline no
\* earlier than asked for.
THEOREM SleepIsLong == Spec => SleepsLongEnough
<1> DEFINE I == TypeOK /\ Counting /\ WholeRead /\ Sleeping
<1>1. Init => I
  BY InitType, InitRead, InitSleeping
<1>2. I /\ [Next]_vars => I'
  BY NextType, NextRead, NextSleeping
<1>3. I /\ [Next]_vars => [pc = "sleep_test" /\ pc' = "user" => Now >= asked + duration]_vars
  <2> SUFFICES ASSUME I, Next, pc = "sleep_test", pc' = "user"
               PROVE  Now >= asked + duration
    OBVIOUS
  <2>1. ~timer_interrupt_handler
    BY DEF timer_interrupt_handler
  <2>2. ~add_timer_callback /\ ~pit_monotonic_ms /\ ~speaker_beep
    BY DEF add_timer_callback, StoreFirst, StoreSecond, pit_monotonic_ms, ReadSave, ReadLow,
           ReadHigh, ReadRestore, speaker_beep, speaker_on, BeepDeadline
  <2>3. ~handle_time_ms /\ \A d : ~handle_sleep(d) /\ ~handle_beep(d)
    BY DEF handle_time_ms, handle_sleep, handle_beep
  <2>4. SleepTest
    BY <2>1, <2>2, <2>3 DEF Next, Thread_Next, msleep, SleepDeadline, SleepLoop, Halt
  <2>5. ~(Value(ms) < deadline) /\ Value(ms) <= Now /\ deadline >= asked + duration
    BY <2>4 DEF SleepTest, TooEarly, Sleeping, Asleep
  <2>6. /\ Now \in Nat /\ Value(ms) \in Nat /\ asked \in Nat /\ deadline \in Nat
        /\ duration \in Nat
    BY Unpacked
  <2> QED BY <2>5, <2>6
<1> QED BY <1>1, <1>2, <1>3, PTL DEF Spec, SleepsLongEnough

-----------------------------------------------------------------------------
(* No tone is cut off                                                        *)

LEMMA InitSounding == Init => Sounding
<1> SUFFICES ASSUME Init PROVE Sounding
  OBVIOUS
<1>1. Now \in Nat
  BY InitType, Unpacked
<1>2. due = 0 /\ pc = "register"
  BY DEF Init
<1> QED BY <1>1, <1>2 DEF Sounding, ToneOn, ReadFor, Reading

LEMMA NextSounding ==
    TypeOK /\ TypeOK' /\ WholeRead /\ Sleeping /\ Sounding /\ [Next]_vars => Sounding'
<1> SUFFICES ASSUME TypeOK, TypeOK', WholeRead, Sleeping, Sounding, [Next]_vars PROVE Sounding'
  OBVIOUS
<1>0. /\ Now \in Nat /\ Now' \in Nat /\ Value(ms) \in Nat /\ due \in Nat
      /\ speaker_off_deadline_ms \in 0..(Word - 1)
  <2>1. Now' \in Nat
    <3>1. monotonic_ms' \in Clocks
      BY DEF TypeOK, Clocks
    <3> QED BY <3>1, TwoWords DEF Now
  <2> QED BY <2>1, Unpacked
<1> USE DEF Sounding, ToneOn, ReadFor, Reading, Thread, Hardware, clock, sound, local, tone, call,
            Read
<1>1. CASE timer_interrupt_handler
  <2>1. /\ Now' >= Now /\ UNCHANGED <<ret, duration, due, overlap>>
        /\ pc' \in {pc, "panic"} \/ (pc = "halted" /\ pc' = "sleep_loop")
    BY <1>1, Ticks DEF timer_interrupt_handler
  <2>2. speaker_off_deadline_ms = 0 => UNCHANGED sound
    BY <1>1 DEF timer_interrupt_handler, speaker_tick
  <2>3. ASSUME Now' < due, ~overlap
        PROVE  UNCHANGED sound /\ 2 * (due - Now') < Word
    <3>1. Now < due /\ 2 * (due - Now) < Word /\ speaker_off_deadline_ms \in {0, due % Word}
      BY <1>0, <2>1, <2>3
    <3>2. 2 * (due - Now') < Word
      BY <1>0, <2>1, <3>1, Nearer
    <3>3. CASE speaker_off_deadline_ms = due % Word
      <4>1. ~((monotonic_ms'.low - speaker_off_deadline_ms) % Word < Word \div 2)
        BY <1>0, <1>1, <2>3, <3>2, <3>3, Ticks, Ahead
      <4> QED BY <1>1, <3>2, <4>1 DEF timer_interrupt_handler, speaker_tick, Expired
    <3> QED BY <2>2, <3>1, <3>2, <3>3
  <2>4. (pc' = "beep_on" \/ ToneOn') => (pc = "beep_on" \/ ToneOn)
    BY <2>1
  <2>5. ToneOn' => ToneOn
    BY <2>1
  <2> QED BY <1>0, <2>1, <2>2, <2>3, <2>4, <2>5
<1>2. UNCHANGED monotonic_ms => Now' = Now
  BY DEF Now
<1>3. CASE add_timer_callback
  BY <1>2, <1>3 DEF add_timer_callback, StoreFirst, StoreSecond, StoreCount, StoreEntry,
                    Unregistered
<1>4. CASE handle_time_ms \/ \E d \in Durations : handle_sleep(d)
  BY <1>2, <1>4 DEF handle_time_ms, handle_sleep
<1>5. ASSUME NEW d \in Durations, handle_beep(d) PROVE Sounding'
  <2>1. ~overlap' => speaker_off_deadline_ms' = 0
    <3>1. overlap' = (speaker_off_deadline_ms # 0) /\ UNCHANGED speaker_off_deadline_ms
      BY <1>5 DEF handle_beep
    <3> QED BY <3>1, Zenon
  <2>2. /\ pc' = "beep_on" /\ due' = 0 /\ duration' \in Durations
        /\ UNCHANGED monotonic_ms
    BY <1>5 DEF handle_beep
  <2>3. ~(Now' < due')
    BY <1>0, <2>2
  <2> QED BY <2>1, <2>2, <2>3
<1>6. CASE ReadSave \/ ReadLow \/ ReadHigh
  BY <1>2, <1>6 DEF ReadSave, ReadLow, ReadHigh
<1>7. ASSUME Return, UNCHANGED <<monotonic_ms, sound, tone>> PROVE Sounding'
  BY <1>2, <1>7 DEF Return
<1>8. CASE ReadRestore
  <2>1. CASE Return
    BY <1>7, <1>8, <2>1 DEF ReadRestore
  <2>2. CASE pc' = ret /\ UNCHANGED <<ret, ms, local>>
    <3>1. pc = "read_restore" /\ ret \in Callers /\ UNCHANGED <<monotonic_ms, sound, tone>>
      BY <1>8, Unpacked DEF ReadRestore
    <3> QED BY <1>2, <2>2, <3>1 DEF Callers
  <2> QED BY <1>8, <2>1, <2>2 DEF ReadRestore
<1>9. CASE SleepDeadline \/ SleepLoop \/ Halt
  BY <1>2, <1>9 DEF SleepDeadline, SleepLoop, Halt
<1>10. CASE SleepTest
  <2>1. CASE Return
    BY <1>7, <1>10, <2>1 DEF SleepTest
  <2>2. CASE pc' = "hlt" /\ UNCHANGED <<ret, ms, local>>
    BY <1>2, <1>10, <2>2 DEF SleepTest
  <2> QED BY <1>10, <2>1, <2>2 DEF SleepTest
<1>11. CASE speaker_on
  BY <1>0, <1>2, <1>11 DEF speaker_on
<1>12. CASE BeepDeadline
  <2>1. /\ due' = Value(ms) + duration /\ speaker_off_deadline_ms' = due' % Word
        /\ pc' = "user" /\ UNCHANGED <<monotonic_ms, speaker, overlap>>
        /\ duration \in Durations /\ Value(ms) <= Now /\ (~overlap => speaker)
    BY <1>12 DEF BeepDeadline, Return, Sleeping
  <2>2. 2 * duration < Word /\ duration \in Nat
    BY <2>1, Short
  <2>3. 2 * (due' - Now) < Word
    BY <1>0, <2>1, <2>2, WordNat
  <2> QED BY <1>2, <2>1, <2>3
<1>13. CASE UNCHANGED vars
  BY <1>2, <1>13 DEF vars
<1> QED BY <1>1, <1>3, <1>4, <1>5, <1>6, <1>8, <1>9, <1>10, <1>11, <1>12, <1>13
        DEF Next, Thread_Next, pit_monotonic_ms, msleep, speaker_beep

\* A tone sounds until it is due, also when the 32-bit deadline has wrapped and the
\* clock has not, for every duration below half a word.
THEOREM TonesLast == Spec => []ToneLasts
<1> DEFINE I == TypeOK /\ Counting /\ WholeRead /\ Sleeping /\ Sounding
<1>1. Init => I
  BY InitType, InitRead, InitSleeping, InitSounding
<1>2. I /\ [Next]_vars => I'
  BY NextType, NextRead, NextSleeping, NextSounding
<1>3. I => ToneLasts
  BY DEF Sounding, ToneLasts
<1> QED BY <1>1, <1>2, <1>3, PTL DEF Spec

-----------------------------------------------------------------------------
(* The callbacks                                                             *)

\* Every callback that is counted is there, in either order of the stores, but for the
\* one that is being registered where the counter came first.
Filled ==
    /\ pc = "panic" => message = "Page Fault"
    /\ pc # "panic" =>
           \A i \in 1..registered_callbacks :
               callbacks[i] # NULL \/ (pc = "register_entry" /\ i = registered_callbacks)
    /\ pc = "register_entry" => registered_callbacks > 0
    /\ pc = "register_count" =>
           /\ registered_callbacks < MAX_CALLBACKS
           /\ callbacks[registered_callbacks + 1] # NULL

LEMMA InitFilled == Init => Filled
<1> SUFFICES ASSUME Init PROVE Filled
  OBVIOUS
<1>1. registered_callbacks = 2 /\ Len(Early) = 2
  BY DEF Init, Early
<1>2. \A i \in 1..2 : callbacks[i] = Early[i] /\ Early[i] # NULL
  <2>1. 1..2 \subseteq 1..MAX_CALLBACKS
    BY ClockAssumption
  <2>2. ASSUME NEW i \in 1..2 PROVE callbacks[i] = Early[i]
    <3>1. i \in 1..MAX_CALLBACKS /\ i <= Len(Early)
      BY <1>1, <2>1
    <3> QED BY <3>1 DEF Init
  <2> QED BY <2>2 DEF Early, NULL
<1> QED BY <1>1, <1>2 DEF Init, Filled

LEMMA RegisterFilled == TypeOK /\ Filled /\ add_timer_callback => Filled'
<1> SUFFICES ASSUME TypeOK, Filled, add_timer_callback PROVE Filled'
  OBVIOUS
<1>1. /\ registered_callbacks \in 0..MAX_CALLBACKS /\ MAX_CALLBACKS \in Nat
      /\ DOMAIN callbacks = 1..MAX_CALLBACKS
  BY ClockAssumption DEF TypeOK
<1>2. CASE pc = "register" /\ StoreCount("register_entry")
  <2>1. /\ pc' = "register_entry" /\ registered_callbacks' = registered_callbacks + 1
        /\ UNCHANGED callbacks
    BY <1>2 DEF StoreCount
  <2>2. \A i \in 1..(registered_callbacks + 1) :
            i \in 1..registered_callbacks \/ i = registered_callbacks + 1
    BY <1>1
  <2> QED BY <1>1, <1>2, <2>1, <2>2 DEF Filled
<1>3. CASE /\ pc = "register" /\ registered_callbacks < MAX_CALLBACKS
           /\ StoreEntry(registered_callbacks + 1, "register_count")
  <2>1. /\ pc' = "register_count" /\ UNCHANGED registered_callbacks
        /\ callbacks' = [callbacks EXCEPT ![registered_callbacks + 1] = "update_spinner"]
    BY <1>3 DEF StoreEntry, Unregistered
  <2>2. /\ registered_callbacks + 1 \in 1..MAX_CALLBACKS
        /\ \A i \in 1..registered_callbacks : i \in 1..MAX_CALLBACKS /\ i # registered_callbacks + 1
    BY <1>1, <1>3
  <2>3. /\ callbacks'[registered_callbacks + 1] = "update_spinner"
        /\ \A i \in 1..registered_callbacks : callbacks'[i] = callbacks[i]
    BY <1>1, <2>1, <2>2
  <2> QED BY <1>3, <2>1, <2>3 DEF Filled, NULL
<1>4. CASE pc = "register_entry" /\ StoreEntry(registered_callbacks, "user")
  <2>1. /\ pc' = "user" /\ UNCHANGED registered_callbacks
        /\ callbacks' = [callbacks EXCEPT ![registered_callbacks] = "update_spinner"]
    BY <1>4 DEF StoreEntry, Unregistered
  <2>2. /\ registered_callbacks \in 1..MAX_CALLBACKS
        /\ \A i \in 1..registered_callbacks : i \in 1..MAX_CALLBACKS
    BY <1>1, <1>4 DEF Filled
  <2>3. \A i \in 1..registered_callbacks :
            callbacks'[i] = IF i = registered_callbacks THEN "update_spinner" ELSE callbacks[i]
    BY <1>1, <2>1, <2>2
  <2> QED BY <1>4, <2>1, <2>3 DEF Filled, NULL
<1>5. CASE pc = "register_count" /\ StoreCount("user")
  <2>1. /\ pc' = "user" /\ registered_callbacks' = registered_callbacks + 1
        /\ UNCHANGED callbacks
    BY <1>5 DEF StoreCount
  <2>2. \A i \in 1..(registered_callbacks + 1) :
            i \in 1..registered_callbacks \/ i = registered_callbacks + 1
    BY <1>1
  <2> QED BY <1>5, <2>1, <2>2 DEF Filled
<1> QED BY <1>2, <1>3, <1>4, <1>5 DEF add_timer_callback, StoreFirst, StoreSecond

\* A tick that stops the kernel finds it between the two stores.
LEMMA TickFinds ==
    ASSUME Filled, timer_interrupt_handler, message' # message
    PROVE  pc = "register_entry"
<1>1. Registered(NULL) /\ message' = "Page Fault"
  BY DEF timer_interrupt_handler
<1>2. pc # "panic"
  BY <1>1 DEF Filled
<1> QED BY <1>1, <1>2 DEF Registered, Filled

LEMMA NextFilled == TypeOK /\ Filled /\ [Next]_vars => Filled'
<1> SUFFICES ASSUME TypeOK, Filled, [Next]_vars PROVE Filled'
  OBVIOUS
<1>1. ASSUME UNCHANGED <<callbacks, registered_callbacks>>, pc # "register_entry", pc # "panic",
             pc' \notin {"register_entry", "register_count", "panic"}
      PROVE  Filled'
  BY <1>1 DEF Filled
<1>2. CASE timer_interrupt_handler
  <2>1. CASE Registered(NULL)
    BY <1>2, <2>1 DEF timer_interrupt_handler, Filled
  <2>2. CASE ~Registered(NULL)
    <3>1. /\ UNCHANGED <<callbacks, registered_callbacks, message>>
          /\ pc' = pc \/ (pc = "halted" /\ pc' = "sleep_loop")
      BY <1>2, <2>2 DEF timer_interrupt_handler
    <3> QED BY <3>1 DEF Filled
  <2> QED BY <2>1, <2>2
<1>3. CASE add_timer_callback
  BY <1>3, RegisterFilled
<1>4. ret \in {"user", "sleep_deadline", "sleep_test", "beep_deadline"}
  BY DEF TypeOK
<1> USE DEF Thread, Hardware, clock, Read, Return
<1>5. CASE handle_time_ms \/ \E d \in Durations : handle_sleep(d) \/ handle_beep(d)
  BY <1>1, <1>5 DEF handle_time_ms, handle_sleep, handle_beep
<1>6. CASE pit_monotonic_ms
  BY <1>1, <1>4, <1>6 DEF pit_monotonic_ms, ReadSave, ReadLow, ReadHigh, ReadRestore
<1>7. CASE msleep
  BY <1>1, <1>7 DEF msleep, SleepDeadline, SleepLoop, SleepTest, Halt
<1>8. CASE speaker_beep
  BY <1>1, <1>8 DEF speaker_beep, speaker_on, BeepDeadline
<1>9. CASE UNCHANGED vars
  BY <1>9 DEF vars, Filled
<1> QED BY <1>2, <1>3, <1>5, <1>6, <1>7, <1>8, <1>9 DEF Next, Thread_Next

\* For every build, whichever store of add_timer_callback it emits first, and wherever the
\* ticks fall: the only moment at which a tick can call a null pointer is the one between
\* the two stores, with the counter stored first.  A build that stores the entry first
\* never has that moment; the run clock_register shows it in the others.
THEOREM NullCallbackWindow == Spec => NullOnlyBetweenStores
<1>1. TypeOK /\ Filled /\ [Next]_vars => [message' # message => pc = "register_entry"]_vars
  <2> SUFFICES ASSUME TypeOK, Filled, Next, message' # message PROVE pc = "register_entry"
    OBVIOUS
  <2>1. ~Thread_Next
    BY DEF Thread_Next, add_timer_callback, StoreFirst, StoreSecond, StoreCount, StoreEntry,
           Unregistered, handle_time_ms, handle_sleep, handle_beep, pit_monotonic_ms, ReadSave,
           ReadLow, ReadHigh, ReadRestore, msleep, SleepDeadline, SleepLoop, SleepTest, Halt,
           speaker_beep, speaker_on, BeepDeadline, Thread, Hardware, Read, Return
  <2> QED BY <2>1, TickFinds DEF Next
<1> QED BY <1>1, InitFilled, NextFilled, TypeCorrect, PTL DEF Spec, NullOnlyBetweenStores
=============================================================================
