---------------------------- MODULE ShellProofs -----------------------------
(***************************************************************************)
(* kernel.c and drivers/vga.c: for every size of the screen and of the     *)
(* command buffer that ShellAssumption allows, every set of commands and   *)
(* every interleaving of timer and keyboard with the printing, the line    *)
(* that Enter will run is the line the user sees.                          *)
(***************************************************************************)
EXTENDS Shell, SequenceTheorems, TLAPS

Line == Prompt \o shell_cmd

\* The first n characters of the line stand right before o, below the first row.
Shown(o, n) ==
    /\ o >= COLS + n
    /\ \A i \in 1..n : video_memory[o - n + i - 1] = Line[i]

\* All of the line but its first n characters is still to be printed.
ToPrint(n) ==
    Len(out) = Len(Line) - n /\ \A i \in 1..Len(out) : out[i] = Line[n + i]

\* The newlines before a prompt, and the banner before those of the first.
PromptComes ==
    /\ shell_cmd = <<>>
    /\ out \in {<<Banner, Newline, Newline, ">", Space>>, <<Newline, Newline, ">", Space>>,
                <<Newline, ">", Space>>}

LineInv ==
    /\ pc \in {"pop", "hlt", "halted"} => Shown(cursor, Len(Line))
    /\ pc = "print" /\ next = "pop" =>
           \/ PromptComes
           \/ \E n \in 0..(Len(Line) - 1) : Shown(offset, n) /\ ToPrint(n)

Inv == ShellTypeOK /\ LineInv

-----------------------------------------------------------------------------
(* Lemmas about the screen and the line                                      *)

\* The places of the screen, of its last row, and of the beginning of a row.
Size == ROWS * COLS

LEMMA Screen ==
    /\ Size \in Nat /\ Places = 0..(Size - 1)
    /\ LastRow = Size - COLS /\ LastRow >= 2 * COLS
    /\ COLS \in Nat \ {0} /\ COLS - 1 \in Places
    /\ SHELL_CMD_CAPACITY + 1 <= Size - 2 * COLS /\ SHELL_CMD_CAPACITY \in Nat
<1>1. COLS \in Nat /\ COLS >= 1 /\ ROWS \in Nat /\ ROWS >= 3
  BY ConsoleAssumption
<1>2. ROWS * COLS \in Nat /\ (ROWS - 1) * COLS = ROWS * COLS - COLS
  BY <1>1, SMT
<1>3. COLS * (ROWS - 2) = ROWS * COLS - 2 * COLS /\ ROWS * COLS - 3 * COLS = COLS * (ROWS - 3)
  BY <1>1, SMT
<1>4. COLS * (ROWS - 3) >= 0
  BY <1>1, SMT
<1> QED BY <1>1, <1>2, <1>3, <1>4, ShellAssumption, SMT DEF Places, LastRow, get_offset, Size

LEMMA RowBelow ==
    ASSUME NEW o \in Places
    PROVE  NextRow(o) \in Nat /\ NextRow(o) >= COLS
<1>1. o \in Nat /\ COLS \in Nat \ {0}
  BY Screen
<1> DEFINE k == o \div COLS
<1>2. k \in Nat
  BY <1>1, SMT
<1>3. k * COLS \in Nat /\ (k + 1) * COLS = k * COLS + COLS
  <2> HIDE DEF k
  <2> QED BY <1>1, <1>2, SMT
<1>4. NextRow(o) = (k + 1) * COLS
  <2>1. NextRow(o) = (o \div COLS + 1) * COLS + 0
    BY DEF NextRow, get_offset
  <2> HIDE DEF k
  <2>2. (k + 1) * COLS + 0 = (k + 1) * COLS
    BY <1>1, <1>2, <1>3, SMT
  <2> QED BY <2>1, <2>2 DEF k
<1> HIDE DEF k
<1> QED BY <1>1, <1>3, <1>4, SMT

Text == Chars \cup {Newline}

\* A prompt and a line, one character after the other.
LEMMA PromptAndLine ==
    ASSUME NEW s \in Seq(Letters), NEW l, l = Prompt \o s
    PROVE  /\ Len(l) = Len(s) + 2 /\ Len(s) \in Nat /\ l[1] = ">" /\ l[2] = Space
           /\ \A i \in 1..Len(s) : l[i + 2] = s[i]
           /\ \A i \in 1..Len(l) : l[i] \in Chars /\ l[i] # Newline
<1>1. Prompt \in Seq(Chars) /\ Len(Prompt) = 2 /\ Prompt[1] = ">" /\ Prompt[2] = Space
  BY DEF Prompt, Chars
<1>2. s \in Seq(Chars) /\ Len(s) \in Nat
  BY SeqMonotonic DEF Chars
<1>3. /\ Len(l) = Len(s) + 2 /\ l[1] = ">" /\ l[2] = Space
      /\ \A i \in 1..Len(s) : l[i + 2] = s[i]
  <2>1. /\ Len(l) = Len(Prompt) + Len(s)
        /\ \A i \in 1..(Len(Prompt) + Len(s)) :
               l[i] = IF i <= Len(Prompt) THEN Prompt[i] ELSE s[i - Len(Prompt)]
    BY <1>1, <1>2, ConcatProperties
  <2>2. PICK k \in Nat : k = Len(s)
    BY <1>2
  <2>3. \A i \in 1..(2 + k) : l[i] = IF i <= 2 THEN Prompt[i] ELSE s[i - 2]
    BY <1>1, <2>1, <2>2
  <2>4. l[1] = ">" /\ l[2] = Space
    <3>1. \A i \in {1, 2} : i \in 1..(2 + k) /\ i <= 2
      OBVIOUS
    <3>2. \A i \in {1, 2} : l[i] = Prompt[i]
      BY <2>3, <3>1
    <3> QED BY <1>1, <3>2
  <2>5. \A i \in 1..Len(s) : l[i + 2] = s[i]
    <3> SUFFICES ASSUME NEW i \in 1..k PROVE l[i + 2] = s[i]
      BY <2>2
    <3>1. i + 2 \in 1..(2 + k) /\ (i + 2) - 2 = i /\ ~(i + 2 <= 2)
      OBVIOUS
    <3>2. l[i + 2] = s[(i + 2) - 2]
      BY <2>3, <3>1
    <3> QED BY <3>1, <3>2
  <2> QED BY <1>1, <1>2, <2>1, <2>4, <2>5
<1>4. ASSUME NEW i \in 1..Len(l) PROVE l[i] \in Chars /\ l[i] # Newline
  <2>1. CASE i = 1 \/ i = 2
    BY <2>1, <1>3 DEF Chars, Space, Newline
  <2>2. CASE i # 1 /\ i # 2
    <3>1. i - 2 \in 1..Len(s) /\ l[i] = s[i - 2]
      BY <2>2, <1>2, <1>3
    <3>2. s[i - 2] \in Letters
      BY <3>1
    <3> QED BY <3>1, <3>2, ShellAssumption DEF Chars
  <2> QED BY <2>1, <2>2
<1> QED BY <1>2, <1>3, <1>4

\* The line before a step, and after it.
LEMMA LineChars ==
    ASSUME shell_cmd \in Seq(Letters)
    PROVE  /\ Len(Line) = shell_cmd_size + 2 /\ shell_cmd_size \in Nat
           /\ Line[1] = ">" /\ Line[2] = Space
           /\ \A i \in 1..shell_cmd_size : Line[i + 2] = shell_cmd[i]
           /\ \A i \in 1..Len(Line) : Line[i] \in Chars /\ Line[i] # Newline
BY PromptAndLine DEF Line, shell_cmd_size

LEMMA NextLineChars ==
    ASSUME shell_cmd' \in Seq(Letters)
    PROVE  /\ Len(Line') = shell_cmd_size' + 2 /\ shell_cmd_size' \in Nat
           /\ Line'[1] = ">" /\ Line'[2] = Space
           /\ \A i \in 1..shell_cmd_size' : Line'[i + 2] = shell_cmd'[i]
BY PromptAndLine DEF Line, shell_cmd_size

-----------------------------------------------------------------------------
(* Types                                                                     *)

LEMMA Characters ==
    /\ Letters \subseteq Chars /\ Chars \subseteq Text
    /\ {Space, ">", ".", Spinner, Banner, Success, Unknown, NotFound} \subseteq Chars
    /\ Newline \in Text /\ Newline \notin Chars /\ Letters \subseteq Keys
BY ShellAssumption DEF Chars, Text, Newline, Space, Keys

LEMMA ClearedIsTyped == Cleared \in [Places -> Chars] /\ 0 \in Places
BY Screen, Characters DEF Cleared

LEMMA InitType == Init => ShellTypeOK
<1> SUFFICES ASSUME Init PROVE ShellTypeOK
  OBVIOUS
<1>1. out \in Seq(Text)
  <2>1. <<Banner, Newline, Newline>> \in Seq(Text) /\ Prompt \in Seq(Text)
    BY Characters DEF Prompt
  <2> QED BY <2>1, ConcatProperties DEF Init
<1>2. shell_cmd \in Seq(Letters) /\ shell_cmd_size = 0 /\ events \in Seq(Keys) /\ Len(events) = 0
  BY DEF Init, shell_cmd_size
<1> QED BY <1>1, <1>2, ClearedIsTyped, ShellAssumption DEF Init, ShellTypeOK, Pcs, Text

\* What PrintChar leaves.
LEMMA PrintCharTypes ==
    ASSUME ShellTypeOK, PrintChar
    PROVE  /\ video_memory' \in [Places -> Chars] /\ cursor' \in Places /\ offset' \in Places
           /\ out' \in Seq(Text)
<1> DEFINE c == Head(out)
<1>1. c \in Text /\ out' \in Seq(Text)
  BY HeadTailProperties DEF PrintChar, ShellTypeOK, Text
<1>2. Written(c) \in [Places -> Chars]
  <2> HIDE DEF c
  <2>1. c = Newline \/ c \in Chars
    BY <1>1 DEF Text
  <2>2. video_memory \in [Places -> Chars] /\ offset \in Places
    BY DEF ShellTypeOK
  <2> QED BY <2>1, <2>2 DEF Written
<1>3. Beyond(c) \in Nat
  BY RowBelow, Screen DEF Beyond, ShellTypeOK
<1>4. LastRow \in Places
  BY Screen
<1>5. CASE Beyond(c) >= Size
  <2>1. scroll(Written(c)) \in [Places -> Chars]
    <3> HIDE DEF c
    <3>1. \A o \in Places : o < LastRow => o + COLS \in Places
      BY Screen
    <3> QED BY <1>2, <3>1, Characters DEF scroll
  <2>2. offset' = LastRow /\ video_memory' = scroll(Written(c))
    BY <1>5 DEF PrintChar, Size
  <2> QED BY <1>1, <1>4, <2>1, <2>2 DEF PrintChar, ShellTypeOK
<1>6. CASE ~(Beyond(c) >= Size)
  <2>1. Beyond(c) \in Places
    <3> HIDE DEF c
    <3> QED BY <1>3, <1>6, Screen
  <2>2. offset' = Beyond(c) /\ video_memory' = Written(c)
    BY <1>6 DEF PrintChar, Size
  <2> QED BY <1>1, <1>2, <2>1, <2>2 DEF PrintChar, ShellTypeOK
<1> QED BY <1>5, <1>6

LEMMA PrintsTypes ==
    ASSUME ShellTypeOK, NEW text \in Seq(Text), Begin(text)
    PROVE  /\ video_memory' \in [Places -> Chars] /\ cursor' \in Places /\ offset' \in Places
           /\ out' \in Seq(Text)
BY DEF ShellTypeOK, Begin

Afterwards == {"pop", "execute", "work", "done", "program", "killproc"}

\* A step that leaves the rest alone keeps the types if it keeps these.
LEMMA Types ==
    ASSUME ShellTypeOK,
           video_memory' \in [Places -> Chars], cursor' \in Places, offset' \in Places,
           out' \in Seq(Text), pc' \in Pcs, next' \in Afterwards,
           shell_cmd' \in Seq(Letters) /\ Len(shell_cmd') < SHELL_CMD_CAPACITY,
           events' \in Seq(Keys) /\ Len(events') <= MaxEvents,
           ticks' \in 0..(SPINNER_TICKS_PER_FRAME - 1), dots' \in 0..Dots
    PROVE  ShellTypeOK'
BY DEF ShellTypeOK, Text, Afterwards, shell_cmd_size

LEMMA Unpacked ==
    ASSUME ShellTypeOK
    PROVE  /\ video_memory \in [Places -> Chars] /\ cursor \in Places /\ offset \in Places
           /\ out \in Seq(Text) /\ pc \in Pcs /\ next \in Afterwards
           /\ shell_cmd \in Seq(Letters) /\ Len(shell_cmd) < SHELL_CMD_CAPACITY
           /\ events \in Seq(Keys) /\ Len(events) <= MaxEvents
           /\ ticks \in 0..(SPINNER_TICKS_PER_FRAME - 1) /\ dots \in 0..Dots
BY DEF ShellTypeOK, Text, Afterwards, shell_cmd_size

LEMMA NextType == ShellTypeOK /\ [Next]_vars => ShellTypeOK'
<1> SUFFICES ASSUME ShellTypeOK, [Next]_vars PROVE ShellTypeOK'
  OBVIOUS
<1> USE Unpacked, Types
<1>1. CASE TimerInterrupt
  <2>1. ticks' \in 0..(SPINNER_TICKS_PER_FRAME - 1)
    BY <1>1, ShellAssumption, SMTT(60) DEF TimerInterrupt
  <2>2. video_memory' \in [Places -> Chars]
    BY <1>1, Characters DEF TimerInterrupt, vga_put_char_at
  <2>3. pc' \in Pcs
    BY <1>1 DEF TimerInterrupt, Wake, Pcs
  <2> QED BY <1>1, <2>1, <2>2, <2>3 DEF TimerInterrupt
<1>2. ASSUME NEW key \in Keys, KeyInterrupt(key) PROVE ShellTypeOK'
  <2>1. events' \in Seq(Keys) /\ Len(events') <= MaxEvents
    <3>1. CASE Len(events) = MaxEvents
      <4>1. events # <<>>
        BY <3>1, ShellAssumption
      <4>2. Tail(events) \in Seq(Keys) /\ Len(Tail(events)) = MaxEvents - 1
        BY <3>1, <4>1, HeadTailProperties
      <4>3. events' = Append(Tail(events), key)
        BY <1>2, <3>1 DEF KeyInterrupt
      <4> QED BY <4>2, <4>3, AppendProperties, ShellAssumption
    <3>2. CASE Len(events) # MaxEvents
      <4>1. events' = Append(events, key) /\ Len(events) \in Nat
        BY <1>2, <3>2 DEF KeyInterrupt
      <4> QED BY <3>2, <4>1, AppendProperties, ShellAssumption
    <3> QED BY <3>1, <3>2
  <2>2. pc' \in Pcs
    BY <1>2 DEF KeyInterrupt, Wake, Pcs
  <2> QED BY <1>2, <2>1, <2>2 DEF KeyInterrupt, console
<1>3. CASE printing
  <2>1. pc' \in Pcs
    BY <1>3 DEF printing, Pcs, Afterwards
  <2> QED BY <1>3, <2>1, PrintCharTypes DEF printing
<1>4. ASSUME NEW key, Takes(key)
      PROVE  events' \in Seq(Keys) /\ Len(events') <= MaxEvents
  <2>1. events' = Tail(events) /\ events # <<>>
    BY <1>4 DEF Takes
  <2>2. Tail(events) \in Seq(Keys) /\ Len(Tail(events)) = Len(events) - 1 /\ Len(events) \in Nat
    BY <2>1, HeadTailProperties
  <2> QED BY <2>1, <2>2, ShellAssumption
<1>5. CASE IgnoreKey
  BY <1>4, <1>5 DEF IgnoreKey, console, shell
<1>6. CASE Erase
  <2>1. shell_cmd' \in Seq(Letters) /\ Len(shell_cmd') < SHELL_CMD_CAPACITY
    <3>1. CASE shell_cmd_size > 0
      <4>1. Len(shell_cmd) \in Nat /\ \A i \in 1..(Len(shell_cmd) - 1) : shell_cmd[i] \in Letters
        OBVIOUS
      <4>2. shell_cmd' = SubSeq(shell_cmd, 1, Len(shell_cmd) - 1)
        BY <1>6, <3>1 DEF Erase, shell_cmd_size
      <4>3. /\ SubSeq(shell_cmd, 1, Len(shell_cmd) - 1) \in Seq(Letters)
            /\ Len(SubSeq(shell_cmd, 1, Len(shell_cmd) - 1))
                   = IF 1 <= Len(shell_cmd) - 1 THEN (Len(shell_cmd) - 1) - 1 + 1 ELSE 0
        <5>1. 1 \in Int /\ Len(shell_cmd) - 1 \in Int
          BY <4>1
        <5> QED BY <4>1, <5>1, SubSeqProperties
      <4> QED BY <3>1, <4>1, <4>2, <4>3, ShellAssumption, SMTT(40) DEF shell_cmd_size
    <3>2. CASE ~(shell_cmd_size > 0)
      BY <1>6, <3>2 DEF Erase
    <3> QED BY <3>1, <3>2
  <2>2. video_memory' \in [Places -> Chars] /\ cursor' \in Places /\ UNCHANGED <<offset, out>>
    <3>1. CASE vga_backspace
      <4>1. CASE cursor = 0
        BY <3>1, <4>1 DEF vga_backspace
      <4>2. CASE cursor # 0
        <5>1. cursor - 1 \in Places
          BY <4>2, Screen
        <5> QED BY <3>1, <4>2, <5>1, Characters DEF vga_backspace
      <4> QED BY <3>1, <4>1, <4>2 DEF vga_backspace
    <3>2. CASE UNCHANGED console
      BY <3>2 DEF console
    <3> QED BY <1>6, <3>1, <3>2 DEF Erase
  <2> QED BY <1>4, <1>6, <2>1, <2>2 DEF Erase
<1>7. CASE Insert
  <2>1. PICK c \in Letters :
          /\ Takes(c)
          /\ IF shell_cmd_size + 1 >= SHELL_CMD_CAPACITY
             THEN UNCHANGED <<console, shell_cmd, pc, next>>
             ELSE shell_cmd' = Append(shell_cmd, c) /\ printk(<<c>>, "pop")
          /\ UNCHANGED <<ticks, dots>>
    BY <1>7 DEF Insert
  <2>2. CASE shell_cmd_size + 1 >= SHELL_CMD_CAPACITY
    BY <1>4, <2>1, <2>2 DEF console
  <2>3. CASE ~(shell_cmd_size + 1 >= SHELL_CMD_CAPACITY)
    <3>1. shell_cmd' \in Seq(Letters) /\ Len(shell_cmd') < SHELL_CMD_CAPACITY
      <4>1. shell_cmd' = Append(shell_cmd, c) /\ Len(shell_cmd) \in Nat
        BY <2>1, <2>3
      <4>2. Append(shell_cmd, c) \in Seq(Letters) /\ Len(Append(shell_cmd, c)) = Len(shell_cmd) + 1
        BY AppendProperties
      <4> QED BY <2>3, <4>1, <4>2, ShellAssumption DEF shell_cmd_size
    <3>2. <<c>> \in Seq(Text) /\ Begin(<<c>>)
      BY <2>1, <2>3, Characters DEF printk
    <3> QED BY <1>4, <2>1, <2>3, <3>1, <3>2, PrintsTypes DEF printk, Pcs, Afterwards
  <2> QED BY <2>2, <2>3
<1>8. ASSUME NEW text \in Seq(Text), NEW then \in Afterwards, printk(text, then),
             UNCHANGED shell_cmd \/ shell_cmd' = <<>>,
             events' \in Seq(Keys) /\ Len(events') <= MaxEvents, UNCHANGED ticks, dots' \in 0..Dots
      PROVE  ShellTypeOK'
  <2>1. shell_cmd' \in Seq(Letters) /\ Len(shell_cmd') < SHELL_CMD_CAPACITY
    <3>1. <<>> \in Seq(Letters) /\ Len(<<>>) = 0 /\ 0 < SHELL_CMD_CAPACITY
      BY ShellAssumption
    <3>2. shell_cmd' = shell_cmd \/ shell_cmd' = <<>>
      BY <1>8
    <3> QED BY <3>1, <3>2
  <2>2. Begin(text) /\ pc' \in Pcs /\ next' \in Afterwards
    BY <1>8 DEF printk, Pcs
  <2> QED BY <1>8, <2>1, <2>2, PrintsTypes
<1>9. CASE Enter
  <2>1. <<Newline>> \in Seq(Text) /\ "execute" \in Afterwards
    BY Characters DEF Afterwards
  <2>2. Takes(Newline) /\ printk(<<Newline>>, "execute") /\ UNCHANGED <<shell_cmd, ticks, dots>>
    BY <1>9 DEF Enter
  <2>3. events' \in Seq(Keys) /\ Len(events') <= MaxEvents
    BY <1>4, <2>2
  <2> QED BY <1>8, <2>1, <2>2, <2>3
<1>10. CASE PopNothing \/ hlt
  BY <1>10 DEF PopNothing, hlt, console, Pcs
<1>11. CASE qemu_shutdown \/ StartWork
  BY <1>11, ShellAssumption DEF qemu_shutdown, StartWork, Kept, console, Pcs
<1>12. CASE WorkTurn
  <2>1. CASE dots > 0
    <3>1. dots' \in 0..Dots
      BY <1>12, <2>1, ShellAssumption, SMTT(40) DEF WorkTurn
    <3>2. <<".">> \in Seq(Text) /\ "work" \in Afterwards
      BY Characters DEF Afterwards
    <3> QED BY <1>8, <1>12, <2>1, <3>1, <3>2 DEF WorkTurn, Kept
  <2>2. CASE ~(dots > 0)
    BY <1>12, <2>2 DEF WorkTurn, Kept, console, Pcs
  <2> QED BY <2>1, <2>2
<1>13. CASE run_elf
  <2>1. name \in Seq(Text)
    <3>1. /\ Len(Run) + 1 \in Int /\ Len(shell_cmd) \in Int
          /\ \A i \in (Len(Run) + 1)..Len(shell_cmd) : shell_cmd[i] \in Text
      BY ShellAssumption, Characters, SMTT(40)
    <3> QED BY <3>1, SubSeqProperties DEF name, shell_cmd_size
  <2>2. name \o <<NotFound, Newline>> \in Seq(Text) /\ "done" \in Afterwards
    BY <2>1, Characters, ConcatProperties DEF Afterwards
  <2>3. CASE printk(name \o <<NotFound, Newline>>, "done")
    BY <1>8, <1>13, <2>2, <2>3 DEF run_elf, Kept
  <2>4. CASE pc' = "program" /\ UNCHANGED <<console, next>>
    BY <1>13, <2>4 DEF run_elf, Kept, console, Pcs
  <2> QED BY <1>13, <2>3, <2>4 DEF run_elf
<1>14. CASE graphtest
  BY <1>14, ClearedIsTyped DEF graphtest, Kept, vga_clear_screen, Pcs
<1>15. CASE UnknownCommand
  <2>1. <<Unknown>> \in Seq(Text) /\ "done" \in Afterwards
    BY Characters DEF Afterwards
  <2>2. printk(<<Unknown>>, "done") /\ UNCHANGED <<shell_cmd, events, ticks, dots>>
    BY <1>15 DEF UnknownCommand, Kept
  <2> QED BY <1>8, <2>1, <2>2
<1>16. CASE Prompts
  <2>1. <<Newline>> \o Prompt \in Seq(Text) /\ "pop" \in Afterwards
    <3>1. <<Newline>> \in Seq(Text) /\ Prompt \in Seq(Text)
      BY Characters DEF Prompt
    <3> QED BY <3>1, ConcatProperties DEF Afterwards
  <2> QED BY <1>8, <1>16, <2>1 DEF Prompts
<1>17. ASSUME proc_restore_text_mode, dots' = dots, pc' \in Pcs, UNCHANGED next
       PROVE  ShellTypeOK'
  <2>1. events' \in Seq(Keys) /\ Len(events') <= MaxEvents
    BY <1>17, ShellAssumption DEF proc_restore_text_mode
  <2> QED BY <1>17, <2>1, ClearedIsTyped DEF proc_restore_text_mode, vga_clear_screen
<1>18. CASE Program
  <2>1. UNCHANGED dots /\ {<<Success>>, <<Newline>>, <<Success, Newline>>} \subseteq Seq(Text)
    BY <1>18, Characters DEF Program
  <2>2. CASE ProgramPrints \/ ProgramEnds
    BY <1>8, <2>1, <2>2 DEF ProgramPrints, ProgramEnds, Kept, Afterwards
  <2>3. CASE ProgramReads
    <3>1. events' \in Seq(Keys) /\ Len(events') <= MaxEvents
      <4>1. events' = Tail(events) /\ events # <<>>
        BY <2>3 DEF ProgramReads
      <4>2. Tail(events) \in Seq(Keys) /\ Len(Tail(events)) = Len(events) - 1 /\ Len(events) \in Nat
        BY <4>1, HeadTailProperties
      <4> QED BY <4>1, <4>2, ShellAssumption
    <3> QED BY <2>1, <2>3, <3>1 DEF ProgramReads, console
  <2>4. CASE ProgramLeavesGraphics
    BY <1>17, <2>1, <2>4 DEF ProgramLeavesGraphics
  <2> QED BY <1>18, <2>2, <2>3, <2>4 DEF Program
<1>19. CASE killproc
  <2>1. pc' \in Pcs /\ UNCHANGED <<dots, next>>
    BY <1>19 DEF killproc, Pcs
  <2>2. CASE proc_restore_text_mode
    BY <1>17, <2>1, <2>2
  <2>3. CASE Kept /\ UNCHANGED console
    BY <2>1, <2>3 DEF Kept, console
  <2> QED BY <1>19, <2>2, <2>3 DEF killproc
<1>20. CASE UNCHANGED vars
  BY <1>20 DEF vars
<1> QED
  BY <1>1, <1>2, <1>3, <1>5, <1>6, <1>7, <1>9, <1>10, <1>11, <1>12, <1>13, <1>14, <1>15, <1>16,
     <1>18, <1>19, <1>20
     DEF Next, Kernel, shell_handle_key_event, shell_execute_line

\* For every screen, command buffer and set of commands: the line keeps within its
\* buffer, with the last place free for the final zero, and nothing is printed or
\* erased outside the screen.
THEOREM TypeCorrect == Spec => []ShellTypeOK
<1> QED BY InitType, NextType, PTL DEF Spec

-----------------------------------------------------------------------------
(* The line on the screen                                                    *)

LEMMA InitLine == Init => LineInv
<1> SUFFICES ASSUME Init PROVE LineInv
  OBVIOUS
<1>1. out = <<Banner, Newline, Newline, ">", Space>>
  <2>1. <<Banner, Newline, Newline>> \in Seq(Text) /\ Len(<<Banner, Newline, Newline>>) = 3
    BY Characters
  <2>2. Prompt \in Seq(Text) /\ Len(Prompt) = 2 /\ Prompt[1] = ">" /\ Prompt[2] = Space
    BY Characters DEF Prompt
  <2>3. /\ out \in Seq(Text) /\ Len(out) = 5
        /\ \A i \in 1..5 : out[i] = IF i <= 3 THEN <<Banner, Newline, Newline>>[i] ELSE Prompt[i - 3]
    <3> DEFINE banner == <<Banner, Newline, Newline>>
    <3>1. banner \in Seq(Text) /\ Len(banner) = 3 /\ out = banner \o Prompt
      BY <2>1 DEF Init
    <3> HIDE DEF banner
    <3>2. /\ out \in Seq(Text) /\ Len(out) = Len(banner) + Len(Prompt)
          /\ \A i \in 1..(Len(banner) + Len(Prompt)) :
                 out[i] = IF i <= Len(banner) THEN banner[i] ELSE Prompt[i - Len(banner)]
      BY <2>2, <3>1, ConcatProperties
    <3>3. /\ out \in Seq(Text) /\ Len(out) = 5
          /\ \A i \in 1..5 : out[i] = IF i <= 3 THEN banner[i] ELSE Prompt[i - 3]
      BY <2>2, <3>1, <3>2
    <3> QED BY <3>3 DEF banner
  <2> DEFINE first == <<Banner, Newline, Newline, ">", Space>>
  <2>4. first \in Seq(Text) /\ Len(first) = 5
    BY Characters
  <2>5. \A i \in 1..5 : out[i] = first[i]
    BY <2>2, <2>3
  <2> QED BY <2>3, <2>4, <2>5, SeqEqual
<1> QED BY <1>1 DEF Init, LineInv, PromptComes

\* Steps that keep the line and what is printed keep what is shown, if they write
\* only above the line.
LEMMA FirstRowIsFree ==
    ASSUME ShellTypeOK, LineInv, UNCHANGED <<cursor, offset, out, shell_cmd, next>>,
           pc' = pc \/ (pc = "halted" /\ pc' = "pop") \/ (pc = "pop" /\ pc' = "hlt")
           \/ (pc = "hlt" /\ pc' = "halted"),
           \A o \in Places : o >= COLS => video_memory'[o] = video_memory[o]
    PROVE  LineInv'
<1>1. Line' = Line /\ Len(Line) \in Nat
  BY LineChars DEF Line, ShellTypeOK
<1>2. ASSUME NEW o \in Places, NEW n \in Nat, Shown(o, n)
      PROVE  o >= COLS + n /\ \A i \in 1..n : video_memory'[o - n + i - 1] = Line'[i]
  <2> SUFFICES ASSUME NEW i \in 1..n PROVE video_memory'[o - n + i - 1] = Line[i]
    BY <1>1, <1>2 DEF Shown
  <2>1. o - n + i - 1 \in Places /\ o - n + i - 1 >= COLS
    BY <1>2, Screen DEF Shown
  <2> QED BY <1>2, <2>1 DEF Shown
<1>3. pc' \in {"pop", "hlt", "halted"} => Shown(cursor, Len(Line))'
  BY <1>1, <1>2, ZenonT(60) DEF LineInv, Shown, ShellTypeOK
<1>4. ASSUME pc' = "print" /\ next' = "pop"
      PROVE  PromptComes' \/ \E n \in 0..(Len(Line)' - 1) : Shown(offset, n)' /\ ToPrint(n)'
  <2>1. pc = "print" /\ next = "pop"
    BY <1>4
  <2>2. CASE PromptComes
    BY <2>2 DEF PromptComes
  <2>3. ASSUME NEW n \in 0..(Len(Line) - 1), Shown(offset, n), ToPrint(n)
        PROVE  Shown(offset, n)' /\ ToPrint(n)' /\ n \in 0..(Len(Line)' - 1)
    <3>1. n \in Nat /\ offset \in Places
      BY <1>1 DEF ShellTypeOK
    <3>2. Shown(offset, n)'
      BY <1>2, <2>3, <3>1 DEF Shown
    <3> QED BY <1>1, <2>3, <3>2 DEF ToPrint
  <2> QED BY <2>1, <2>2, <2>3 DEF LineInv
<1> QED BY <1>3, <1>4 DEF LineInv

\* A character of the line that is printed extends what is shown of it, also where
\* it wraps and where the screen scrolls.
LEMMA PrintExtends ==
    ASSUME ShellTypeOK, PrintChar, UNCHANGED shell_cmd,
           NEW n \in 0..(Len(Line) - 1), Shown(offset, n), ToPrint(n)
    PROVE  Shown(offset, n + 1)' /\ ToPrint(n + 1)'
<1>1. /\ Line' = Line /\ Len(Line) \in Nat /\ n \in Nat /\ n + 1 <= Len(Line)
      /\ Len(Line) <= SHELL_CMD_CAPACITY + 1
  <2>1. /\ shell_cmd_size \in Nat /\ Len(Line) = shell_cmd_size + 2
        /\ shell_cmd_size < SHELL_CMD_CAPACITY /\ SHELL_CMD_CAPACITY \in Nat
    BY LineChars, ShellAssumption DEF ShellTypeOK
  <2> QED BY <2>1 DEF Line
<1> DEFINE c == Head(out)
<1>2. c = Line[n + 1] /\ c # Newline
  <2>1. Len(out) > 0 /\ out[1] = Line[n + 1]
    BY <1>1 DEF ToPrint
  <2>2. c = out[1]
    BY <2>1 DEF ShellTypeOK
  <2> QED BY <1>1, <2>1, <2>2, LineChars DEF ShellTypeOK
<1>3. ToPrint(n + 1)'
  <2>1. out # <<>> /\ out' = Tail(out) /\ out \in Seq(Text)
    BY DEF PrintChar, ShellTypeOK, Text
  <2>2. Len(out') = Len(out) - 1 /\ \A i \in 1..Len(out') : out'[i] = out[i + 1]
    BY <2>1, HeadTailProperties
  <2>3. Len(out) = Len(Line) - n /\ \A i \in 1..Len(out) : out[i] = Line[n + i]
    BY DEF ToPrint
  <2>4. Len(out') = Len(Line) - (n + 1)
    BY <1>1, <2>2, <2>3
  <2>5. ASSUME NEW i \in 1..Len(out') PROVE out'[i] = Line[(n + 1) + i]
    <3>1. i + 1 \in 1..Len(out) /\ n + (i + 1) = (n + 1) + i
      BY <1>1, <2>2, <2>3, <2>4
    <3> QED BY <2>2, <2>3, <3>1
  <2> QED BY <1>1, <2>4, <2>5 DEF ToPrint
<1> HIDE DEF c
<1>4. /\ Written(c) = [video_memory EXCEPT ![offset] = c] /\ Beyond(c) = offset + 1
      /\ video_memory \in [Places -> Chars] /\ offset \in Places
  BY <1>2 DEF Written, Beyond, ShellTypeOK
<1>5. offset >= COLS + n /\ \A i \in 1..n : video_memory[offset - n + i - 1] = Line[i]
  BY DEF Shown
<1>6. ASSUME NEW i \in 1..(n + 1)
      PROVE  offset - n + i - 1 \in Places /\ Written(c)[offset - n + i - 1] = Line[i]
  <2>1. offset - n + i - 1 \in Places
    BY <1>1, <1>4, <1>5, Screen
  <2>2. CASE i = n + 1
    <3>1. offset - n + i - 1 = offset
      BY <1>1, <1>4, <2>2, Screen
    <3> QED BY <1>2, <1>4, <2>1, <2>2, <3>1
  <2>3. CASE i # n + 1
    <3>1. i \in 1..n /\ offset - n + i - 1 # offset
      BY <1>1, <1>4, <2>3, Screen
    <3> QED BY <1>4, <1>5, <2>1, <3>1
  <2> QED BY <2>2, <2>3
<1>7. Shown(offset, n + 1)'
  <2>1. CASE offset + 1 >= Size
    <3>1. offset' = LastRow /\ video_memory' = scroll(Written(c)) /\ offset = Size - 1
      <4>1. offset' = LastRow /\ video_memory' = scroll(Written(c))
        BY <1>4, <2>1 DEF PrintChar, c, Size
      <4>2. offset = Size - 1
        BY <1>4, <2>1, Screen
      <4> QED BY <4>1, <4>2
    <3>2. LastRow >= COLS + (n + 1)
      BY <1>1, Screen
    <3>3. ASSUME NEW i \in 1..(n + 1) PROVE video_memory'[LastRow - (n + 1) + i - 1] = Line[i]
      <4>1. /\ LastRow - (n + 1) + i - 1 \in Places /\ LastRow - (n + 1) + i - 1 < LastRow
            /\ (LastRow - (n + 1) + i - 1) + COLS = offset - n + i - 1
        BY <1>1, <3>1, <3>2, Screen
      <4>2. video_memory'[LastRow - (n + 1) + i - 1] = Written(c)[offset - n + i - 1]
        BY <3>1, <4>1 DEF scroll
      <4> QED BY <1>6, <4>2
    <3> QED BY <1>1, <3>1, <3>2, <3>3 DEF Shown
  <2>2. CASE ~(offset + 1 >= Size)
    <3>1. offset' = offset + 1 /\ video_memory' = Written(c)
      BY <1>4, <2>2 DEF PrintChar, c, Size
    <3>2. offset + 1 >= COLS + (n + 1)
      BY <1>1, <1>4, <1>5, Screen
    <3>3. ASSUME NEW i \in 1..(n + 1) PROVE video_memory'[(offset + 1) - (n + 1) + i - 1] = Line[i]
      <4>1. (offset + 1) - (n + 1) + i - 1 = offset - n + i - 1
        BY <1>1, <1>4, Screen
      <4> QED BY <1>6, <3>1, <4>1
    <3> QED BY <1>1, <3>1, <3>2, <3>3 DEF Shown
  <2> QED BY <2>1, <2>2
<1> QED BY <1>3, <1>7

\* A newline ends below the first row.
LEMMA NewlineGoesDown ==
    ASSUME ShellTypeOK, PrintChar, Head(out) = Newline
    PROVE  offset' >= COLS
<1>1. Beyond(Head(out)) = NextRow(offset)
  BY DEF Beyond
<1>2. Beyond(Head(out)) >= COLS /\ LastRow >= COLS
  BY <1>1, RowBelow, Screen DEF ShellTypeOK
<1> QED BY <1>2 DEF PrintChar

LEMMA NextLine == Inv /\ [Next]_vars => LineInv'
<1> SUFFICES ASSUME ShellTypeOK, LineInv, [Next]_vars PROVE LineInv'
  BY DEF Inv
<1> USE Unpacked
<1>1. CASE TimerInterrupt
  <2>1. COLS - 1 = get_offset(COLS - 1, 0)
    BY Screen DEF get_offset
  <2>2. \A o \in Places : o >= COLS => video_memory'[o] = video_memory[o]
    <3>1. video_memory' = video_memory \/ video_memory' = [video_memory EXCEPT ![COLS - 1] = Spinner]
      BY <1>1, <2>1 DEF TimerInterrupt, vga_put_char_at
    <3>2. \A o \in Places : o >= COLS => o # COLS - 1
      BY Screen
    <3> QED BY <3>1, <3>2
  <2> QED BY <1>1, <2>2, FirstRowIsFree DEF TimerInterrupt, Wake
<1>2. ASSUME NEW key \in Keys, KeyInterrupt(key) PROVE LineInv'
  BY <1>2, FirstRowIsFree DEF KeyInterrupt, Wake, console
<1>3. CASE printing
  <2>1. CASE next # "pop"
    BY <1>3, <2>1 DEF printing, LineInv, Afterwards
  <2>2. CASE next = "pop" /\ PromptComes
    <3>1. CASE Tail(out) # <<>> /\ PromptComes'
      BY <1>3, <2>2, <3>1 DEF printing, PrintChar, LineInv
    <3>2. CASE out = <<Newline, ">", Space>>
      <4>1. Head(out) = Newline /\ out' = <<">", Space>>
        BY <1>3, <3>2 DEF printing, PrintChar
      <4>2. offset' >= COLS + 0 /\ offset' \in Int
        BY <1>3, <4>1, NewlineGoesDown, PrintCharTypes, Screen DEF printing
      <4>3. /\ Len(Line') = 2 /\ Line'[1] = ">" /\ Line'[2] = Space
        <5>1. shell_cmd' = <<>> /\ shell_cmd = <<>> /\ Line' = Line /\ shell_cmd_size = 0
          BY <1>3, <2>2 DEF printing, PromptComes, Line, shell_cmd_size
        <5> QED BY <5>1, LineChars
      <4>4. Shown(offset, 0)' /\ ToPrint(0)'
        BY <4>1, <4>2, <4>3 DEF Shown, ToPrint
      <4>5. 0 \in 0..(Len(Line') - 1) /\ pc' = "print"
        BY <1>3, <4>1, <4>3 DEF printing
      <4> QED BY <4>4, <4>5 DEF LineInv
    <3>3. CASE out = <<Newline, Newline, ">", Space>>
      <4>1. out' = <<Newline, ">", Space>> /\ shell_cmd' = shell_cmd
        BY <1>3, <3>3 DEF printing, PrintChar
      <4>2. PromptComes'
        BY <2>2, <4>1 DEF PromptComes
      <4>3. out' # <<>>
        BY <4>1
      <4>4. out' = Tail(out)
        BY <1>3 DEF printing, PrintChar
      <4> QED BY <3>1, <4>2, <4>3, <4>4
    <3>4. CASE out = <<Banner, Newline, Newline, ">", Space>>
      <4>1. out' = <<Newline, Newline, ">", Space>> /\ shell_cmd' = shell_cmd
        BY <1>3, <3>4 DEF printing, PrintChar
      <4>2. PromptComes'
        BY <2>2, <4>1 DEF PromptComes
      <4>3. out' # <<>>
        BY <4>1
      <4>4. out' = Tail(out)
        BY <1>3 DEF printing, PrintChar
      <4> QED BY <3>1, <4>2, <4>3, <4>4
    <3> QED BY <2>2, <3>2, <3>3, <3>4 DEF PromptComes
  <2>3. ASSUME next = "pop", NEW n \in 0..(Len(Line) - 1), Shown(offset, n), ToPrint(n)
        PROVE  LineInv'
    <3>1. PrintChar /\ UNCHANGED <<shell_cmd, next>> /\ pc = "print"
          /\ pc' = IF out' = <<>> THEN next ELSE pc
      BY <1>3 DEF printing
    <3>2. Shown(offset, n + 1)' /\ ToPrint(n + 1)'
      BY <2>3, <3>1, PrintExtends
    <3>3. Len(Line') = Len(Line) /\ Len(Line) \in Nat /\ out' \in Seq(Text)
      BY <3>1, LineChars, PrintCharTypes DEF Line
    <3>4. CASE out' = <<>>
      <4>1. n + 1 = Len(Line') /\ cursor' = offset' /\ pc' = "pop"
        <5>1. Len(out') = Len(Line') - (n + 1) /\ Len(out') = 0
          BY <3>2, <3>4 DEF ToPrint
        <5>2. n + 1 = Len(Line')
          BY <3>3, <5>1
        <5>3. cursor' = offset' /\ pc' = "pop"
          BY <2>3, <3>1, <3>4 DEF PrintChar
        <5> QED BY <5>2, <5>3
      <4> QED BY <3>2, <4>1 DEF LineInv, Shown
    <3>5. CASE out' # <<>>
      <4>1. n + 1 \in 0..(Len(Line') - 1) /\ pc' = "print"
        <5>1. Len(out') \in Nat \ {0}
          BY <3>3, <3>5, EmptySeq
        <5>2. Len(out') = Len(Line') - (n + 1)
          BY <3>2 DEF ToPrint
        <5> QED BY <3>1, <3>3, <3>5, <5>1, <5>2
      <4> QED BY <3>2, <4>1 DEF LineInv
    <3> QED BY <3>4, <3>5
  <2> QED BY <1>3, <2>1, <2>2, <2>3 DEF LineInv, printing
<1>4. CASE IgnoreKey
  BY <1>4, FirstRowIsFree DEF IgnoreKey, console, shell
<1>5. CASE PopNothing \/ hlt
  BY <1>5, FirstRowIsFree DEF PopNothing, hlt, console
<1>6. CASE Erase
  <2>1. pc = "pop" /\ pc' = "pop" /\ Shown(cursor, Len(Line))
    BY <1>6 DEF Erase, Takes, LineInv
  <2>2. CASE ~(shell_cmd_size > 0)
    BY <1>6, <2>1, <2>2, FirstRowIsFree DEF Erase, console
  <2>3. CASE shell_cmd_size > 0
    <3>1. shell_cmd' = SubSeq(shell_cmd, 1, shell_cmd_size - 1) /\ vga_backspace
      BY <1>6, <2>3 DEF Erase
    <3>2. /\ shell_cmd' \in Seq(Letters) /\ shell_cmd_size' = shell_cmd_size - 1
          /\ \A i \in 1..shell_cmd_size' : shell_cmd'[i] = shell_cmd[i]
      <4>1. Len(shell_cmd) \in Nat /\ 1 \in Int /\ Len(shell_cmd) - 1 \in Int
            /\ \A i \in 1..(Len(shell_cmd) - 1) : shell_cmd[i] \in Letters
        OBVIOUS
      <4>2. LET t == SubSeq(shell_cmd, 1, Len(shell_cmd) - 1)
            IN  /\ t \in Seq(Letters)
                /\ Len(t) = IF 1 <= Len(shell_cmd) - 1 THEN (Len(shell_cmd) - 1) - 1 + 1 ELSE 0
                /\ \A i \in 1..((Len(shell_cmd) - 1) - 1 + 1) : t[i] = shell_cmd[1 + i - 1]
        BY <4>1, SubSeqProperties
      <4>3. /\ shell_cmd' \in Seq(Letters)
            /\ Len(shell_cmd') = IF 1 <= Len(shell_cmd) - 1 THEN (Len(shell_cmd) - 1) - 1 + 1 ELSE 0
            /\ \A i \in 1..((Len(shell_cmd) - 1) - 1 + 1) : shell_cmd'[i] = shell_cmd[1 + i - 1]
        BY <3>1, <4>2 DEF shell_cmd_size
      <4>4. Len(shell_cmd') = Len(shell_cmd) - 1
        <5>1. PICK k \in Nat : k = Len(shell_cmd)
          BY <4>1
        <5>2. k > 0 /\ Len(shell_cmd') = IF 1 <= k - 1 THEN (k - 1) - 1 + 1 ELSE 0
          BY <2>3, <4>3, <5>1 DEF shell_cmd_size
        <5>3. Len(shell_cmd') = k - 1
          BY <5>2, SMT
        <5> QED BY <5>1, <5>3
      <4>5. ASSUME NEW i \in 1..Len(shell_cmd') PROVE shell_cmd'[i] = shell_cmd[i]
        <5>1. i \in 1..((Len(shell_cmd) - 1) - 1 + 1) /\ 1 + i - 1 = i
          BY <4>1, <4>4
        <5> QED BY <4>3, <5>1
      <4> QED BY <4>3, <4>4, <4>5 DEF shell_cmd_size
    <3>3. /\ Len(Line) = shell_cmd_size + 2 /\ Len(Line') = shell_cmd_size + 1
          /\ shell_cmd_size \in Nat
          /\ \A i \in 1..Len(Line') : Line'[i] = Line[i]
      <4>1. /\ Len(Line) = shell_cmd_size + 2 /\ shell_cmd_size \in Nat
            /\ Line[1] = ">" /\ Line[2] = Space
            /\ \A i \in 1..shell_cmd_size : Line[i + 2] = shell_cmd[i]
        BY LineChars
      <4>2. /\ Len(Line') = shell_cmd_size' + 2 /\ Line'[1] = ">" /\ Line'[2] = Space
            /\ \A i \in 1..shell_cmd_size' : Line'[i + 2] = shell_cmd'[i]
        BY <3>2, NextLineChars
      <4>3. ASSUME NEW i \in 1..Len(Line') PROVE Line'[i] = Line[i]
        <5>1. CASE i \in {1, 2}
          BY <4>1, <4>2, <5>1
        <5>2. CASE i \notin {1, 2}
          <6>1. i - 2 \in 1..shell_cmd_size' /\ i - 2 \in 1..shell_cmd_size /\ (i - 2) + 2 = i
            BY <2>3, <3>2, <4>1, <4>2, <5>2
          <6> QED BY <3>2, <4>1, <4>2, <6>1
        <5> QED BY <5>1, <5>2
      <4> QED BY <3>2, <4>1, <4>2, <4>3
    <3>4. cursor >= COLS + Len(Line) /\ cursor \in Places
          /\ \A i \in 1..Len(Line) : video_memory[cursor - Len(Line) + i - 1] = Line[i]
      BY <2>1 DEF Shown
    <3>5. cursor' = cursor - 1 /\ video_memory' = [video_memory EXCEPT ![cursor - 1] = Space]
      BY <3>1, <3>3, <3>4, Screen DEF vga_backspace
    <3>6. cursor' >= COLS + Len(Line')
      <4>1. cursor \in Nat /\ Len(Line) \in Nat /\ Len(Line') = Len(Line) - 1 /\ COLS \in Nat
        BY <3>3, <3>4, Screen
      <4> QED BY <3>4, <3>5, <4>1
    <3>7. ASSUME NEW i \in 1..Len(Line') PROVE video_memory'[cursor' - Len(Line') + i - 1] = Line'[i]
      <4>1. /\ cursor' - Len(Line') + i - 1 = cursor - Len(Line) + i - 1 /\ i \in 1..Len(Line)
            /\ cursor - Len(Line) + i - 1 # cursor - 1
            /\ cursor - Len(Line) + i - 1 \in Places
        <5>1. /\ cursor \in 0..(Size - 1) /\ Size \in Nat /\ COLS \in Nat /\ Len(Line) \in Nat
              /\ Len(Line') = Len(Line) - 1 /\ cursor' = cursor - 1 /\ Places = 0..(Size - 1)
              /\ cursor >= COLS + Len(Line)
          <6>1. Len(Line) \in Nat /\ Len(Line') = Len(Line) - 1
            BY <3>3
          <6> QED BY <3>4, <3>5, <6>1, Screen
        <5> QED BY <5>1
      <4>2. video_memory'[cursor - Len(Line) + i - 1] = video_memory[cursor - Len(Line) + i - 1]
        BY <3>5, <4>1
      <4> QED BY <3>3, <3>4, <4>1, <4>2
    <3> QED BY <2>1, <3>6, <3>7 DEF LineInv, Shown
  <2> QED BY <2>2, <2>3
<1>7. CASE Insert
  <2>1. PICK c \in Letters :
          /\ Takes(c)
          /\ IF shell_cmd_size + 1 >= SHELL_CMD_CAPACITY
             THEN UNCHANGED <<console, shell_cmd, pc, next>>
             ELSE shell_cmd' = Append(shell_cmd, c) /\ printk(<<c>>, "pop")
    BY <1>7 DEF Insert
  <2>2. CASE shell_cmd_size + 1 >= SHELL_CMD_CAPACITY
    BY <2>1, <2>2, FirstRowIsFree DEF console
  <2>3. CASE ~(shell_cmd_size + 1 >= SHELL_CMD_CAPACITY)
    <3>1. /\ shell_cmd' = Append(shell_cmd, c) /\ out' = <<c>> /\ offset' = cursor
          /\ video_memory' = video_memory /\ pc' = "print" /\ pc = "pop"
      BY <2>1, <2>3 DEF printk, Begin, Takes
    <3>2. /\ shell_cmd' \in Seq(Letters) /\ Len(shell_cmd') = Len(shell_cmd) + 1
          /\ \A i \in 1..Len(shell_cmd) : shell_cmd'[i] = shell_cmd[i]
          /\ shell_cmd'[Len(shell_cmd) + 1] = c
      BY <3>1, AppendProperties
    <3>3. /\ Len(Line) \in Nat /\ Len(Line') = Len(Line) + 1
          /\ \A i \in 1..Len(Line) : Line'[i] = Line[i]
          /\ Line'[Len(Line) + 1] = c
      <4>1. /\ Len(Line) = Len(shell_cmd) + 2 /\ Len(shell_cmd) \in Nat
            /\ Line[1] = ">" /\ Line[2] = Space
            /\ \A i \in 1..Len(shell_cmd) : Line[i + 2] = shell_cmd[i]
        BY LineChars DEF shell_cmd_size
      <4>2. /\ Len(Line') = Len(shell_cmd') + 2 /\ Line'[1] = ">" /\ Line'[2] = Space
            /\ \A i \in 1..Len(shell_cmd') : Line'[i + 2] = shell_cmd'[i]
        BY <3>2, NextLineChars DEF shell_cmd_size
      <4>3. ASSUME NEW i \in 1..Len(Line) PROVE Line'[i] = Line[i]
        <5>1. CASE i \in {1, 2}
          BY <4>1, <4>2, <5>1
        <5>2. CASE i \notin {1, 2}
          <6>1. i - 2 \in 1..Len(shell_cmd') /\ i - 2 \in 1..Len(shell_cmd) /\ (i - 2) + 2 = i
            BY <3>2, <4>1, <4>2, <5>2
          <6> QED BY <3>2, <4>1, <4>2, <6>1
        <5> QED BY <5>1, <5>2
      <4>4. Line'[Len(Line) + 1] = c
        <5>1. Len(shell_cmd) + 1 \in 1..Len(shell_cmd') /\ (Len(shell_cmd) + 1) + 2 = Len(Line) + 1
          BY <3>2, <4>1
        <5> QED BY <3>2, <4>2, <5>1
      <4> QED BY <3>2, <4>1, <4>2, <4>3, <4>4
    <3>4. PICK n \in Nat : n = Len(Line)
      BY <3>3
    <3>5. Shown(offset, n)'
      <4>1. cursor >= COLS + n /\ \A i \in 1..n : video_memory[cursor - n + i - 1] = Line[i]
        BY <3>1, <3>4 DEF LineInv, Shown
      <4> QED BY <3>1, <3>3, <3>4, <4>1 DEF Shown
    <3>6. ToPrint(n)'
      BY <3>1, <3>3, <3>4 DEF ToPrint
    <3>7. n \in 0..(Len(Line') - 1)
      BY <3>3, <3>4
    <3> QED BY <3>1, <3>5, <3>6, <3>7 DEF LineInv
  <2> QED BY <2>2, <2>3
<1>8. ASSUME pc' \notin {"pop", "hlt", "halted"}, pc' = "print" => next' # "pop"
      PROVE  LineInv'
  BY <1>8 DEF LineInv
<1>9. CASE Enter \/ qemu_shutdown \/ StartWork \/ WorkTurn \/ run_elf \/ graphtest \/ UnknownCommand
  BY <1>8, <1>9
     DEF Enter, qemu_shutdown, StartWork, WorkTurn, run_elf, graphtest, UnknownCommand, printk
<1>10. CASE Program \/ killproc
  BY <1>8, <1>10
     DEF Program, ProgramPrints, ProgramReads, ProgramLeavesGraphics, ProgramEnds, killproc, printk
<1>11. CASE Prompts
  <2>1. out' = <<Newline, ">", Space>>
    <3> DEFINE new == <<Newline>>
    <3> DEFINE all == <<Newline, ">", Space>>
    <3>1. new \in Seq(Text) /\ Len(new) = 1 /\ new[1] = Newline /\ out' = new \o Prompt
      BY <1>11, Characters DEF Prompts, printk, Begin
    <3>2. Prompt \in Seq(Text) /\ Len(Prompt) = 2 /\ Prompt[1] = ">" /\ Prompt[2] = Space
      BY Characters DEF Prompt
    <3>3. all \in Seq(Text) /\ Len(all) = 3 /\ all[1] = Newline /\ all[2] = ">" /\ all[3] = Space
      BY Characters
    <3> HIDE DEF new, all
    <3>4. /\ out' \in Seq(Text) /\ Len(out') = Len(new) + Len(Prompt)
          /\ \A i \in 1..(Len(new) + Len(Prompt)) :
                 out'[i] = IF i <= Len(new) THEN new[i] ELSE Prompt[i - Len(new)]
      BY <3>1, <3>2, ConcatProperties
    <3>5. Len(out') = 3 /\ out'[1] = Newline /\ out'[2] = ">" /\ out'[3] = Space
      BY <3>1, <3>2, <3>4
    <3>6. \A i \in 1..Len(out') : out'[i] = all[i]
      BY <3>3, <3>5
    <3>7. out' = all
      BY <3>3, <3>4, <3>5, <3>6, SeqEqual
    <3> QED BY <3>7 DEF all
  <2>2. shell_cmd' = <<>> /\ pc' = "print"
    BY <1>11 DEF Prompts, printk
  <2> QED BY <2>1, <2>2 DEF LineInv, PromptComes
<1>12. CASE UNCHANGED vars
  BY <1>12, FirstRowIsFree DEF vars
<1> QED
  BY <1>1, <1>2, <1>3, <1>4, <1>5, <1>6, <1>7, <1>9, <1>10, <1>11, <1>12
     DEF Next, Kernel, shell_handle_key_event, shell_execute_line

\* For every screen and command buffer with room for the line between the first row
\* and the last, every set of commands, and every interleaving of the timer's spinner
\* and the keyboard with the printing: whenever the shell waits for a key, the line
\* that Enter will run stands on the screen right before the cursor.
THEOREM LineIsShown == Spec => []LineShown
<1>1. Init => Inv
  BY InitType, InitLine DEF Inv
<1>2. Inv /\ [Next]_vars => Inv'
  BY NextType, NextLine DEF Inv
<1>3. Inv => LineShown
  <2> SUFFICES ASSUME ShellTypeOK, LineInv, pc \in {"pop", "hlt", "halted"} PROVE LineShown
    BY DEF Inv, LineShown
  <2>1. Len(Line) \in Nat
    BY LineChars DEF ShellTypeOK
  <2>2. Shown(cursor, Len(Line)) /\ cursor \in Places
    BY DEF LineInv, ShellTypeOK
  <2>3. cursor >= Len(Line)
    BY <2>1, <2>2, Screen DEF Shown
  <2> QED BY <2>2, <2>3 DEF Shown, Line, LineShown
<1> QED BY <1>1, <1>2, <1>3, PTL DEF Spec

=============================================================================
