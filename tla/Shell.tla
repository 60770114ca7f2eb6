-------------------------------- MODULE Shell --------------------------------
(***************************************************************************)
(* kernel.c: the shell.  kmain's loop takes key events until there are none *)
(* and halts until an interrupt; a key edits the command line and the text  *)
(* on the screen, Enter runs the line.  The keyboard's events are those of  *)
(* EventLog; programs (Process) and msleep (Clock) appear as what they do   *)
(* to the screen and to the events.                                         *)
(***************************************************************************)
EXTENDS Console

Backspace == "BS"
NoChar == "none"           \* a release, or a key without a character

CONSTANTS
    SHELL_CMD_CAPACITY,
    SPINNER_TICKS_PER_FRAME,
    Letters,                     \* characters of keys, without Backspace and Newline
    Spinner, Banner, Success, Unknown, NotFound,   \* the spinner, and one character per message
    Halt, Work, Graphtest, Run,  \* the command words, as sequences of letters
    Dots,                        \* the turns of work's loop
    Files,                       \* the names of the files
    MaxEvents                    \* KBD_EVENT_QUEUE_CAPACITY

\* A full line with its prompt fits between the first row and the last.
ASSUME ShellAssumption ==
    /\ SHELL_CMD_CAPACITY \in Nat \ {0} /\ SHELL_CMD_CAPACITY + 1 <= COLS * (ROWS - 2)
    /\ SPINNER_TICKS_PER_FRAME \in Nat \ {0} /\ Dots \in Nat /\ MaxEvents \in Nat \ {0}
    /\ {Newline, Backspace, NoChar} \cap Letters = {}
    /\ Newline \notin {Spinner, Banner, Success, Unknown, NotFound}
    /\ Halt \in Seq(Letters) /\ Work \in Seq(Letters)
    /\ Graphtest \in Seq(Letters) /\ Run \in Seq(Letters)

VARIABLES
    shell_cmd,      \* the first shell_cmd_size characters
    events,         \* the keyboard's log
    ticks,          \* of update_spinner
    dots,           \* how often work's loop has still to go round
    pc, next        \* where the kernel is, and where it goes on after printing

shell == <<shell_cmd, dots, pc, next>>
vars == <<video_memory, cursor, offset, out, shell_cmd, events, ticks, dots, pc, next>>

shell_cmd_size == Len(shell_cmd)
Prompt == <<">", Space>>
Keys == Letters \cup {Newline, Backspace, NoChar}

\* kmain has cleared the screen, registered update_spinner, and prints.
Init ==
    /\ video_memory = Cleared /\ cursor = 0
    /\ offset = 0 /\ out = <<Banner, Newline, Newline>> \o Prompt
    /\ shell_cmd = <<>> /\ events = <<>> /\ ticks = 0 /\ dots = 0
    /\ pc = "print" /\ next = "pop"

-----------------------------------------------------------------------------
(* Interrupts: each wakes the CPU from hlt.                                 *)

Wake == pc' = IF pc = "halted" THEN "pop" ELSE pc

KeyInterrupt(key) ==
    /\ pc # "off"
    /\ events' = Append(IF Len(events) = MaxEvents THEN Tail(events) ELSE events, key)
    /\ Wake
    /\ UNCHANGED <<console, shell_cmd, ticks, dots, next>>

\* Mutant: the timer's interrupt is masked while the CPU sleeps.
TimerMaskedInSleep ==
    /\ pc \notin {"off", "halted"}
    /\ ticks' = (ticks + 1) % SPINNER_TICKS_PER_FRAME
    /\ IF ticks' = 0 THEN vga_put_char_at(COLS - 1, 0, Spinner)
                     ELSE UNCHANGED video_memory
    /\ UNCHANGED <<cursor, offset, out, shell, events>>

\* update_spinner
TimerInterrupt ==
    /\ pc # "off"
    /\ ticks' = (ticks + 1) % SPINNER_TICKS_PER_FRAME
    /\ IF ticks' = 0 THEN vga_put_char_at(COLS - 1, 0, Spinner)
                     ELSE UNCHANGED video_memory
    /\ Wake
    /\ UNCHANGED <<cursor, offset, out, shell_cmd, events, dots, next>>

-----------------------------------------------------------------------------
(* The loop of kmain and shell_handle_key_event                             *)

\* printk(text), going on at the step then.
printk(text, then) ==
    /\ Begin(text)
    /\ pc' = "print" /\ next' = then

printing ==
    /\ pc = "print"
    /\ PrintChar
    /\ pc' = IF out' = <<>> THEN next ELSE pc
    /\ UNCHANGED <<shell_cmd, events, ticks, dots, next>>

\* kbd_pop_event answers with key.
Takes(key) == pc = "pop" /\ events # <<>> /\ key = Head(events) /\ events' = Tail(events)

IgnoreKey ==
    /\ Takes(NoChar)
    /\ UNCHANGED <<console, shell, ticks>>

Erase ==
    /\ Takes(Backspace)
    /\ IF shell_cmd_size > 0
       THEN shell_cmd' = SubSeq(shell_cmd, 1, shell_cmd_size - 1) /\ vga_backspace
       ELSE UNCHANGED <<shell_cmd, console>>
    /\ UNCHANGED <<ticks, dots, pc, next>>

\* Mutant: the last place of the buffer is not kept for the final zero.
InsertFull ==
    \E c \in Letters :
        /\ Takes(c)
        /\ IF shell_cmd_size >= SHELL_CMD_CAPACITY
           THEN UNCHANGED <<console, shell_cmd, pc, next>>
           ELSE shell_cmd' = Append(shell_cmd, c) /\ printk(<<c>>, "pop")
        /\ UNCHANGED <<ticks, dots>>

Insert ==
    \E c \in Letters :
        /\ Takes(c)
        /\ IF shell_cmd_size + 1 >= SHELL_CMD_CAPACITY
           THEN UNCHANGED <<console, shell_cmd, pc, next>>
           ELSE shell_cmd' = Append(shell_cmd, c) /\ printk(<<c>>, "pop")
        /\ UNCHANGED <<ticks, dots>>

Enter ==
    /\ Takes(Newline)
    /\ printk(<<Newline>>, "execute")
    /\ UNCHANGED <<shell_cmd, ticks, dots>>

shell_handle_key_event == IgnoreKey \/ Erase \/ Insert \/ Enter

\* kbd_pop_event answers 0, and a key may still come before the CPU halts.
PopNothing ==
    /\ pc = "pop" /\ events = <<>> /\ pc' = "hlt"
    /\ UNCHANGED <<console, shell_cmd, events, ticks, dots, next>>

hlt ==
    /\ pc = "hlt" /\ pc' = "halted"
    /\ UNCHANGED <<console, shell_cmd, events, ticks, dots, next>>

-----------------------------------------------------------------------------
(* shell_execute_line                                                       *)

Kept == UNCHANGED <<shell_cmd, events, ticks>>

IsRun == Len(Run) <= shell_cmd_size /\ SubSeq(shell_cmd, 1, Len(Run)) = Run
name == SubSeq(shell_cmd, Len(Run) + 1, shell_cmd_size)

qemu_shutdown ==
    /\ pc = "execute" /\ shell_cmd = Halt
    /\ pc' = "off"
    /\ Kept /\ UNCHANGED <<console, dots, next>>

StartWork ==
    /\ pc = "execute" /\ shell_cmd = Work
    /\ pc' = "work" /\ dots' = Dots
    /\ Kept /\ UNCHANGED <<console, next>>

\* A second has passed.
WorkTurn ==
    /\ pc = "work"
    /\ IF dots > 0 THEN dots' = dots - 1 /\ printk(<<".">>, "work")
       ELSE pc' = "done" /\ UNCHANGED <<console, dots, next>>
    /\ Kept

\* No such file, one that is empty, or one that does not fit: a message.
run_elf ==
    /\ pc = "execute" /\ shell_cmd \notin {Halt, Work} /\ IsRun
    /\ \/ name \in Files /\ pc' = "program" /\ UNCHANGED <<console, next>>
       \/ printk(name \o <<NotFound, Newline>>, "done")
    /\ Kept /\ UNCHANGED dots

\* vgaMode3 and vga_clear_screen after the picture has been shown.
graphtest ==
    /\ pc = "execute" /\ shell_cmd = Graphtest /\ ~IsRun
    /\ pc' = "done"
    /\ vga_clear_screen
    /\ Kept /\ UNCHANGED <<dots, next>>

UnknownCommand ==
    /\ pc = "execute" /\ shell_cmd \notin {Halt, Work, Graphtest} /\ ~IsRun
    /\ printk(<<Unknown>>, "done")
    /\ Kept /\ UNCHANGED dots

\* shell_reset and the next prompt.
Prompts ==
    /\ pc = "done"
    /\ shell_cmd' = <<>>
    /\ printk(<<Newline>> \o Prompt, "pop")
    /\ UNCHANGED <<events, ticks, dots>>

shell_execute_line ==
    qemu_shutdown \/ StartWork \/ WorkTurn \/ run_elf \/ graphtest \/ UnknownCommand \/ Prompts

-----------------------------------------------------------------------------
(* The program that runs: it may print, read keys, leave graphics with the   *)
(* screen and the events cleared, and end, in graphics or not.               *)

ProgramPrints == \E c \in {Success, Newline} : printk(<<c>>, "program") /\ Kept

ProgramReads ==
    /\ events # <<>> /\ events' = Tail(events)
    /\ UNCHANGED <<console, shell_cmd, ticks, pc, next>>

proc_restore_text_mode == vga_clear_screen /\ events' = <<>> /\ UNCHANGED <<shell_cmd, ticks>>

ProgramLeavesGraphics == proc_restore_text_mode /\ UNCHANGED <<pc, next>>

ProgramEnds == printk(<<Success, Newline>>, "killproc") /\ Kept

Program ==
    /\ pc = "program"
    /\ ProgramPrints \/ ProgramReads \/ ProgramLeavesGraphics \/ ProgramEnds
    /\ UNCHANGED dots

killproc ==
    /\ pc = "killproc" /\ pc' = "done"
    /\ proc_restore_text_mode \/ (Kept /\ UNCHANGED console)
    /\ UNCHANGED <<dots, next>>

-----------------------------------------------------------------------------
Kernel == printing \/ shell_handle_key_event \/ PopNothing \/ hlt \/ shell_execute_line \/ killproc

Next ==
    \/ TimerInterrupt \/ \E key \in Keys : KeyInterrupt(key)
    \/ Kernel \/ Program

Spec == Init /\ [][Next]_vars

\* The kernel goes on, and the timer never stops; a program may run for ever.
FairSpec == Spec /\ WF_vars(Kernel) /\ WF_vars(TimerInterrupt)

-----------------------------------------------------------------------------
(* Properties                                                               *)

Pcs == {"pop", "hlt", "halted", "print", "execute", "work", "done", "program", "killproc", "off"}
Chars == Letters \cup {Space, ">", ".", Spinner, Banner, Success, Unknown, NotFound}

\* The line leaves room for the final zero in its buffer, the cursor and the
\* place printed at are on the screen.
ShellTypeOK ==
    /\ video_memory \in [Places -> Chars] /\ cursor \in Places /\ offset \in Places
    /\ out \in Seq(Chars \cup {Newline})
    /\ shell_cmd \in Seq(Letters) /\ shell_cmd_size < SHELL_CMD_CAPACITY
    /\ events \in Seq(Keys) /\ Len(events) <= MaxEvents
    /\ ticks \in 0..(SPINNER_TICKS_PER_FRAME - 1) /\ dots \in 0..Dots
    /\ pc \in Pcs /\ next \in {"pop", "execute", "work", "done", "program", "killproc"}

\* Whenever the shell waits for a key, the screen shows the prompt and the line,
\* just as Enter would run it, right before the cursor: after wrapping, scrolling,
\* erasing across rows, a full line, and with the spinner drawn at any time.
LineShown ==
    pc \in {"pop", "hlt", "halted"} =>
        LET line == Prompt \o shell_cmd
        IN  /\ cursor >= Len(line)
            /\ \A i \in 1..Len(line) : video_memory[cursor - Len(line) + i - 1] = line[i]

\* A key that waits is come back to, also one that arrives between the last look
\* at the queue and hlt, unless a program gets in between or the machine is off.
KeysHandled ==
    (events # <<>>) ~> (pc = "pop" /\ events # <<>>) \/ pc \in {"program", "killproc", "off"}
=============================================================================
