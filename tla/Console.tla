------------------------------ MODULE Console -------------------------------
(***************************************************************************)
(* drivers/vga.c: the text screen.  Places are numbered along the rows, as  *)
(* in video memory; colours are left out.  printk prints a string one       *)
(* character at a time, and the timer's spinner may be drawn in between.    *)
(***************************************************************************)
EXTENDS Integers, Sequences

CONSTANTS ROWS, COLS

ASSUME ConsoleAssumption == ROWS \in Nat /\ ROWS >= 3 /\ COLS \in Nat /\ COLS >= 1

VARIABLES
    video_memory,       \* the character at each place
    cursor,             \* the cursor registers of the controller
    offset,             \* vga_print_string's own copy while it prints
    out                 \* what it has still to print

console == <<video_memory, cursor, offset, out>>

Space == " "
Newline == "LF"
Places == 0..(ROWS * COLS - 1)
get_offset(col, row) == row * COLS + col
LastRow == get_offset(0, ROWS - 1)

Cleared == [o \in Places |-> Space]

vga_clear_screen ==
    /\ video_memory' = Cleared /\ cursor' = 0
    /\ UNCHANGED <<offset, out>>

vga_put_char_at(col, row, c) ==
    video_memory' = [video_memory EXCEPT ![get_offset(col, row)] = c]

vga_backspace ==
    /\ IF cursor = 0 THEN UNCHANGED <<video_memory, cursor>>
       ELSE /\ cursor' = cursor - 1
            /\ video_memory' = [video_memory EXCEPT ![cursor - 1] = Space]
    /\ UNCHANGED <<offset, out>>

-----------------------------------------------------------------------------
(* vga_print_string                                                         *)

Begin(text) == out' = text /\ offset' = cursor /\ UNCHANGED <<video_memory, cursor>>

scroll(memory) == [o \in Places |-> IF o < LastRow THEN memory[o + COLS] ELSE Space]

NextRow(o) == get_offset(0, o \div COLS + 1)

\* Memory and offset after the character c, before the screen scrolls.
Written(c) == IF c = Newline THEN video_memory ELSE [video_memory EXCEPT ![offset] = c]
Beyond(c) == IF c = Newline THEN NextRow(offset) ELSE offset + 1

\* Mutant: the screen scrolls, but printing goes on where it was.
PrintCharStays ==
    /\ out # <<>>
    /\ out' = Tail(out)
    /\ IF Beyond(Head(out)) >= ROWS * COLS
       THEN video_memory' = scroll(Written(Head(out))) /\ offset' = offset
       ELSE video_memory' = Written(Head(out)) /\ offset' = Beyond(Head(out))
    /\ cursor' = IF out' = <<>> THEN offset' ELSE cursor

\* One turn of the loop; the last one sets the cursor.
PrintChar ==
    /\ out # <<>>
    /\ out' = Tail(out)
    /\ IF Beyond(Head(out)) >= ROWS * COLS
       THEN video_memory' = scroll(Written(Head(out))) /\ offset' = LastRow
       ELSE video_memory' = Written(Head(out)) /\ offset' = Beyond(Head(out))
    /\ cursor' = IF out' = <<>> THEN offset' ELSE cursor
=============================================================================
