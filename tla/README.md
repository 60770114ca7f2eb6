# YABLOKO: specifications, model checks and proofs

YABLOKO is a small 32-bit x86 operating system: a boot loader, a kernel with one
address space per program, a shell on the VGA text screen, and a graphical snake
game that runs as a user program. This directory holds TLA+ models of its parts,
the TLC configurations that check them, and TLAPS proofs about each of them.
`PROJECT.json` lists every run, every mutant and the lines each definition stands for.

## 1. Inventory

| Part | State | Operations | Talks to |
|---|---|---|---|
| Keyboard driver (`drivers/keyboard.c`) | ring of events with head, tail and size; three shift flags | IRQ1 handler, `kbd_pop_event`, `kbd_clear_buffer` | controller (interrupt), shell, SYS_poll, SYS_getc, `proc_restore_text_mode` |
| Memory (`kernel/mem.c`, `kernel/vm.c`) | free list; page directories and tables in frames | `kalloc`, `kfree`, `setupkvm`, `allocuvm`, `freevm`, `switchuvm`, `switchkvm` | `run_elf`, `killproc`, the page walks of the system calls |
| Process (`proc.c`) | the one task, its directory, cr3, the saved kernel thread | `run_elf`, `killproc`, `proc_restore_text_mode` | shell, traps, file system, framebuffer |
| Framebuffer and modes (`drivers/mode13fb.c`, `drivers/graphics.c`) | bound user address and flag; VGA mode, font | bind, unbind, timer copy, `vgaMode13`, `vgaMode3` | timer, SYS_enter13h, SYS_leave13h, `killproc` |
| Timer, clock, speaker (`drivers/pit.c`, `drivers/speaker.c`) | 64-bit clock in two words, table of callbacks, the tone's deadline | IRQ0 handler, `add_timer_callback`, `pit_monotonic_ms`, `msleep`, `speaker_beep` | spinner, framebuffer copy, SYS_time_ms, SYS_sleep, SYS_beep |
| Traps (`cpu/idt.c`, `cpu/vectors.S`) | handler table; IF through interrupt and trap gates | dispatch, `killproc` for a user exception, `panic` for a kernel one | all drivers |
| Snake: field (`user/snake_game/snake_model.c`) | body, occupancy map, growth queue, apples, obstacles | step, eat, spawn, new game | game loop |
| Snake: input (`user/snake_game/snake_input.c`) | held keys, pending actions, turn queue, committed direction | poll, pop, enable | SYS_poll, game loop |
| Snake: loop (`user/snake.c`) | phase, pause, accumulated time | one turn of the loop | the above, SYS_time_ms, SYS_sleep, SYS_beep, present |
| Snake: drawing (`user/snake_game/snake_render.c`, `user/lib/gfx.c`) | the program's framebuffer | full and incremental drawing | game loop, timer copy |
| Shell and console (`kernel.c`, `drivers/vga.c`, `console.c`) | command line; text screen and cursor | key handling, commands, printing, scrolling | keyboard queue, `run_elf`, spinner callback |
| File system and disk (`fs/fs.c`, `drivers/ata.c`) | directory and sectors, read only | `stat`, `read_file` | `run_elf` |
| Boot loader, GDT, serial port, image tools, start-up code | set-up and output | | |

There is one CPU and one thread. What makes the system hard is that **interrupts
fall anywhere** between two stores of the thread while IF is set, that the timer's
callbacks read what the thread is changing, that a system call runs with IF set
(trap gate) and an exception with IF clear (interrupt gate), that several paths
return early without undoing what they did, and that the game turns an unreliable
stream of key events (it may overflow) and of time into discrete ticks.

What makes each part correct:

- Keyboard: at any interleaving the ring is a bounded log of the newest events;
  IF is restored to what each caller had; the shift state is the shift keys' state.
- Memory and process: no frame has two owners, every frame of a program comes
  back, cr3 and the timer's copy never use a freed page, a program starts only
  whole, the shell always gets the machine back in text mode with interrupts on.
- Clock: the time read is the time; sleeping is never too short and always ends;
  a tone lasts as long as asked and ends; a tick never runs what is not there.
- Snake: body, map and growth queue play by the rules of the game; random placing
  never hits a used cell and always ends; the snake cannot reverse; pause is
  clean; ticks come and take the same time; speed follows the space bar; drawing
  what changed shows what drawing everything would.
- Shell: the line on the screen is the line that Enter runs, after wrapping, erasing
  and scrolling, wherever the spinner is drawn; a key is not slept over.

`PROJECT.json` lists the hazards behind these, each at its line.

## 2. Plan

Order, most important first, and where it stands:

1. `EventLog`, `Keyboard`, `MCKeyboard`: the driver every program depends on, with
   its abstract specification. *Done, and proved in `KeyboardProofs`.*
2. `Memory`, `Process`, `MCProcess`: frames, page tables, the life of a program,
   display modes. `Process` extends `Memory`. *Done, and proved in `MemoryProofs` (lemmas)
   and `ProcessProofs`.*
3. `Clock`: timer, clock, sleep, speaker, callbacks. *Done, and proved in `ClockProofs`.*
4. `SnakeRules`, `SnakeModel`: the abstract rules and the field that implements
   them; `SnakeInput`; `SnakeGame`, which extends both and adds the loop. *Done, and
   proved in `SnakeProofs` and `SnakeGameProofs`.*
5. `Console` and `Shell`, `MCShell`: command line, echo, backspace at the edges, scrolling,
   spinner, and the `pop` / `hlt` loop that may sleep on a key. *Done, and proved in
   `ShellProofs`.*
6. `SnakeScreen`, which extends `SnakeModel`: `snake_render_step` against
   `snake_render_full`. *Done, and proved in `SnakeScreenProofs`.*
7. The page walks of the system calls against the tables of `Memory`, the directory
   search and `read_file`. *Left; section 7 says what it would take.*

## 3. Modules and the code

Definitions keep the names of the C code. Modules named `MC...` give the constants
of the runs (`MCProcessFits` also states what its programs have in common); `...Proofs` hold theorems. Formulas named after a bug (`RestoreAsSti`,
`ExpiredUnsigned`, ...) under a comment *Mutant* are used by no specification: each
replaces the definition below it to show that a property can fail.

### EventLog, Keyboard

`EventLog` is what the driver promises: a log of the last N events that the keyboard
appends to, the kernel takes from and the kernel clears. `Keyboard` is the driver one
store at a time: `PopCheck`, `PopRead`, `PopAdvance`, `PopShrink` are the four accesses of
`kbd_pop_event`, and `ClearHead`, `ClearTail`, `ClearSize` those of `kbd_clear_buffer`, both
between `irq_save_disable` and `irq_restore`. `interrupt_handler` is one step because its
gate clears IF. The keyboard (`Press`, `Release`, bytes on the `wire`, some of them prefixes) is external. A byte is its low seven bits with the release
bit; the ASCII tables are constants; `kbd_event_pack` is injective, so an event is a
triple. `killproc` after an exception is the caller that has IF clear.

### Memory, Process

`Memory` has the free list as a set (`HeadOf` says which free frame may come first), frame
contents as table entries, `kalloc_zeroed`, `kfree` with the pattern it writes, `mappages`
with its *remap* panic, and one slot per step of `freevm`. The kernel half of a
directory maps all memory with large pages, never changes, and is left out. `Process`
follows `run_elf` (`setupkvm`, `alloc_file`, `alloc_stack`, `read_file`, `alloc_image`, `enter`),
the system calls that matter for the display and the keys, `killproc`, and the timer and
keyboard interrupts, with `pc` naming the next statement. A file is a size and its
segments; a failed directory search changes nothing and is no step. `FlagFirst` is the
order in which a build may emit the two stores of `mode13_fb_bind`: neither variable is
volatile, so both orders are legal; disassembling the build the Makefile makes
(`gcc -Os -m32`) shows the flag stored first.

### Clock

One system call at a time (`handle_time_ms`, `handle_sleep`, `handle_beep`), step by step, and
`timer_interrupt_handler` between any two steps while `intEnabled`. `monotonic_ms` is two
words of `Word` values each, read low then high by `pit_monotonic_ms`. `halted` is the CPU in
`hlt`. `add_timer_callback` is two stores, in the orders `CountFirst` allows: C does not
order the two stores of `callbacks[registered_callbacks++] = tc`, and the build stores the counter first
(section 4). `asked`, `due` and `overlap` are
history for the properties.

### SnakeRules, SnakeModel, SnakeInput, SnakeGame

`SnakeRules` states the game as `snake.md` tells it: a path of cells on a torus, no map, no
arrays. `SnakeModel` has the program's own bookkeeping: body array, occupancy map, growth
queue, counts, and the placing loops one iteration per step (`at` says which loop is
running). The xorshift number is any number below the count of free cells (`Picks`).
`SnakeInput` has the operations of the input queue. `SnakeGame` is the loop of `main`:
`PollEvent` and `PollDone` (`pc` "poll"), the phases (`pc` "act"), the ticks, the sleep. The
kernel's event log appears as the queue `events` that forgets its oldest entry, that
is, as what `EventLog` promises. Time between two readings is `since`; beyond the cap the
amount does not matter and is cut (`Turns`). A failed system call ends the real program;
its calls do not fail with the arguments it passes, so these exits are left out.

### SnakeScreen

`SnakeScreen` adds the framebuffer to the field, one piece per cell (`BODY`, `TAIL`, `APPLE`, ...;
the head is shown as its direction). `snake_render_full` and `snake_render_step` draw layer
by layer in the order of the calls. `PlaceApple` and `TickAndDraw` are `SnakeModel`'s steps with
the drawing that `main` and `snake_start_game` make after them: after an eaten apple the new
ones are placed first, with `prev_head` and `prev_tail` as `main` keeps them, then the tick is
drawn. A new game forgets the old picture, because it is drawn over in full before it is seen;
a pause and its end are one step (`PauseResume`), because nothing moves between them. The
score, the panels, text, and the pixels inside a cell are left out.

### Console, Shell

`Console` is the text screen of `drivers/vga.c` as an array of places along the rows:
`vga_clear_screen`, `vga_backspace`, and `vga_print_string`, which works on its own copy of the
cursor (`offset`) and prints one character per step (`PrintChar`), so that an interrupt may come
between any two. The cursor's port writes and the colours are left out. `Shell` is `kmain`'s loop with
`shell_handle_key_event` and `shell_execute_line`. The kernel's keyboard queue is `events`, with
what `EventLog` promises; `PopNothing` and `hlt` are two steps, so that a key may arrive between
them; `TimerInterrupt` draws the spinner and wakes the CPU. `pc` names the step and `next` where
the kernel goes on after printing. A command is a sequence of letters and a message one
character; what a program does to the screen and the queue in between (`ProgramPrints`,
`ProgramReads`, `ProgramLeavesGraphics`, `ProgramEnds`, `killproc`) is any order of those steps. While
the message of a killed program is printed the kernel has IF clear; the model lets the
interrupts come there too, which only adds behaviour.

## 4. Runs

A run passes or, where it says *violated*, shows a disagreement of code and document.

| Run | Bounds | What it shows |
|---|---|---|
| `keyboard` | ring of 2, both shifts and a letter, 1 byte on the wire | types; ring consistent whenever IF is set; IF handed back; shift state follows the keys and every change of it is noticed; refines `EventLog` |
| `process_runs` | 2 tables of 4 entries, pages of 2 bytes, three programs that fit | no frame lost or shared, cr3 and the copy never on a freed page, shell restored, keys typed to graphics stay there, no panic, programs end |
| `process_failures` | adds an empty file, one too big, one above the stack | a failed run still shares no frame, never runs on a freed directory, starts nothing half mapped |
| `process_bind` | as `process_runs`, with the store order of the build | *violated* `NoPanic`: a tick between flag and pointer copies from address 0 |
| `process_remap` | an image above the stack | *violated* `NoRemap`: the stack pages are mapped twice |
| `clock` | tick of 2 ms, words of 32 values, clock from 26 to 38 | registering the last callback, then reading, sleeping and beeping across the wrap of the low word and of the deadline; a null callback is called only between the two stores of a registration |
| `clock_register` | clock from 0 | *violated* `KernelStarts`: a tick between the stores of `add_timer_callback` calls a null callback while the kernel comes up |
| `snake_field` | 4x2 torus, start length 2, 1 obstacle, up to 2 apples | map, body, growth queue and free-cell count agree; every apple makes the snake grow, and the score counts its growth; apples are restored; the incremental drawing shows what a full one would; refines `SnakeRules` |
| `snake_turns` | one row of two cells with an obstacle, turn queue of 2, event log of 1; up, down, right, pause, restart | the snake never reverses; clean pause; ranges |
| `snake_loop` | ring of 3 with an obstacle; pause, quit, enter, space | death is noted, quit leaves, the game goes on |
| `shell` | screen of 4 rows and 3 columns, command buffer of 5, two letters, event log of 2, spinner every 2 ticks | the prompt and the line on the screen are what Enter runs; types; no key is slept over for good |
| `snake_speed` | space and restart | *violated* `FastIffHeld`: a new game forgets the held key |

Why the bounds are enough. The ring of two slots has an empty, a partly full, a full and
a wrapped state, and a byte on the wire can be handled at every step where IF is set. (Bytes
behind a prefix need a wire of two and are left to the proof, which has them.) In
`process_*` a program has a whole page, a part of a page, a page shared by file and
.bss, two page tables, and memory for exactly one program with little to spare; two
runs in a row happen in every order of exits and exceptions. The clock starts a few
ticks before the low word wraps and runs past it, with durations that are and are not
multiples of the tick; `MaxNow` stops the clock, and no call is made whose end lies
behind it. On the 4x2 torus the snake bends, closes on itself in both directions, follows its
tail, fills the field, dies in every way, and two apples wait in the growth queue at once. In
`snake_turns` only keys and queues matter, so the field is as small as a field with a death can
be. Three directions contain an opposite pair and the way between them, more presses come
than either queue holds, and a tick lasts four turns of the loop, so that turns collect between
ticks. D is also the menu key for more apples there. In `snake_loop` the snake moves once or
twice before it meets the obstacle, in two positions, at both speeds. On the screen of `shell`
a prompt with a line of four letters takes two rows, so that lines wrap, scroll while they
are typed, and are erased back across a row; messages end in every column before the next
prompt; the two letters make every command, a file that is found, one that is
not, and unknown words; the queue of two overflows; and the spinner falls between any two
characters printed. In the `snake_field` run the tail leaves a cell that an apple takes
in the same tick, the head enters the tail's cell, and a tick grows the snake.

### What the runs leave aside, knowingly

Four disagreements with the documents have runs and are the findings of `PROJECT.json`. Met
on the way, and left out of the properties on purpose:

- Runs that return early (an empty file, an image too big) keep their frames, and the shell goes on in
  their page directory, whose kernel half is the same. `AllFramesBack` is therefore checked, and with
  `KernelDirectoryBack` (a theorem of its own, in no run) proved, for files that fit; that no directory in use is ever free (`FramesSafe`)
  and that display and interrupts are restored (`ShellRestored`) holds for all. When no frame is
  left, `setupkvm` clears address 0 and the kernel faults: `NoKernelFault` fails if files of no bytes are
  run often enough. No document says what should happen.
- A tone asked for while another is pending may be silenced by the tick at which the other
  ends, between `speaker_on` and the new deadline. `ToneLasts` excludes overlapping tones.
- A deadline that wraps to exactly 0 means *no tone*: that tone never ends. `ToneEnds` names it.
- Of a turn of the game loop longer than 50 ms the rest is dropped, so ticks are then longer
  than `snake.md` line 48 wishes. No property asks for it.
- A keyboard that sends fake shifts (PrintScreen) breaks `ShiftFollowsKeys`, because the driver
  drops the prefix and looks at the next byte alone.
- An apple placed on the cell that the tail has just left is drawn and then wiped with the
  tail, and is seen from the next tick on. `ScreenFollows` names this as its only exception.
- Enter pressed during a game stays pending and starts the next game at once.

Deadlock is checked except in `process_failures` and `clock`, where a panic stops the machine
for good, in `snake_loop`, where the player leaves the game, and in `shell`, where `halt` turns
the machine off.

Every property of a passing run has a mutant: the definition of the code it depends on
most, changed as a plausible bug would change it, breaks it under the same bounds.

## 5. Fairness

- Code that is in the middle of an operation goes on (`WF` on its steps): there is one
  thread, and interrupt handlers return.
- A hardware interrupt that stays pending is taken if IF is set again and again (`SF` on
  the handlers): the interrupt controller keeps the request until then.
- Nothing is assumed of keys, programs or the player: no program ends by itself, no key
  has to be pressed or released. `EndsInShell` starts where the program has ended.
- `snake_loop` assumes that the game's program is scheduled (`WF(Loop)`) and that its poll
  loop finds the event log empty again and again (`SF(PollDone)`): no hand types faster
  than a loop of system calls. Without it the loop could read keys for ever.
- `snake_field` assumes that the placing loops and the ticks go on; new games and pauses
  come without any fairness, and the liveness property allows for new games.
- `shell` assumes that the kernel goes on and that the timer ticks for ever, also while the CPU
  is halted: this is what bounds the wait of a key that arrives between the look at the queue
  and `hlt`. A program may run for ever; `KeysHandled` stops there.

## 6. Proofs

Each theorem holds for every value of the constants that the assumptions named in the
modules allow; `PROJECT.json` says of each what it establishes. Every invariant and every action
property of a passing run, and both refinements, are proved, most of them with a
strengthening, since few are inductive. Where a run shows a violation, what holds without its
cause is proved as well: no panic with the stores of `mode13_fb_bind` in the order of its statements, no
*remap* with images that end below the stack, and, for both orders of the stores of
`add_timer_callback`, no null callback outside the moment that the run shows.

| Module | Theorems | Inductive invariant, and why it is needed |
|---|---|---|
| `KeyboardProofs` | `TypeCorrect`, `RingIsConsistent`, `IFIsKept`, `Refinement`, `ShiftIsFollowed` | `Inv`, `ShiftInv`, below |
| `MemoryProofs` | lemmas for `ProcessProofs` | `Owned(dir, lo, taken)`: from place `lo` on, in the order in which `freevm` goes, no frame of an address space is there twice or in `taken`; kept by `mappages`, `kalloc` and, with `lo` moving on, by each `kfree` of `freevm`. `Covered`: every frame is taken or at one of those places. `MissingTables`: how many frames for tables an address space may still ask for |
| `ProcessProofs` | `ShellIsRestored`, `GraphicsKeysAreGone`, `FramesAreSafe`, `ImageIsMapped`, `CopyIsReadable`, `TypeCorrect`, `FramesComeBack`, `KernelDirectoryIsBack`, `KernelNeverPanics`, `NoPageMappedTwice` | `CtlInv`, `MemInv`, `ImageInv`, `CopyInv`, `RestOK`, `FitInv`, `DirectoryInv`, `RemapInv`, below |
| `ClockProofs` | `TypeCorrect`, `ReadIsWhole`, `SleepIsLong`, `TonesLast`, `NullCallbackWindow` | IF is off and the halves read are still the clock's while the two are read; the deadline of a sleep is no earlier than asked for; a tone that is on has the deadline it was given, or none yet; every callback counted is stored, but for the one being registered counter first (`Filled`) |
| `SnakeProofs` | `TypeCorrect`, `MapIsSnake`, `FreeCellsAreCounted`, `GrowthIsKept`, `GameIsPlayed`, `DrawingOnlyDraws` | `Inv` (no cell twice, map and body agree, apples and obstacles apart) and `Growing` |
| `SnakeScreenProofs` | `ApplesAreRestored`, `DrawingFollows` | `Filled` (never more apples than fit) and `ScreenInv` |
| `SnakeGameProofs` | `GameTypeCorrect`, `NeverTurnsAround`, `PauseKeepsNothing`, `DeadIsGameOver`, `FieldInTheLoop`, `GrowthInTheLoop`, `LoopPlaysByTheRules`, `ApplesInTheLoop` | `GInv`, `Growing`, `LoopFilled`, below |
| `ShellProofs` | `TypeCorrect`, `LineIsShown` | `LineInv`: while the line is printed, what is already there stands before `offset` and what is left is in `out` |

**Keyboard.** `RingConsistent` only speaks of states with IF set, and says nothing about the
middle of a pop, from which the next state with IF set comes. `Inv == TypeOK /\ RingInv /\
FlagsInv` says, for each place in the two operations, by how much head, tail and size are out
of step there, that the slots in use hold events, that IF is set exactly while the thread is
outside the operations and the exception, and that the saved flag is right for the place to
return to. Modular arithmetic on the ring indices is in lemmas of its own. The refinement maps
the log to `Pending`, the events from `First` on, `Waiting` of them: a pop takes effect at
`PopRead` and a clear at its first store, so the later stores of both are stutters, and the
handler's single step is an append or, when the ring is full, an append that drops the oldest.
For `ShiftIsFollowed`, which speaks of an empty wire only, `ShiftInv` says what the waiting
bytes will do: the last byte of a shift key on the wire says whether it is held, and with no such
byte the driver's flag does.

**Process.** `CtlInv` follows the display, IF and the keys through the steps of
`proc_restore_text_mode`, which put them back one at a time. `MemInv` has `Owned` for the running
program, with the task structure among the frames taken; under it the directory is safe while
`freevm` works in it, because the kernel's directory is in use by then. `ImageInv` knows how far
the third `allocuvm` has come. It needs what `read_file` does when the first `allocuvm`, whose
result nobody looks at, left a page out: it faults, so the program does not start. `CopyInv`
says that the address bound is one that was checked in the directory still in use.

`FitInv` is the accounting behind `FramesComeBack`, `KernelDirectoryIsBack` and `KernelNeverPanics`. `FramesSafe` only says that no frame is
there twice; that none is lost needs the converse, `Covered`, at every step of `allocuvm` and
`freevm`, and that no run returns early, because an early return keeps its frames. So `AllocInv`
counts: in each of the three `allocuvm` loops the free list still holds a frame for every
page to come and for every table that `mappages` may have to make (`ToMap`, `MissingTables`), and the
pages behind the loop variable are the only ones mapped (`Mapped`). Files that fit (`FilesFit`) have
at least one byte, end below the stack, and need no more pages, stack and tables than memory has frames
for one program. `DirectoryInv` follows cr3 from `read_file` to `switchkvm`. `KernelNeverPanics` then goes through the places that panic: no frame for a directory,
a page mapped twice, the memory that `read_file` writes, and the timer's copy, for which `CopyInv` is
used. `NoPageMappedTwice` speaks of memory that runs out as well, where `FitInv` does not hold; `RemapInv`
says only of the pages still to come (`ToCome`) that they are not mapped, and needs of the files
only `BelowStack`.

**Snake.** `OnPath` orders the growth queue along the body: only then is the front of the queue
the point that the tail reaches next. With it each step of the field is a step of `SnakeRules`.
`ScreenInv` needs `Picture`, what is on the screen while apples are placed for a tick that is not
drawn yet. `GInv` has `Chain`, the turns that wait are a path without a reversal that starts at
the committed direction, and that the committed direction is the snake's while it lives (a
tick that kills it has taken a turn and not used it). `SnakeGame` runs the operations of the
field one by one, so `SnakeGameProofs` uses the lemmas of `SnakeProofs` for each. `FieldStep` lists what a
step of the loop can do to the field: a new game, a tick with the turn taken from the queue, one
turn of a placing loop, or nothing. `LoopSteps` shows that there is nothing else, and carries
over to the loop that it plays by `SnakeRules` (`LoopPlaysByTheRules`), that no growth is lost and
that the apples are restored. Before the first game no apple has been placed, hence
`phase # "menu"`.

**Assumptions.** Those the modules declare. Of note: `FilesAssumption`, that images end below the kernel
(the loader does not look, but the linker script puts programs there; the finding `process_remap` is
about the stack, which lies below the kernel); `MemoryAssumption`, that the free list is
in any order; `ShellAssumption`, that a full line with its prompt fits on the screen without the
first row, where the spinner is, and the last. These theorems assume more:

- `FramesComeBack`, `KernelDirectoryIsBack`, `KernelNeverPanics`: `FilesFit`, the files are not empty, end below the stack and fit
  into memory one at a time. With other files all three are false, as section 4 says. `process_runs`
  evaluates the hypothesis (`ProgramsFit` in `MCProcessFits`) for its programs and memory.
- `NoPageMappedTwice`: `BelowStack`. With an image above the stack it is false (`process_remap`).
- `GrowthIsKept`, `GameIsPlayed`, `DrawingFollows`, `GrowthInTheLoop`, `LoopPlaysByTheRules`: the snake starts with two cells or more (the
  program's has five). With one cell head and tail are the same.
- `CopyIsReadable`, `KernelNeverPanics`: the stores of `mode13_fb_bind` in the order of its two statements
  (address, then flag). With the order of the build both are false, and `process_bind` shows it.
- `ShiftIsFollowed`: `PlainKeys`, each key has a scancode of its own and sends it without a
  prefix. With PrintScreen on the keyboard it is false.

**Only model-checked.** Liveness (`ShiftNoticed`, `EndsInShell`, `SleepEnds`, `ToneEnds`, `ApplesGrow`,
`QuitLeaves`, `GameGoesOn`, `KeysHandled`) is out of the prover's reach, as is ENABLED, on which weak and
strong fairness rest. `FastIffHeld` is false, and nothing is proved about it. No module has a
RECURSIVE operator.

## 7. What is not modelled

- The page walks of `user_readable_after`, `user_writable_after` and `get_userspace_ptr` byte by
  byte: for the framebuffer the model asks whether its pages are mapped (`Readable`), page by
  page; the pointers of the other calls are taken as good. The walk is a loop without
  interaction; its arithmetic near 2^32 would need addresses instead of pages.
- `fs.c` and `drivers/ata.c`: the directory search and the reading of sectors are sequential over a disk
  that nobody writes, and the ATA protocol polls one register. A run finds the file, does not
  find it, or reads none of it.
- The boot loader, segment set-up and image tools run once, without interaction.
- The serial port is output that nothing reads back. The `greet`, `puts` and `putc` calls only
  print, which in `Shell` is `ProgramPrints`.
- Glyphs, colours, pixels, the score and the panels of the game are data. `graphtest` draws
  without a program; in `Shell` it clears the screen.
- The wait of a second in `work` is `msleep`, modelled in `Clock`; in `Shell` it is one step.
- Hardware timing, the caches and the privilege checks of the processor are taken to work.

## 8. Running

    tlc -workers 2 -config clock.cfg Clock.tla
    tlapm KeyboardProofs.tla

The module of each configuration is in `PROJECT.json`; the longest run takes about two
minutes on two cores.
