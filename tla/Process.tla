------------------------------ MODULE Process -------------------------------
(***************************************************************************)
(* proc.c with the parts of cpu/idt.c, cpu/gdt.c and drivers/mode13fb.c it  *)
(* calls: running a program from the shell, its system calls that change    *)
(* kernel state, its end by SYS_exit or by an exception, and the timer and  *)
(* keyboard interrupts that may fall between any two steps while IF is set. *)
(***************************************************************************)
EXTENDS Memory, Integers, FiniteSets, FiniteSetsExt

CONSTANTS
    PGSIZE,            \* bytes of a page
    USER_BASE,         \* first page of the program image
    USER_STACK_BASE,   \* first page above the two stack pages
    FBPAGES,           \* pages of VIDEO_MODE13_FRAMEBUFFER_SIZE
    Files,             \* the files of the image: [size, segments]
    FlagFirst          \* orders in which a build may emit mode13_fb_bind's stores

ASSUME ProcessAssumption ==
    /\ FlagFirst \subseteq BOOLEAN
    /\ PGSIZE \in Nat \ {0} /\ FBPAGES \in Nat \ {0} /\ USER_BASE \in Nat \ {0}
    /\ USER_STACK_BASE \in Nat /\ USER_BASE + 2 < USER_STACK_BASE
    /\ USER_STACK_BASE <= NPDES * NPTENTRIES

VARIABLES
    pc,                \* the step the one kernel thread or the program is at
    ret,               \* where proc_restore_text_mode returns to
    file,              \* the file being run
    user_task,         \* vm.user_task, 0 before the first run
    pgdir,             \* vm.user_task->pgdir
    cr3,               \* 0 for the kernel's own directory kvm
    a,                 \* the loop variable of allocuvm and freevm
    intEnabled,        \* EFLAGS.IF
    fbArg,             \* the framebuffer address given to SYS_enter13h
    mode13_enabled, mode13_user_fb_ptr,
    vga,               \* "text", "mode13", or "fontload": planes open at 0xA0000
    fontIntact,        \* plane 2 holds the console font
    keys,              \* kinds of events in the keyboard queue
    message            \* the panic message, "" while the kernel runs

process == <<ret, file, user_task, pgdir, cr3, a, intEnabled>>
display == <<fbArg, mode13_enabled, mode13_user_fb_ptr, vga, fontIntact>>
vars == <<freelist, mem, pc, ret, file, user_task, pgdir, cr3, a, intEnabled, fbArg,
          mode13_enabled, mode13_user_fb_ptr, vga, fontIntact, keys, message>>

KVM == 0
UserPages == 0..(NPDES * NPTENTRIES - 1)
NoFile == [size |-> 0, segments |-> {}]

PGROUNDUP(x) == (x + PGSIZE - 1) \div PGSIZE     \* as a page number
FileTop(f) == USER_BASE * PGSIZE + f.size
Tops(f) == {FileTop(f)} \cup {s.vaddr + s.memsz : s \in {t \in f.segments : t.load /\ t.memsz # 0}}
ImageTop(f) == Max(Tops(f))

\* The loader does not look where an image ends: the files are linked below the kernel.
ASSUME FilesAssumption ==
    \A f \in Files : {PGROUNDUP(FileTop(f)), PGROUNDUP(ImageTop(f))} \subseteq 0..(NPDES * NPTENTRIES)

\* The files are linked below the stack, their .bss included.
BelowStack ==
    \A f \in Files :
        \A top \in {FileTop(f), ImageTop(f)} : PGROUNDUP(top) <= USER_STACK_BASE - 2

\* The machine is large enough for each file alone: its image ends below the stack, and
\* memory holds the task, a directory, the image, the stack and all tables.
FilesFit ==
    /\ BelowStack
    /\ \A f \in Files :
        /\ f.size \in Nat \ {0}
        /\ Tops(f) \subseteq Nat /\ \E top \in Tops(f) : \A t \in Tops(f) : t <= top
        /\ 2 + (PGROUNDUP(ImageTop(f)) - USER_BASE) + 2 + NPDES <= NFRAMES

Init ==
    /\ MemoryInit
    /\ pc = "shell" /\ ret = "shell" /\ file = NoFile /\ a = 0
    /\ user_task = 0 /\ pgdir = 0 /\ cr3 = KVM /\ intEnabled = TRUE
    /\ fbArg = 0 /\ mode13_enabled = FALSE /\ mode13_user_fb_ptr = 0
    /\ vga = "text" /\ fontIntact = TRUE /\ keys = {} /\ message = ""

panic(msg) ==
    /\ pc' = "panic" /\ message' = msg
    /\ intEnabled' = FALSE
    /\ UNCHANGED <<memory, ret, file, user_task, pgdir, cr3, a, display, keys>>

At(from, to) == pc = from /\ pc' = to /\ message' = message

-----------------------------------------------------------------------------
(* run_elf                                                                  *)

\* stat found the file (otherwise nothing changes).  Only the first run
\* allocates the task; its pointer is not checked before it is used.
RunTask(f) ==
    /\ At("shell", "setupkvm")
    /\ file' = f
    /\ IF user_task = 0 /\ freelist # {}
       THEN /\ user_task' \in HeadOf(freelist)
            /\ freelist' = freelist \ {user_task'}
       ELSE UNCHANGED <<user_task, freelist>>
    /\ UNCHANGED <<mem, ret, pgdir, cr3, a, intEnabled, display, keys>>

\* allocuvm's three calls: the pages from First(step) up to Last(step).
First(step) == CASE step = "alloc_file"  -> USER_BASE
                 [] step = "alloc_stack" -> USER_STACK_BASE - 2
                 [] step = "alloc_image" -> PGROUNDUP(FileTop(file))
Limit(step) == CASE step = "alloc_file"  -> PGROUNDUP(FileTop(file))
                 [] step = "alloc_stack" -> USER_STACK_BASE
                 [] step = "alloc_image" -> PGROUNDUP(ImageTop(file))

\* setupkvm clears the frame kalloc gave it, or address 0 when there is none.
setupkvm ==
    \/ /\ At("setupkvm", "alloc_file")
       /\ pgdir' \in HeadOf(freelist) /\ kalloc_zeroed(pgdir')
       /\ a' = First("alloc_file")
       /\ UNCHANGED <<ret, file, user_task, cr3, intEnabled, display, keys>>
    \/ pc = "setupkvm" /\ freelist = {} /\ panic("Page Fault")

\* One turn of allocuvm's loop, which ends at next, or at failed when it
\* returns -1.
allocuvm(step, next, failed) ==
    /\ pc = step
    /\ \/ /\ a < Limit(step) /\ ~OutOfFrames(pgdir, a)
          /\ walkpgdir(pgdir, a) = 0
          /\ At(step, step)
          /\ mappages(pgdir, a)
          /\ a' = a + 1
       \/ /\ a >= Limit(step)
          /\ At(step, next)
          /\ a' = IF next = "alloc_stack" THEN First(next) ELSE 0
          /\ UNCHANGED memory
       \/ /\ a < Limit(step) /\ OutOfFrames(pgdir, a)
          /\ At(step, failed)
          /\ a' = IF failed = "alloc_stack" THEN First(failed) ELSE 0
          /\ UNCHANGED memory
    /\ UNCHANGED <<ret, file, user_task, pgdir, cr3, intEnabled, display, keys>>

remap(step) ==
    /\ pc = step /\ a < Limit(step) /\ ~OutOfFrames(pgdir, a)
    /\ walkpgdir(pgdir, a) # 0
    /\ panic("remap")

\* The results for the file and the stack are ignored.
alloc_file == allocuvm("alloc_file", "alloc_stack", "alloc_stack")
alloc_stack == allocuvm("alloc_stack", "read_file", "read_file")
\* Mutant: the program starts although its image does not fit.
alloc_image_unchecked == allocuvm("alloc_image", "enter", "enter")
alloc_image == allocuvm("alloc_image", "enter", "shell")

read_file ==
    /\ pc = "read_file"
    /\ \/ /\ \A p \in USER_BASE..(PGROUNDUP(FileTop(file)) - 1) : walkpgdir(pgdir, p) # 0
          /\ cr3' = pgdir
          /\ IF file.size = 0 THEN At("read_file", "shell") /\ a' = a
             ELSE At("read_file", "alloc_image") /\ a' = First("alloc_image")
          /\ UNCHANGED <<memory, ret, file, user_task, pgdir, intEnabled, display, keys>>
       \/ /\ \E p \in USER_BASE..(PGROUNDUP(FileTop(file)) - 1) : walkpgdir(pgdir, p) = 0
          /\ panic("Page Fault")

\* swtch and iret: the trap frame sets IF.
enter ==
    /\ At("enter", "user")
    /\ intEnabled' = TRUE
    /\ UNCHANGED <<memory, ret, file, user_task, pgdir, cr3, a, display, keys>>

run_elf ==
    \/ \E f \in Files : RunTask(f)
    \/ setupkvm \/ alloc_file \/ alloc_stack \/ read_file \/ alloc_image \/ enter
    \/ \E step \in {"alloc_file", "alloc_stack", "alloc_image"} : remap(step)

-----------------------------------------------------------------------------
(* The timer's framebuffer copy and the keyboard interrupt.                 *)

Readable(page) ==
    \A p \in page..(page + FBPAGES - 1) : p \in UserPages /\ walkpgdir(cr3, p) # 0

\* The copy to 0xA0000 lands in the planes unless they are mapped elsewhere.
mode13_fb_copy ==
    /\ fontIntact' = (fontIntact /\ vga = "text")
    /\ UNCHANGED <<memory, process, fbArg, mode13_enabled, mode13_user_fb_ptr, vga, keys>>

mode13_fb_tick ==
    /\ intEnabled /\ mode13_enabled
    /\ \/ Readable(mode13_user_fb_ptr) /\ mode13_fb_copy /\ UNCHANGED <<pc, message>>
       \/ ~Readable(mode13_user_fb_ptr) /\ panic("Page Fault")

KeyInterrupt ==
    /\ intEnabled
    /\ keys' = keys \cup {IF mode13_enabled THEN "graphics" ELSE "console"}
    /\ UNCHANGED <<memory, pc, process, display, message>>

\* The shell, or the program with SYS_poll or SYS_getc, takes an event; others
\* of its kind may wait behind it.
kbd_pop_event ==
    /\ pc \in {"shell", "user"}
    /\ \E k \in keys : keys' = keys \ {k}
    /\ UNCHANGED <<memory, pc, process, display, message>>

-----------------------------------------------------------------------------
(* SYS_enter13h                                                             *)

\* Mutant: only the first page of the framebuffer is checked.
EnterChecksOnePage(page) ==
    /\ pc = "user" /\ walkpgdir(cr3, page) # 0
    /\ fbArg' = page
    /\ \E flag \in FlagFirst : At("user", IF flag THEN "bind_flag_first" ELSE "bind_ptr")
    /\ UNCHANGED <<memory, process, mode13_enabled, mode13_user_fb_ptr, vga,
                   fontIntact, keys>>

handle_enter13h(page) ==
    /\ pc = "user" /\ Readable(page)
    /\ fbArg' = page
    /\ \E flag \in FlagFirst : At("user", IF flag THEN "bind_flag_first" ELSE "bind_ptr")
    /\ UNCHANGED <<memory, process, mode13_enabled, mode13_user_fb_ptr, vga,
                   fontIntact, keys>>

BindPtr(from, to) ==
    /\ At(from, to)
    /\ mode13_user_fb_ptr' = fbArg
    /\ UNCHANGED <<memory, process, fbArg, mode13_enabled, vga, fontIntact, keys>>

BindFlag(from, to) ==
    /\ At(from, to)
    /\ mode13_enabled' = TRUE
    /\ UNCHANGED <<memory, process, fbArg, mode13_user_fb_ptr, vga, fontIntact, keys>>

mode13_fb_bind ==
    \/ BindPtr("bind_ptr", "bind_flag") \/ BindFlag("bind_flag", "vgaMode13")
    \/ BindFlag("bind_flag_first", "bind_ptr_last") \/ BindPtr("bind_ptr_last", "vgaMode13")

vgaMode13 ==
    /\ At("vgaMode13", "first_copy")
    /\ vga' = "mode13"
    /\ UNCHANGED <<memory, process, fbArg, mode13_enabled, mode13_user_fb_ptr,
                   fontIntact, keys>>

\* mode13_fb_bind's own call of mode13_fb_tick.
first_copy == At("first_copy", "user") /\ mode13_fb_copy

-----------------------------------------------------------------------------
(* proc_restore_text_mode, for SYS_leave13h and killproc                    *)

handle_leave13h ==
    /\ At("user", "restore_text") /\ ret' = "user"
    /\ UNCHANGED <<memory, file, user_task, pgdir, cr3, a, intEnabled, display, keys>>

RestoreText ==
    /\ pc = "restore_text"
    /\ pc' = IF mode13_enabled THEN "unbind_flag" ELSE ret
    /\ UNCHANGED <<memory, process, display, keys, message>>

UnbindFlag ==
    /\ At("unbind_flag", "unbind_ptr")
    /\ mode13_enabled' = FALSE
    /\ UNCHANGED <<memory, process, fbArg, mode13_user_fb_ptr, vga, fontIntact, keys>>

UnbindPtr ==
    /\ At("unbind_ptr", "vgaMode3")
    /\ mode13_user_fb_ptr' = 0
    /\ UNCHANGED <<memory, process, fbArg, mode13_enabled, vga, fontIntact, keys>>

\* vgaMode3 opens the planes at 0xA0000, writes the font there and maps the
\* text screen again.
OpenPlanes ==
    /\ At("vgaMode3", "write_font")
    /\ vga' = "fontload"
    /\ UNCHANGED <<memory, process, fbArg, mode13_enabled, mode13_user_fb_ptr,
                   fontIntact, keys>>

WriteFont ==
    /\ At("write_font", "map_text")
    /\ fontIntact' = TRUE
    /\ UNCHANGED <<memory, process, fbArg, mode13_enabled, mode13_user_fb_ptr, vga, keys>>

MapText ==
    /\ At("map_text", "kbd_clear_buffer")
    /\ vga' = "text"
    /\ UNCHANGED <<memory, process, fbArg, mode13_enabled, mode13_user_fb_ptr,
                   fontIntact, keys>>

\* Mutant: the queue keeps what was typed to the program.
ClearForgotten ==
    /\ At("kbd_clear_buffer", ret)
    /\ UNCHANGED <<memory, process, display, keys>>

kbd_clear_buffer ==
    /\ At("kbd_clear_buffer", ret)
    /\ keys' = {}
    /\ UNCHANGED <<memory, process, display>>

proc_restore_text_mode ==
    RestoreText \/ UnbindFlag \/ UnbindPtr \/ OpenPlanes \/ WriteFont \/ MapText
    \/ kbd_clear_buffer

-----------------------------------------------------------------------------
(* killproc, from SYS_exit (a trap gate keeps IF) or from trap for an       *)
(* exception in user mode (an interrupt gate clears it).                    *)

EndProgram ==
    /\ At("user", "restore_text") /\ ret' = "switchkvm"
    /\ intEnabled' \in BOOLEAN
    /\ UNCHANGED <<memory, file, user_task, pgdir, cr3, a, display, keys>>

\* Mutant: the address space is freed while cr3 still points to it.
KeepUserCr3 ==
    /\ At("switchkvm", "freevm") /\ a' = 0
    /\ UNCHANGED <<memory, ret, file, user_task, pgdir, cr3, intEnabled, display, keys>>

switchkvm ==
    /\ At("switchkvm", "freevm")
    /\ cr3' = KVM /\ a' = 0
    /\ UNCHANGED <<memory, ret, file, user_task, pgdir, intEnabled, display, keys>>

\* Mutant: the directory itself stays allocated.
FreeStepKeepsDirectory ==
    /\ pc = "freevm" /\ a < LastSlot
    /\ a' = a + 1
    /\ pc' = IF a + 1 = LastSlot THEN "sti" ELSE pc
    /\ IF Slot(pgdir, a) = 0 THEN UNCHANGED memory ELSE kfree(Slot(pgdir, a))
    /\ UNCHANGED <<ret, file, user_task, pgdir, cr3, intEnabled, display, keys, message>>

\* Mutant: the loop does not pass an entry that is not present.
FreeStepStuck ==
    /\ pc = "freevm"
    /\ IF Slot(pgdir, a) = 0 THEN UNCHANGED memory ELSE kfree(Slot(pgdir, a))
    /\ IF a = LastSlot THEN pc' = "sti" /\ a' = 0
       ELSE pc' = pc /\ a' = IF Slot(pgdir, a) = 0 THEN a ELSE a + 1
    /\ UNCHANGED <<ret, file, user_task, pgdir, cr3, intEnabled, display, keys, message>>

\* One kfree of freevm; the directory is the last.
freevm ==
    /\ pc = "freevm"
    /\ IF Slot(pgdir, a) = 0 THEN UNCHANGED memory ELSE kfree(Slot(pgdir, a))
    /\ IF a = LastSlot THEN pc' = "sti" /\ a' = 0 ELSE pc' = pc /\ a' = a + 1
    /\ UNCHANGED <<ret, file, user_task, pgdir, cr3, intEnabled, display, keys, message>>

\* Mutant: a killed program leaves IF as the exception gate set it.
StiForgotten ==
    /\ At("sti", "shell")
    /\ file' = NoFile /\ fbArg' = 0
    /\ UNCHANGED <<memory, ret, user_task, pgdir, cr3, a, intEnabled, mode13_enabled,
                   mode13_user_fb_ptr, vga, fontIntact, keys>>

\* sti, and swtch back into run_elf, which returns to the shell.
sti ==
    /\ At("sti", "shell")
    /\ intEnabled' = TRUE /\ file' = NoFile /\ fbArg' = 0
    /\ UNCHANGED <<memory, ret, user_task, pgdir, cr3, a, mode13_enabled,
                   mode13_user_fb_ptr, vga, fontIntact, keys>>

killproc == EndProgram \/ switchkvm \/ freevm \/ sti

-----------------------------------------------------------------------------
KernelStep ==
    \/ setupkvm \/ alloc_file \/ alloc_stack \/ read_file \/ alloc_image \/ enter
    \/ mode13_fb_bind \/ vgaMode13 \/ first_copy \/ proc_restore_text_mode
    \/ switchkvm \/ freevm \/ sti

Next ==
    \/ run_elf \/ mode13_fb_tick \/ KeyInterrupt \/ kbd_pop_event
    \/ (\E page \in UserPages : handle_enter13h(page))
    \/ mode13_fb_bind \/ vgaMode13 \/ first_copy
    \/ handle_leave13h \/ proc_restore_text_mode \/ killproc

Spec == Init /\ [][Next]_vars

\* Interrupt handlers return, so the interrupted code goes on.
FairSpec == Spec /\ WF_vars(KernelStep)

-----------------------------------------------------------------------------
(* Properties                                                               *)

Pcs == {"shell", "setupkvm", "alloc_file", "alloc_stack", "read_file", "alloc_image",
        "enter", "user", "bind_ptr", "bind_flag", "bind_flag_first", "bind_ptr_last",
        "vgaMode13", "first_copy", "restore_text", "unbind_flag", "unbind_ptr",
        "vgaMode3", "write_font", "map_text", "kbd_clear_buffer", "switchkvm",
        "freevm", "sti", "panic"}

\* Every variable keeps its type; table entries always name real frames.
TypeOK ==
    /\ freelist \subseteq Frames /\ mem \in [Frames -> [Entries -> 0..NFRAMES]]
    /\ pc \in Pcs /\ ret \in {"shell", "user", "switchkvm"}
    /\ file \in Files \cup {NoFile}
    /\ user_task \in 0..NFRAMES /\ pgdir \in 0..NFRAMES /\ cr3 \in 0..NFRAMES
    /\ a \in Nat /\ intEnabled \in BOOLEAN
    /\ fbArg \in UserPages /\ mode13_user_fb_ptr \in UserPages
    /\ mode13_enabled \in BOOLEAN /\ fontIntact \in BOOLEAN
    /\ vga \in {"text", "mode13", "fontload"}
    /\ keys \subseteq {"graphics", "console"}
    /\ message \in {"", "remap", "Page Fault"}

HasProgram == pc \notin {"shell", "setupkvm", "sti", "panic"}
\* The part of the program's address space that freevm has not given back.
LiveSlots == (IF pc = "freevm" THEN a ELSE 0)..LastSlot

\* No frame has two owners: no frame of the running program's directory, tables
\* and pages is free, is the task structure, or is used twice by the program.
NoFrameTwice ==
    /\ user_task \notin freelist
    /\ HasProgram =>
         \A p \in LiveSlots : Slot(pgdir, p) # 0 =>
             /\ Slot(pgdir, p) \notin freelist \cup {user_task}
             /\ \A q \in LiveSlots : q # p => Slot(pgdir, q) # Slot(pgdir, p)

\* The processor never runs on a page directory that has been freed: killproc
\* leaves the program's directory before it frees it.
Cr3NotFree == cr3 \notin freelist

\* Frames and the page directory in use stay apart whatever is allocated, freed,
\* given up half-way or remapped.
FramesSafe == NoFrameTwice /\ Cr3NotFree

\* Back in the shell, a program that started has given back every frame: all but
\* the task structure are free again.
AllFramesBack == pc = "shell" => freelist = Frames \ {user_task}

\* A program only starts with its whole image mapped, .bss included.
ImageMapped ==
    pc = "user" => \A p \in USER_BASE..(PGROUNDUP(ImageTop(file)) - 1) : walkpgdir(pgdir, p) # 0

\* Whenever the shell runs, the machine is back in normal operation: the console
\* is in text mode with its font, the framebuffer copy is off, interrupts are on.
ShellRestored ==
    pc = "shell" =>
        /\ vga = "text" /\ fontIntact
        /\ ~mode13_enabled /\ mode13_user_fb_ptr = 0
        /\ intEnabled

\* Back in the shell, the processor runs on the kernel's own page directory and not on
\* one of a program, however the program ended and whatever it had on.
KernelDirectoryBack == pc = "shell" => cr3 = KVM

\* Keys pressed while a program shows graphics never reach the shell.
GraphicsKeysStay == pc = "shell" => "graphics" \notin keys

\* The timer copies only from pages the program has mapped: with the copy on,
\* the bound address is readable through the page directory in use.
CopyReadable == mode13_enabled => Readable(mode13_user_fb_ptr)

\* No sequence of runs, system calls and interrupts makes the kernel panic.
NoPanic == pc # "panic"

\* allocuvm is never asked to map a page a second time (panic("remap")).
NoRemap == message # "remap"

\* A kalloc that "Returns 0 if the memory cannot be allocated" is answered with a
\* failed run and not with a fault of the kernel.
NoKernelFault == message # "Page Fault"

\* A program that has ended, however it ends, returns to the shell.
EndsInShell == (pc \in {"restore_text", "freevm"} /\ ret = "switchkvm") ~> pc = "shell"
=============================================================================
