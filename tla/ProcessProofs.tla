---------------------------- MODULE ProcessProofs ---------------------------
(***************************************************************************)
(* The life of a program for every memory size, every image and every way   *)
(* the interrupts fall: the machine is as it was when the shell runs again, *)
(* and no frame ever has two owners.                                        *)
(***************************************************************************)
EXTENDS Process, MemoryProofs, TLAPS

Loading == {"setupkvm", "alloc_file", "alloc_stack", "read_file", "alloc_image", "enter"}
Binding == {"bind_ptr", "bind_flag", "bind_flag_first", "bind_ptr_last", "vgaMode13", "first_copy"}
Unbinding == {"unbind_ptr", "vgaMode3", "write_font", "map_text", "kbd_clear_buffer"}
Freeing == {"switchkvm", "freevm", "sti"}

\* The display is as the shell has it, but for the address.
TextShown == vga = "text" /\ fontIntact /\ mode13_enabled = FALSE

\* The copy is on, or the display is as the shell has it; between the two the steps of
\* proc_restore_text_mode put it back piece by piece.
DisplayInv ==
    /\ pc \in {"shell"} \cup Loading \cup Freeing => TextShown /\ mode13_user_fb_ptr = 0
    /\ pc \in {"user", "restore_text", "bind_ptr"} =>
           mode13_enabled \/ (TextShown /\ mode13_user_fb_ptr = 0)
    /\ pc = "bind_flag" => mode13_enabled \/ TextShown
    /\ pc = "bind_flag_first" => mode13_enabled \/ TextShown
    /\ pc \in {"bind_ptr_last", "vgaMode13", "first_copy", "unbind_flag"} => mode13_enabled
    /\ pc \in Unbinding => mode13_enabled = FALSE
    /\ pc \in Unbinding \ {"unbind_ptr"} => mode13_user_fb_ptr = 0
    /\ pc \in {"map_text", "kbd_clear_buffer"} => fontIntact
    /\ pc = "kbd_clear_buffer" => vga = "text"

\* Where interrupts are on, and where a restored display leads.
InterruptInv ==
    /\ pc \in {"shell", "user"} \cup Loading \cup Binding => intEnabled
    /\ pc \in {"restore_text", "unbind_flag"} \cup Unbinding =>
           ret = "switchkvm" \/ (ret = "user" /\ intEnabled)

\* Keys typed to a program that shows graphics are gone before the copy's end is.
KeysInv ==
    "graphics" \in keys => mode13_enabled \/ pc \in Unbinding \cup {"panic"}

CtlInv == /\ pc \in Pcs /\ mode13_enabled \in BOOLEAN /\ fontIntact \in BOOLEAN
          /\ DisplayInv /\ InterruptInv /\ KeysInv

LEMMA CtlInit == Init => CtlInv
BY DEF Init, CtlInv, DisplayInv, InterruptInv, KeysInv, Pcs, Loading, Binding, Unbinding, Freeing,
       TextShown

USE DEF CtlInv, DisplayInv, InterruptInv, KeysInv, Pcs, Loading, Binding, Unbinding, Freeing,
        TextShown, At, display, process

LEMMA CtlLoad == CtlInv /\ run_elf => CtlInv'
<1> SUFFICES ASSUME CtlInv, run_elf PROVE CtlInv'
  OBVIOUS
<1>1. CASE \E f \in Files : RunTask(f)
  BY <1>1 DEF RunTask
<1>2. CASE pc' = "panic" /\ UNCHANGED <<display, keys>>
  BY <1>2
<1>3. CASE setupkvm
  BY <1>2, <1>3 DEF setupkvm, panic
<1>4. CASE alloc_file
  BY <1>4 DEF alloc_file, allocuvm
<1>5. CASE alloc_stack
  BY <1>5 DEF alloc_stack, allocuvm
<1>6. CASE alloc_image
  BY <1>6 DEF alloc_image, allocuvm
<1>7. CASE read_file
  BY <1>2, <1>7 DEF read_file, panic
<1>8. CASE enter
  BY <1>8 DEF enter
<1>9. CASE \E step \in {"alloc_file", "alloc_stack", "alloc_image"} : remap(step)
  BY <1>2, <1>9 DEF remap, panic
<1> QED BY <1>1, <1>3, <1>4, <1>5, <1>6, <1>7, <1>8, <1>9 DEF run_elf

LEMMA CtlInterrupt == CtlInv /\ (mode13_fb_tick \/ KeyInterrupt \/ kbd_pop_event) => CtlInv'
<1> SUFFICES ASSUME CtlInv, mode13_fb_tick \/ KeyInterrupt \/ kbd_pop_event PROVE CtlInv'
  OBVIOUS
<1>1. CASE mode13_fb_tick
  <2>1. CASE mode13_fb_copy /\ UNCHANGED <<pc, message>>
    BY <1>1, <2>1 DEF mode13_fb_tick, mode13_fb_copy
  <2>2. CASE panic("Page Fault")
    BY <2>2 DEF panic
  <2> QED BY <1>1, <2>1, <2>2 DEF mode13_fb_tick
<1>2. CASE KeyInterrupt
  BY <1>2 DEF KeyInterrupt
<1>3. CASE kbd_pop_event
  BY <1>3 DEF kbd_pop_event
<1> QED BY <1>1, <1>2, <1>3

LEMMA CtlBind ==
    ASSUME CtlInv,
           \/ \E page \in UserPages : handle_enter13h(page)
           \/ mode13_fb_bind \/ vgaMode13 \/ first_copy
    PROVE  CtlInv'
<1>1. ASSUME NEW page \in UserPages, handle_enter13h(page) PROVE CtlInv'
  BY <1>1 DEF handle_enter13h
<1>2. CASE mode13_fb_bind
  <2>1. CASE BindPtr("bind_ptr", "bind_flag")
    BY <2>1 DEF BindPtr
  <2>2. CASE BindFlag("bind_flag", "vgaMode13")
    BY <2>2 DEF BindFlag
  <2>3. CASE BindFlag("bind_flag_first", "bind_ptr_last")
    BY <2>3 DEF BindFlag
  <2>4. CASE BindPtr("bind_ptr_last", "vgaMode13")
    BY <2>4 DEF BindPtr
  <2> QED BY <1>2, <2>1, <2>2, <2>3, <2>4 DEF mode13_fb_bind
<1>3. CASE vgaMode13
  BY <1>3 DEF vgaMode13
<1>4. CASE first_copy
  BY <1>4 DEF first_copy, mode13_fb_copy
<1> QED BY <1>1, <1>2, <1>3, <1>4

LEMMA CtlRestore == CtlInv /\ (handle_leave13h \/ proc_restore_text_mode) => CtlInv'
<1> SUFFICES ASSUME CtlInv, handle_leave13h \/ proc_restore_text_mode PROVE CtlInv'
  OBVIOUS
<1>1. CASE handle_leave13h
  BY <1>1 DEF handle_leave13h
<1>2. CASE RestoreText
  BY <1>2 DEF RestoreText
<1>3. CASE UnbindFlag
  BY <1>3 DEF UnbindFlag
<1>4. CASE UnbindPtr
  BY <1>4 DEF UnbindPtr
<1>5. CASE OpenPlanes
  BY <1>5 DEF OpenPlanes
<1>6. CASE WriteFont
  BY <1>6 DEF WriteFont
<1>7. CASE MapText
  BY <1>7 DEF MapText
<1>8. CASE kbd_clear_buffer
  BY <1>8 DEF kbd_clear_buffer
<1> QED BY <1>1, <1>2, <1>3, <1>4, <1>5, <1>6, <1>7, <1>8 DEF proc_restore_text_mode

LEMMA CtlKill == CtlInv /\ killproc => CtlInv'
<1> SUFFICES ASSUME CtlInv, killproc PROVE CtlInv'
  OBVIOUS
<1>1. CASE EndProgram
  BY <1>1 DEF EndProgram
<1>2. CASE switchkvm
  BY <1>2 DEF switchkvm
<1>3. CASE freevm
  BY <1>3 DEF freevm
<1>4. CASE sti
  BY <1>4 DEF sti
<1> QED BY <1>1, <1>2, <1>3, <1>4 DEF killproc

LEMMA CtlStutter == CtlInv /\ UNCHANGED vars => CtlInv'
BY DEF vars

HIDE DEF CtlInv, DisplayInv, InterruptInv, KeysInv, Pcs, Loading, Binding, Unbinding, Freeing,
         TextShown, At, display, process

LEMMA CtlInvariance == Spec => []CtlInv
<1>1. CtlInv /\ [Next]_vars => CtlInv'
  BY CtlLoad, CtlInterrupt, CtlBind, CtlRestore, CtlKill, CtlStutter DEF Next
<1> QED BY CtlInit, <1>1, PTL DEF Spec

\* However programs bind and leave graphics, end or are killed, and however the timer and
\* the keys fall between the steps: the shell finds the console in text mode with its
\* font, the copy off and interrupts on.
THEOREM ShellIsRestored == Spec => []ShellRestored
<1>1. CtlInv => ShellRestored
  BY DEF CtlInv, DisplayInv, InterruptInv, TextShown, ShellRestored
<1> QED BY <1>1, CtlInvariance, PTL

\* No key typed to a program in graphics mode is left for the shell.
THEOREM GraphicsKeysAreGone == Spec => []GraphicsKeysStay
<1>1. CtlInv => GraphicsKeysStay
  BY DEF CtlInv, DisplayInv, KeysInv, TextShown, Unbinding, GraphicsKeysStay
<1> QED BY <1>1, CtlInvariance, PTL

-----------------------------------------------------------------------------
(* Frames                                                                    *)

Allocating == {"alloc_file", "alloc_stack", "read_file", "alloc_image"}

\* While a program has an address space its directory is the frame at the last place,
\* and from the place freevm has come to nothing of it is free or the task structure.
MemInv ==
    /\ MemOK /\ user_task \notin freelist /\ cr3 \notin freelist
    /\ HasProgram => pgdir \in Frames
    /\ HasProgram /\ pc # "freevm" => Owned(pgdir, 0, freelist \cup {user_task})
    /\ pc = "freevm" => /\ a \in 0..LastSlot /\ cr3 = KVM
                        /\ Owned(pgdir, a, freelist \cup {user_task})
    /\ pc \in {"setupkvm"} \cup Allocating => file \in Files
    /\ pc \in Allocating => a \in Nat

LEMMA MemInit == Init => MemInv
<1> SUFFICES ASSUME Init PROVE MemInv
  OBVIOUS
<1>1. MemOK
  <2>1. Junk \in [Entries -> 0..NFRAMES]
    BY EntryTypes
  <2> QED BY <2>1 DEF Init, MemoryInit, MemOK
<1>2. user_task = 0 /\ cr3 = 0 /\ 0 \notin freelist
  <2>1. 0 \notin Frames
    BY Sizes DEF Frames
  <2> QED BY <1>1, <2>1 DEF Init, KVM, MemOK
<1> QED BY <1>1, <1>2 DEF Init, MemInv, HasProgram, Allocating

\* Steps that touch neither the frames nor the directory.
LEMMA MemQuiet ==
    ASSUME MemInv, UNCHANGED <<freelist, mem, user_task, pgdir>>,
           cr3' = cr3 \/ cr3' = KVM \/ (cr3' = pgdir /\ HasProgram /\ pc # "freevm"),
           \/ HasProgram' = FALSE
           \/ HasProgram /\ pc # "freevm" /\ pc' # "freevm",
           pc' \in {"setupkvm"} \cup Allocating => file' \in Files,
           pc' \in Allocating => a' \in Nat
    PROVE  MemInv'
<1>1. MemOK' /\ user_task' \notin freelist'
  BY DEF MemInv, MemOK
<1>2. \A dir, lo, taken : Owned(dir, lo, taken) <=> Owned(dir, lo, taken)'
  BY DEF Owned, Slot
<1>3. HasProgram /\ pc # "freevm" => pgdir \notin freelist
  <2> SUFFICES ASSUME HasProgram, pc # "freevm" PROVE pgdir \notin freelist
    OBVIOUS
  <2>1. pgdir \in Frames /\ Owned(pgdir, 0, freelist \cup {user_task})
    BY DEF MemInv
  <2>2. LastSlot \in 0..LastSlot /\ Slot(pgdir, LastSlot) = pgdir /\ pgdir # 0
    BY <2>1, Sizes, SlotOf DEF Frames
  <2> QED BY <2>1, <2>2 DEF Owned
<1>4. 0 \notin freelist
  BY Sizes DEF MemInv, MemOK, Frames
<1>5. cr3' \notin freelist'
  BY <1>3, <1>4 DEF MemInv, KVM
<1>6. HasProgram' => pgdir' \in Frames /\ pc' # "freevm" /\ Owned(pgdir, 0, freelist \cup {user_task})'
  <2>1. HasProgram' => HasProgram /\ pc # "freevm" /\ pc' # "freevm"
    OBVIOUS
  <2>2. HasProgram /\ pc # "freevm" => Owned(pgdir, 0, freelist \cup {user_task})
    BY DEF MemInv
  <2>3. Owned(pgdir, 0, freelist \cup {user_task}) => Owned(pgdir, 0, freelist \cup {user_task})'
    BY ZenonT(60) DEF Owned, Slot
  <2> QED BY <2>1, <2>2, <2>3 DEF MemInv
<1>7. pc' = "freevm" => HasProgram'
  BY DEF HasProgram
<1> QED BY <1>1, <1>5, <1>6, <1>7 DEF MemInv

LEMMA MemSame == MemInv /\ UNCHANGED <<memory, process, pc>> => MemInv'
<1> SUFFICES ASSUME MemInv, UNCHANGED <<memory, process, pc>> PROVE MemInv'
  OBVIOUS
<1>1. UNCHANGED <<freelist, mem, user_task, pgdir, cr3, a, file, pc>>
  BY DEF memory, process
<1>2. Owned(pgdir, 0, freelist \cup {user_task}) <=> Owned(pgdir, 0, freelist \cup {user_task})'
  BY <1>1 DEF Owned, Slot
<1>3. Owned(pgdir, a, freelist \cup {user_task}) <=> Owned(pgdir, a, freelist \cup {user_task})'
  BY <1>1 DEF Owned, Slot
<1> QED BY <1>1, <1>2, <1>3 DEF MemInv, MemOK, HasProgram

LEMMA MemRunTask == MemInv /\ (\E f \in Files : RunTask(f)) => MemInv'
<1> SUFFICES ASSUME MemInv, NEW f \in Files, RunTask(f) PROVE MemInv'
  OBVIOUS
<1>1. pc = "shell" /\ pc' = "setupkvm" /\ file' = f /\ UNCHANGED <<mem, pgdir, cr3>>
  BY DEF RunTask, At
<1>2. freelist' \subseteq freelist /\ user_task' \notin freelist'
  <2>1. CASE user_task = 0 /\ freelist # {}
    BY <2>1 DEF RunTask
  <2>2. CASE ~(user_task = 0 /\ freelist # {})
    BY <2>2 DEF RunTask, MemInv
  <2> QED BY <2>1, <2>2
<1>3. HasProgram' = FALSE
  BY <1>1 DEF HasProgram
<1> QED BY <1>1, <1>2, <1>3 DEF MemInv, MemOK, Allocating, HasProgram

LEMMA MemPanic == ASSUME MemInv, NEW msg, panic(msg) PROVE MemInv'
<1>1. UNCHANGED <<freelist, mem, user_task, pgdir, cr3>> /\ pc' = "panic"
  BY DEF panic, memory
<1>2. HasProgram' = FALSE
  BY <1>1 DEF HasProgram
<1> QED BY <1>1, <1>2, MemQuiet DEF Allocating

LEMMA Bounds ==
    ASSUME NEW x \in {"alloc_file", "alloc_stack", "alloc_image"}, file \in Files
    PROVE  /\ First(x) \in Nat /\ Limit(x) \in 0..(NPDES * NPTENTRIES)
<1>1. /\ PGROUNDUP(FileTop(file)) \in 0..(NPDES * NPTENTRIES)
      /\ PGROUNDUP(ImageTop(file)) \in 0..(NPDES * NPTENTRIES)
  BY FilesAssumption
<1>2. /\ USER_BASE \in Nat /\ USER_STACK_BASE - 2 \in Nat
      /\ USER_STACK_BASE \in 0..(NPDES * NPTENTRIES)
  <2>1. NPDES * NPTENTRIES \in Nat
    BY Sizes, SMT
  <2> QED BY <2>1, ProcessAssumption
<1>3. PGROUNDUP(FileTop(file)) \in Nat
  BY <1>1
<1>4. x = "alloc_file" \/ x = "alloc_stack" \/ x = "alloc_image"
  OBVIOUS
<1> QED BY <1>1, <1>2, <1>3, <1>4 DEF First, Limit

LEMMA MemSetup == MemInv /\ setupkvm => MemInv'
<1> SUFFICES ASSUME MemInv, setupkvm PROVE MemInv'
  OBVIOUS
<1>1. CASE panic("Page Fault")
  BY <1>1, MemPanic
<1>2. CASE ~panic("Page Fault")
  <2>1. /\ pc = "setupkvm" /\ pc' = "alloc_file" /\ pgdir' \in HeadOf(freelist)
        /\ kalloc_zeroed(pgdir') /\ a' = First("alloc_file") /\ UNCHANGED <<file, user_task, cr3>>
    BY <1>2 DEF setupkvm, At
  <2>2. PICK dir : dir = pgdir'
    OBVIOUS
  <2>3. dir \in freelist
    <3>1. freelist \in SUBSET Frames
      BY DEF MemInv, MemOK
    <3> QED BY <2>1, <2>2, <3>1, MemoryAssumption
  <2>4. freelist' = freelist \ {dir} /\ mem' = [mem EXCEPT ![dir] = Zeroed]
    BY <2>1, <2>2 DEF kalloc_zeroed
  <2>5. PICK task : task = user_task
    OBVIOUS
  <2>6. MemOK' /\ dir \in Frames /\ Owned(dir, 0, freelist \cup {task})'
    BY <2>3, <2>4, <2>5, NewDirectory DEF MemInv
  <2>7. Owned(pgdir, 0, freelist \cup {user_task})'
    BY <2>1, <2>2, <2>5, <2>6, ZenonT(60) DEF Owned, Slot
  <2>8. file \in Files /\ a' \in Nat
    BY <2>1, Bounds DEF MemInv
  <2>9. user_task' \notin freelist' /\ cr3' \notin freelist'
    BY <2>1, <2>4 DEF MemInv
  <2> QED BY <2>1, <2>2, <2>6, <2>7, <2>8, <2>9 DEF MemInv, HasProgram, Allocating
<1> QED BY <1>1, <1>2

LEMMA MemAlloc ==
    ASSUME MemInv, NEW x \in {"alloc_file", "alloc_stack", "alloc_image"},
           NEW next \in {"alloc_stack", "read_file", "enter"},
           NEW failed \in {"alloc_stack", "read_file", "shell"},
           allocuvm(x, next, failed)
    PROVE  MemInv'
<1>1. pc = x /\ UNCHANGED <<file, user_task, pgdir, cr3>>
  BY DEF allocuvm
<1>2. /\ HasProgram /\ pc # "freevm" /\ pgdir \in Frames /\ file \in Files /\ a \in Nat
      /\ Owned(pgdir, 0, freelist \cup {user_task}) /\ MemOK /\ user_task \notin freelist
      /\ cr3 \notin freelist
  BY <1>1 DEF MemInv, HasProgram, Allocating
<1>3. CASE a < Limit(x) /\ mappages(pgdir, a) /\ a' = a + 1 /\ pc' = x
  <2>1. a < NPDES * NPTENTRIES
    <3>1. Limit(x) \in 0..(NPDES * NPTENTRIES) /\ NPDES * NPTENTRIES \in Nat
      BY <1>2, Bounds, Sizes, SMT
    <3> QED BY <1>2, <1>3, <3>1
  <2>2. PICK dir, task : dir = pgdir /\ task = user_task
    OBVIOUS
  <2>3. MemOK' /\ Owned(dir, 0, freelist \cup {task})' /\ freelist' \subseteq freelist
    <3>1. PICK n \in Nat : n = a
      BY <1>2
    <3>2. dir \in Frames /\ task \notin freelist /\ Owned(dir, 0, freelist \cup {task}) /\ mappages(dir, n)
      BY <1>2, <1>3, <2>2, <3>1
    <3> QED BY <1>2, <2>1, <3>1, <3>2, MappagesKeeps
  <2>4. Owned(pgdir, 0, freelist \cup {user_task})'
    BY <1>1, <2>2, <2>3, ZenonT(60) DEF Owned, Slot
  <2>5. a' \in Nat /\ pgdir' \in Frames /\ file' \in Files
        /\ user_task' \notin freelist' /\ cr3' \notin freelist'
    BY <1>1, <1>2, <1>3, <2>3
  <2> QED BY <1>1, <1>3, <2>3, <2>4, <2>5 DEF MemInv, HasProgram, Allocating
<1>4. CASE UNCHANGED memory /\ \/ pc' = next /\ a' = IF next = "alloc_stack" THEN First(next) ELSE 0
                               \/ pc' = failed /\ a' = IF failed = "alloc_stack" THEN First(failed) ELSE 0
  <2>1. a' \in Nat
    BY <1>2, <1>4, Bounds
  <2>2. pc' # "freevm" /\ UNCHANGED <<freelist, mem, user_task, pgdir, cr3>> /\ file' \in Files
    BY <1>1, <1>2, <1>4 DEF memory
  <2> QED BY <1>2, <2>1, <2>2, MemQuiet
<1> QED BY <1>1, <1>3, <1>4 DEF allocuvm, At

LEMMA MemRead == MemInv /\ read_file => MemInv'
<1> SUFFICES ASSUME MemInv, read_file PROVE MemInv'
  OBVIOUS
<1>1. CASE panic("Page Fault")
  BY <1>1, MemPanic
<1>2. CASE ~panic("Page Fault")
  <2>1. /\ pc = "read_file" /\ cr3' = pgdir /\ UNCHANGED <<memory, file, user_task, pgdir>>
        /\ \/ pc' = "shell" /\ a' = a
           \/ pc' = "alloc_image" /\ a' = First("alloc_image")
    BY <1>2 DEF read_file, At
  <2>2. HasProgram /\ file \in Files /\ a \in Nat
    BY <2>1 DEF MemInv, HasProgram, Allocating
  <2>3. a' \in Nat
    BY <2>1, <2>2, Bounds
  <2>4. UNCHANGED <<freelist, mem, user_task, pgdir>> /\ pc' # "freevm" /\ file' \in Files
    BY <2>1, <2>2 DEF memory
  <2> QED BY <2>1, <2>2, <2>3, <2>4, MemQuiet
<1> QED BY <1>1, <1>2

LEMMA MemLoad == MemInv /\ run_elf => MemInv'
<1> SUFFICES ASSUME MemInv, run_elf PROVE MemInv'
  OBVIOUS
<1>1. CASE alloc_file
  BY <1>1, MemAlloc DEF alloc_file
<1>2. CASE alloc_stack
  BY <1>2, MemAlloc DEF alloc_stack
<1>3. CASE alloc_image
  BY <1>3, MemAlloc DEF alloc_image
<1>4. CASE enter
  <2>1. pc = "enter" /\ pc' = "user" /\ UNCHANGED <<freelist, mem, user_task, pgdir, cr3>>
    BY <1>4 DEF enter, At, memory
  <2>2. HasProgram
    BY <2>1 DEF HasProgram
  <2> QED BY <2>1, <2>2, MemQuiet DEF Allocating
<1>5. CASE \E step \in {"alloc_file", "alloc_stack", "alloc_image"} : remap(step)
  BY <1>5, MemPanic DEF remap
<1> QED BY <1>1, <1>2, <1>3, <1>4, <1>5, MemRunTask, MemSetup, MemRead DEF run_elf

LEMMA OwnedNow ==
    ASSUME NEW dir, NEW task, NEW lo, a' = lo, pgdir' = dir, user_task' = task,
           Owned(dir, lo, freelist \cup {task})'
    PROVE  Owned(pgdir, a, freelist \cup {user_task})'
<1>1. \A p : Slot(pgdir, p)' = Slot(dir, p)'
  BY Zenon DEF Slot
<1>2. (freelist \cup {user_task})' = (freelist \cup {task})' /\ a'..LastSlot = lo..LastSlot
  OBVIOUS
<1> QED BY <1>1, <1>2, Zenon DEF Owned

LEMMA MemFree == MemInv /\ freevm => MemInv'
<1> SUFFICES ASSUME MemInv, freevm PROVE MemInv'
  OBVIOUS
<1>1. /\ pc = "freevm" /\ UNCHANGED <<file, user_task, pgdir, cr3>>
      /\ IF a = LastSlot THEN pc' = "sti" /\ a' = 0 ELSE pc' = pc /\ a' = a + 1
  BY DEF freevm
<1>2. /\ MemOK /\ a \in 0..LastSlot /\ cr3 = 0 /\ Owned(pgdir, a, freelist \cup {user_task})
      /\ user_task \notin freelist /\ pgdir \in Frames
  BY <1>1 DEF MemInv, KVM, HasProgram
<1>3. PICK dir \in Frames : dir = pgdir
  BY <1>2
<1>4. PICK task : task = user_task
  OBVIOUS
<1>5. PICK lo \in 0..LastSlot : lo = a
  BY <1>2
<1>6. /\ MemOK' /\ Owned(dir, lo + 1, freelist \cup {task})'
      /\ freelist' = IF Slot(dir, lo) = 0 THEN freelist ELSE freelist \cup {Slot(dir, lo)}
  <2>1. IF Slot(dir, lo) = 0 THEN UNCHANGED memory ELSE kfree(Slot(dir, lo))
    BY <1>3, <1>4, <1>5 DEF freevm
  <2>2. dir \in Frames /\ Owned(dir, lo, freelist \cup {task})
    BY <1>2, <1>3, <1>4, <1>5
  <2> QED BY <1>2, <2>1, <2>2, FreeingKeeps
<1>7. user_task' \notin freelist'
  <2>1. lo \in lo..LastSlot
    BY Sizes
  <2>2. Slot(dir, lo) # 0 => Slot(dir, lo) # task
    BY <1>2, <1>3, <1>4, <1>5, <2>1 DEF Owned
  <2> QED BY <1>1, <1>2, <1>3, <1>4, <1>5, <1>6, <2>2
<1>8. cr3' = KVM /\ cr3' \notin freelist'
  <2>1. 0 \notin freelist'
    BY <1>6, Sizes DEF MemOK, Frames
  <2> QED BY <1>1, <1>2, <2>1 DEF KVM
<1>9. CASE a = LastSlot
  <2>1. pc' = "sti"
    BY <1>1, <1>9
  <2> QED BY <1>6, <1>7, <1>8, <2>1 DEF MemInv, HasProgram, Allocating
<1>10. CASE a # LastSlot
  <2>1. pc' = "freevm" /\ a' = lo + 1 /\ a' \in 0..LastSlot
    BY <1>1, <1>2, <1>3, <1>4, <1>5, <1>10, Sizes
  <2>2. Owned(pgdir, a, freelist \cup {user_task})'
    <3>1. a' = lo + 1 /\ pgdir' = dir /\ user_task' = task
      BY <1>1, <1>3, <1>4, <2>1
    <3> QED BY <1>6, <3>1, OwnedNow
  <2> QED BY <1>1, <1>2, <1>6, <1>7, <1>8, <2>1, <2>2 DEF MemInv, HasProgram, Allocating
<1> QED BY <1>9, <1>10

LEMMA MemKill == MemInv /\ killproc => MemInv'
<1> SUFFICES ASSUME MemInv, killproc PROVE MemInv'
  OBVIOUS
<1>1. CASE EndProgram
  <2>1. pc = "user" /\ pc' = "restore_text" /\ UNCHANGED <<freelist, mem, user_task, pgdir, cr3>>
    BY <1>1 DEF EndProgram, At, memory
  <2>2. HasProgram
    BY <2>1 DEF HasProgram
  <2> QED BY <2>1, <2>2, MemQuiet DEF Allocating
<1>2. CASE switchkvm
  <2>1. /\ pc = "switchkvm" /\ pc' = "freevm" /\ cr3' = KVM /\ a' = 0
        /\ UNCHANGED <<freelist, mem, user_task, pgdir>>
    BY <1>2 DEF switchkvm, At, memory
  <2>2. HasProgram
    BY <2>1 DEF HasProgram
  <2>3. pgdir \in Frames /\ Owned(pgdir, 0, freelist \cup {user_task}) /\ MemOK
        /\ user_task \notin freelist
    BY <2>1, <2>2 DEF MemInv
  <2>4. Owned(pgdir, a, freelist \cup {user_task})'
    <3>1. \A p : Slot(pgdir, p)' = Slot(pgdir, p)
      BY <2>1, Zenon DEF Slot
    <3>2. (freelist \cup {user_task})' = freelist \cup {user_task} /\ a'..LastSlot = 0..LastSlot
      BY <2>1
    <3> QED BY <2>3, <3>1, <3>2, Zenon DEF Owned
  <2>5. 0 \notin freelist' /\ 0 \in 0..LastSlot /\ MemOK'
    BY <2>1, <2>3, Sizes DEF MemOK, Frames
  <2> QED BY <2>1, <2>3, <2>4, <2>5 DEF MemInv, HasProgram, Allocating, KVM
<1>3. CASE sti
  <2>1. pc' = "shell" /\ UNCHANGED <<freelist, mem, user_task, pgdir, cr3>>
    BY <1>3 DEF sti, At, memory
  <2>2. HasProgram' = FALSE
    BY <2>1 DEF HasProgram
  <2> QED BY <2>1, <2>2, MemQuiet DEF Allocating
<1> QED BY <1>1, <1>2, <1>3, MemFree DEF killproc

\* System calls and what they bind or restore leave the frames alone.
LEMMA MemCalls ==
    ASSUME MemInv, CtlInv,
           \/ \E page \in UserPages : handle_enter13h(page)
           \/ mode13_fb_bind \/ vgaMode13 \/ first_copy
           \/ handle_leave13h \/ proc_restore_text_mode
    PROVE  MemInv'
<1>1. UNCHANGED <<freelist, mem, user_task, pgdir, cr3>>
  BY DEF handle_enter13h, mode13_fb_bind, BindPtr, BindFlag, vgaMode13, first_copy, mode13_fb_copy,
         handle_leave13h, proc_restore_text_mode, RestoreText, UnbindFlag, UnbindPtr, OpenPlanes,
         WriteFont, MapText, kbd_clear_buffer, memory, process
<1>2. /\ pc \in {"user", "restore_text", "unbind_flag"} \cup Binding \cup Unbinding
      /\ pc' \in {"user", "switchkvm", "restore_text", "unbind_flag"} \cup Binding \cup Unbinding
  BY DEF handle_enter13h, mode13_fb_bind, BindPtr, BindFlag, vgaMode13, first_copy, mode13_fb_copy,
         handle_leave13h, proc_restore_text_mode, RestoreText, UnbindFlag, UnbindPtr, OpenPlanes,
         WriteFont, MapText, kbd_clear_buffer, At, Binding, Unbinding, CtlInv, InterruptInv
<1>3. HasProgram /\ pc # "freevm" /\ pc' # "freevm" /\ pc' \notin {"setupkvm"} \cup Allocating
  BY <1>2 DEF HasProgram, Binding, Unbinding, Allocating
<1> QED BY <1>1, <1>3, MemQuiet

LEMMA MemInterrupt == MemInv /\ (mode13_fb_tick \/ KeyInterrupt \/ kbd_pop_event) => MemInv'
<1> SUFFICES ASSUME MemInv, mode13_fb_tick \/ KeyInterrupt \/ kbd_pop_event PROVE MemInv'
  OBVIOUS
<1>1. CASE panic("Page Fault")
  BY <1>1, MemPanic
<1>2. CASE ~panic("Page Fault")
  <2>1. UNCHANGED <<memory, process, pc>>
    BY <1>2 DEF mode13_fb_tick, mode13_fb_copy, KeyInterrupt, kbd_pop_event
  <2> QED BY <2>1, MemSame
<1> QED BY <1>1, <1>2

LEMMA MemInvariance == Spec => []MemInv
<1>1. CtlInv /\ MemInv /\ [Next]_vars => MemInv'
  <2> SUFFICES ASSUME CtlInv, MemInv, [Next]_vars PROVE MemInv'
    OBVIOUS
  <2>1. CASE UNCHANGED vars
    <3>1. UNCHANGED <<memory, process, pc>>
      BY <2>1 DEF vars, memory, process
    <3> QED BY <3>1, MemSame
  <2> QED BY <2>1, MemLoad, MemInterrupt, MemCalls, MemKill DEF Next
<1> QED BY MemInit, <1>1, CtlInvariance, PTL DEF Spec

\* For every number of frames, every shape of the page tables and every order of the free
\* list, through runs that succeed, fail half-way or panic: no frame of a program is
\* free, is the task structure, or is there twice, and cr3 never points to a free frame.
THEOREM FramesAreSafe == Spec => []FramesSafe
<1>1. MemInv => FramesSafe
  <2> SUFFICES ASSUME MemInv PROVE FramesSafe
    OBVIOUS
  <2>1. HasProgram => \A p \in LiveSlots : Slot(pgdir, p) # 0 =>
             /\ Slot(pgdir, p) \notin freelist \cup {user_task}
             /\ \A q \in LiveSlots : q # p => Slot(pgdir, q) # Slot(pgdir, p)
    BY DEF MemInv, Owned, LiveSlots, HasProgram
  <2> QED BY <2>1 DEF MemInv, FramesSafe, NoFrameTwice, Cr3NotFree
<1> QED BY <1>1, MemInvariance, PTL

-----------------------------------------------------------------------------
(* The image a program starts with                                           *)

Running == {"enter", "user", "restore_text", "unbind_flag"} \cup Binding \cup Unbinding

\* Pages of the image are mapped as far as the third allocuvm has come: read_file faults
\* when the first, whose result is ignored, has left one out.
ImageInv ==
    /\ pc = "alloc_image" => \A p \in USER_BASE..(a - 1) :
           p < NPDES * NPTENTRIES => walkpgdir(pgdir, p) # 0
    /\ pc \in Running => \A p \in USER_BASE..(PGROUNDUP(ImageTop(file)) - 1) : walkpgdir(pgdir, p) # 0

LEMMA ImageQuiet ==
    ASSUME ImageInv, UNCHANGED <<freelist, mem, pgdir, file>>,
           pc' \in Running => pc \in Running,
           pc' = "alloc_image" => pc = "alloc_image" /\ a' = a
    PROVE  ImageInv'
<1>1. \A p : walkpgdir(pgdir, p)' = walkpgdir(pgdir, p)
  BY DEF walkpgdir
<1>2. file' = file
  OBVIOUS
<1>3. CASE pc' \in Running
  <2>1. pc' # "alloc_image"
    BY <1>3 DEF Running, Binding, Unbinding
  <2>2. ImageTop(file)' = ImageTop(file)
    BY <1>2 DEF ImageTop, Tops, FileTop
  <2>3. PGROUNDUP(ImageTop(file))' = PGROUNDUP(ImageTop(file))
    BY <2>2 DEF PGROUNDUP
  <2> QED BY <1>1, <1>3, <2>1, <2>3 DEF ImageInv
<1>4. CASE pc' \notin Running
  BY <1>1, <1>4 DEF ImageInv
<1> QED BY <1>3, <1>4

LEMMA ImageAlloc ==
    ASSUME MemInv, ImageInv, alloc_image
    PROVE  ImageInv'
<1>1. pc = "alloc_image" /\ UNCHANGED <<file, pgdir>> /\ pc \notin Running
  BY DEF alloc_image, allocuvm, Running, Binding, Unbinding
<1>2. /\ pgdir \in Frames /\ file \in Files /\ a \in Nat
      /\ Owned(pgdir, 0, freelist \cup {user_task}) /\ MemOK /\ user_task \notin freelist
  BY <1>1 DEF MemInv, HasProgram, Allocating
<1>3. PICK n \in Nat : n = NPDES * NPTENTRIES /\ Limit("alloc_image") \in 0..n
  <2>1. NPDES * NPTENTRIES \in Nat
    BY Sizes, SMT
  <2> QED BY <1>2, <2>1, Bounds
<1>4. PICK b \in Nat : b = USER_BASE
  BY ProcessAssumption
<1>5. \A p \in b..(a - 1) : p < n => walkpgdir(pgdir, p) # 0
  BY <1>1, <1>3, <1>4 DEF ImageInv
<1>6. CASE a < Limit("alloc_image") /\ mappages(pgdir, a) /\ a' = a + 1 /\ pc' = pc
  <2>1. PICK dir, task : dir = pgdir /\ task = user_task
    OBVIOUS
  <2>2. a < NPDES * NPTENTRIES
    BY <1>2, <1>3, <1>6
  <2>3. /\ \A q \in Nat : q < NPDES * NPTENTRIES /\ walkpgdir(dir, q) # 0 => walkpgdir(dir, q)' # 0
        /\ \E m \in Nat : m = a /\ walkpgdir(dir, m)' # 0
    <3>1. PICK m \in Nat : m = a
      BY <1>2
    <3>2. dir \in Frames /\ task \notin freelist /\ Owned(dir, 0, freelist \cup {task})
          /\ mappages(dir, m) /\ m < NPDES * NPTENTRIES
      BY <1>2, <1>6, <2>1, <2>2, <3>1
    <3> QED BY <1>2, <3>1, <3>2, MappagesKeeps
  <2>4. \A p : walkpgdir(pgdir, p)' = walkpgdir(dir, p)'
    BY <1>1, <2>1 DEF walkpgdir
  <2>5. ASSUME NEW p \in b..a', p # a', p < n PROVE walkpgdir(dir, p)' # 0
    <3>1. p \in Nat /\ (p = a \/ p \in b..(a - 1))
      BY <1>2, <1>6, <2>5
    <3> QED BY <1>3, <1>5, <2>1, <2>3, <2>5, <3>1
  <2>6. \A p \in b..(a' - 1) : p \in b..a' /\ p # a'
    BY <1>2, <1>6
  <2>7. pc' \notin Running
    BY <1>1, <1>6
  <2> QED BY <1>3, <1>4, <2>4, <2>5, <2>6, <2>7 DEF ImageInv
<1>7. CASE a >= Limit("alloc_image") /\ pc' = "enter" /\ UNCHANGED <<memory, pgdir, file>>
  <2>1. PICK t : t = PGROUNDUP(ImageTop(file))
    OBVIOUS
  <2>2. t \in 0..n /\ a >= t
    BY <1>3, <1>7, <2>1 DEF Limit
  <2>3. \A p \in b..(t - 1) : walkpgdir(pgdir, p) # 0
    BY <1>2, <1>5, <2>2
  <2>4. \A p : walkpgdir(pgdir, p)' = walkpgdir(pgdir, p)
    BY <1>7 DEF walkpgdir, memory
  <2>5. PGROUNDUP(ImageTop(file))' = t
    BY <1>7, <2>1 DEF PGROUNDUP, ImageTop, Tops, FileTop
  <2> QED BY <1>4, <1>7, <2>3, <2>4, <2>5 DEF ImageInv
<1>8. CASE pc' = "shell"
  BY <1>8 DEF ImageInv, Running, Binding, Unbinding
<1> QED BY <1>1, <1>6, <1>7, <1>8 DEF alloc_image, allocuvm, At

LEMMA ImageRead ==
    ASSUME MemInv, ImageInv, read_file
    PROVE  ImageInv'
<1>1. CASE pc' # "alloc_image"
  BY <1>1 DEF read_file, At, panic, ImageInv, Running, Binding, Unbinding
<1>2. CASE pc' = "alloc_image"
  <2>1. /\ pc = "read_file" /\ a' = First("alloc_image") /\ UNCHANGED <<memory, file, pgdir>>
        /\ \A p \in USER_BASE..(PGROUNDUP(FileTop(file)) - 1) : walkpgdir(pgdir, p) # 0
    BY <1>2 DEF read_file, At, panic
  <2>2. a' = PGROUNDUP(FileTop(file))
    BY <2>1 DEF First
  <2>3. \A p : walkpgdir(pgdir, p)' = walkpgdir(pgdir, p)
    BY <2>1 DEF walkpgdir, memory
  <2>4. pc' \notin Running
    BY <1>2 DEF Running, Binding, Unbinding
  <2> QED BY <2>1, <2>2, <2>3, <2>4 DEF ImageInv
<1> QED BY <1>1, <1>2

LEMMA ImageLoad == MemInv /\ ImageInv /\ run_elf => ImageInv'
<1> SUFFICES ASSUME MemInv, ImageInv, run_elf PROVE ImageInv'
  OBVIOUS
<1>1. CASE alloc_image
  BY <1>1, ImageAlloc
<1>2. CASE read_file
  BY <1>2, ImageRead
<1>3. CASE enter
  <2>1. pc = "enter" /\ pc' = "user" /\ UNCHANGED <<freelist, mem, pgdir, file>>
    BY <1>3 DEF enter, At, memory
  <2> QED BY <2>1, ImageQuiet DEF Running
<1>4. CASE pc' \in {"setupkvm", "alloc_file", "alloc_stack", "read_file", "panic"}
  BY <1>4 DEF ImageInv, Running, Binding, Unbinding
<1>5. ~alloc_image /\ ~read_file /\ ~enter => pc' \in {"setupkvm", "alloc_file", "alloc_stack", "read_file", "panic"}
  BY DEF run_elf, RunTask, setupkvm, alloc_file, alloc_stack, allocuvm, remap, panic, At
<1> QED BY <1>1, <1>2, <1>3, <1>4, <1>5

LEMMA ImageRest ==
    ASSUME CtlInv, ImageInv,
           \/ mode13_fb_tick \/ KeyInterrupt \/ kbd_pop_event
           \/ \E page \in UserPages : handle_enter13h(page)
           \/ mode13_fb_bind \/ vgaMode13 \/ first_copy
           \/ handle_leave13h \/ proc_restore_text_mode \/ killproc
    PROVE  ImageInv'
<1>1. CASE mode13_fb_tick \/ KeyInterrupt \/ kbd_pop_event
  <2>1. CASE pc' = "panic"
    BY <2>1 DEF ImageInv, Running, Binding, Unbinding
  <2>2. CASE pc' # "panic"
    <3>1. UNCHANGED <<memory, process, pc>>
      BY <1>1, <2>2 DEF mode13_fb_tick, mode13_fb_copy, KeyInterrupt, kbd_pop_event, panic
    <3> QED BY <3>1, ImageQuiet DEF memory, process
  <2> QED BY <2>1, <2>2
<1>2. CASE \/ \E page \in UserPages : handle_enter13h(page)
           \/ mode13_fb_bind \/ vgaMode13 \/ first_copy
           \/ handle_leave13h \/ proc_restore_text_mode
  <2>1. UNCHANGED <<freelist, mem, pgdir, file>>
    BY <1>2 DEF handle_enter13h, mode13_fb_bind, BindPtr, BindFlag, vgaMode13, first_copy, mode13_fb_copy,
           handle_leave13h, proc_restore_text_mode, RestoreText, UnbindFlag, UnbindPtr, OpenPlanes,
           WriteFont, MapText, kbd_clear_buffer, memory, process
  <2>2. /\ pc \in {"user", "restore_text", "unbind_flag"} \cup Binding \cup Unbinding
        /\ pc' \in {"user", "switchkvm", "restore_text", "unbind_flag"} \cup Binding \cup Unbinding
    BY <1>2 DEF handle_enter13h, mode13_fb_bind, BindPtr, BindFlag, vgaMode13, first_copy,
           handle_leave13h, proc_restore_text_mode, RestoreText, UnbindFlag, UnbindPtr, OpenPlanes,
           WriteFont, MapText, kbd_clear_buffer, At, Binding, Unbinding, CtlInv, InterruptInv
  <2>3. pc \in Running /\ pc' # "alloc_image"
    BY <2>2 DEF Running, Binding, Unbinding
  <2> QED BY <2>1, <2>3, ImageQuiet
<1>3. CASE EndProgram
  <2>1. pc = "user" /\ pc' = "restore_text" /\ UNCHANGED <<freelist, mem, pgdir, file>>
    BY <1>3 DEF EndProgram, At, memory
  <2> QED BY <2>1, ImageQuiet DEF Running
<1>4. CASE switchkvm \/ freevm \/ sti
  <2>1. pc' \in {"freevm", "sti", "shell"}
    BY <1>4 DEF switchkvm, freevm, sti, At
  <2> QED BY <2>1 DEF ImageInv, Running, Binding, Unbinding
<1> QED BY <1>1, <1>2, <1>3, <1>4 DEF killproc

LEMMA ImageInvariance == Spec => []ImageInv
<1>1. Init => ImageInv
  BY DEF Init, ImageInv, Running, Binding, Unbinding
<1>2. ImageInv /\ UNCHANGED vars => ImageInv'
  BY ImageQuiet DEF vars
<1>3. CtlInv /\ MemInv /\ ImageInv /\ [Next]_vars => ImageInv'
  BY <1>2, ImageLoad, ImageRest DEF Next
<1> QED BY <1>1, <1>3, CtlInvariance, MemInvariance, PTL DEF Spec

\* A program runs only with every page of its image mapped, whatever the layout of its
\* segments and however little memory there is.
THEOREM ImageIsMapped == Spec => []ImageMapped
<1>1. ImageInv => ImageMapped
  BY DEF ImageInv, ImageMapped, Running
<1> QED BY <1>1, ImageInvariance, PTL

-----------------------------------------------------------------------------
(* The timer's copy, in a build that keeps the order of the source           *)

\* The address is checked before it is bound, and is bound before the copy is on; the
\* directory it was checked in is in use until the copy is off.
CopyInv ==
    /\ mode13_enabled => Readable(mode13_user_fb_ptr)
    /\ pc \in {"bind_ptr", "bind_flag"} => Readable(fbArg)
    /\ pc = "bind_flag" => mode13_user_fb_ptr = fbArg
    /\ pc \notin {"bind_flag_first", "bind_ptr_last"}

\* Where the copy is off, whatever happens to the frames.
LEMMA CopyOff ==
    ASSUME mode13_enabled' = FALSE,
           pc' \notin {"bind_ptr", "bind_flag", "bind_flag_first", "bind_ptr_last"}
    PROVE  CopyInv'
BY DEF CopyInv

LEMMA CopyElsewhere ==
    ASSUME CtlInv, CopyInv, run_elf \/ switchkvm \/ freevm \/ sti
    PROVE  CopyInv'
<1>1. pc \in {"shell"} \cup Loading \cup Freeing /\ UNCHANGED mode13_enabled
  BY DEF run_elf, RunTask, setupkvm, alloc_file, alloc_stack, alloc_image, allocuvm, read_file, enter,
         remap, panic, switchkvm, freevm, sti, At, Loading, Freeing, display
<1>2. pc' \in {"shell", "user", "panic"} \cup Loading \cup Freeing
  BY DEF run_elf, RunTask, setupkvm, alloc_file, alloc_stack, alloc_image, allocuvm, read_file, enter,
         remap, panic, switchkvm, freevm, sti, At, Loading, Freeing
<1>3. mode13_enabled' = FALSE
  BY <1>1 DEF CtlInv, DisplayInv, TextShown
<1> QED BY <1>2, <1>3, CopyOff DEF Loading, Freeing

LEMMA CopyBound ==
    ASSUME FlagFirst = {FALSE}, CopyInv, CtlInv, UNCHANGED <<freelist, mem, cr3>>,
           \/ mode13_fb_tick \/ KeyInterrupt \/ kbd_pop_event
           \/ \E page \in UserPages : handle_enter13h(page)
           \/ mode13_fb_bind \/ vgaMode13 \/ first_copy
           \/ handle_leave13h \/ proc_restore_text_mode \/ EndProgram
           \/ UNCHANGED vars
    PROVE  CopyInv'
<1>1. \A page : Readable(page) <=> Readable(page)'
  BY DEF Readable, walkpgdir
<1>2. CASE UNCHANGED <<fbArg, mode13_enabled, mode13_user_fb_ptr>> /\ pc' \notin Binding
  <2>1. mode13_user_fb_ptr' = mode13_user_fb_ptr /\ mode13_enabled' = mode13_enabled
    BY <1>2
  <2>2. Readable(mode13_user_fb_ptr) <=> Readable(mode13_user_fb_ptr)'
    BY <1>1, <2>1 DEF Readable, walkpgdir
  <2> QED BY <1>2, <2>1, <2>2 DEF CopyInv, Binding
<1>3. CASE UNCHANGED <<pc, fbArg, mode13_enabled, mode13_user_fb_ptr>>
  <2>1. (Readable(mode13_user_fb_ptr) <=> Readable(mode13_user_fb_ptr)') /\ (Readable(fbArg) <=> Readable(fbArg)')
    BY <1>3 DEF Readable, walkpgdir
  <2> QED BY <1>3, <2>1 DEF CopyInv
<1>4. ASSUME NEW page \in UserPages, handle_enter13h(page) PROVE CopyInv'
  <2>1. /\ pc' = "bind_ptr" /\ fbArg' = page /\ Readable(page)
        /\ UNCHANGED <<mode13_enabled, mode13_user_fb_ptr>>
    BY <1>4 DEF handle_enter13h, At
  <2>2. Readable(mode13_user_fb_ptr) <=> Readable(mode13_user_fb_ptr)'
    BY <2>1 DEF Readable, walkpgdir
  <2>3. Readable(fbArg)'
    BY <2>1 DEF Readable, walkpgdir
  <2> QED BY <2>1, <2>2, <2>3 DEF CopyInv
<1>5. CASE mode13_fb_bind
  <2>1. CASE BindPtr("bind_ptr", "bind_flag")
    <3>1. /\ pc = "bind_ptr" /\ pc' = "bind_flag" /\ mode13_user_fb_ptr' = fbArg
          /\ UNCHANGED <<fbArg, mode13_enabled>>
      BY <2>1 DEF BindPtr, At
    <3>2. Readable(mode13_user_fb_ptr)' /\ Readable(fbArg)'
      BY <3>1 DEF CopyInv, Readable, walkpgdir
    <3> QED BY <3>1, <3>2 DEF CopyInv
  <2>2. CASE BindFlag("bind_flag", "vgaMode13")
    <3>1. /\ pc = "bind_flag" /\ pc' = "vgaMode13" /\ UNCHANGED <<fbArg, mode13_user_fb_ptr>>
      BY <2>2 DEF BindFlag, At
    <3>2. Readable(mode13_user_fb_ptr)'
      BY <3>1 DEF CopyInv, Readable, walkpgdir
    <3> QED BY <3>1, <3>2 DEF CopyInv
  <2>3. ~BindFlag("bind_flag_first", "bind_ptr_last") /\ ~BindPtr("bind_ptr_last", "vgaMode13")
    BY DEF BindFlag, BindPtr, At, CopyInv
  <2> QED BY <1>5, <2>1, <2>2, <2>3 DEF mode13_fb_bind
<1>6. CASE vgaMode13 \/ first_copy
  <2>1. /\ pc' \in {"first_copy", "user"} /\ UNCHANGED <<fbArg, mode13_enabled, mode13_user_fb_ptr>>
    BY <1>6 DEF vgaMode13, first_copy, mode13_fb_copy, At
  <2>2. Readable(mode13_user_fb_ptr) <=> Readable(mode13_user_fb_ptr)'
    BY <2>1 DEF Readable, walkpgdir
  <2> QED BY <2>1, <2>2 DEF CopyInv
<1>7. CASE UnbindFlag \/ UnbindPtr
  <2>1. mode13_enabled' = FALSE /\ pc' \in {"unbind_ptr", "vgaMode3"}
    BY <1>7 DEF UnbindFlag, UnbindPtr, At, CtlInv, DisplayInv, Unbinding
  <2> QED BY <2>1, CopyOff
<1>8. CASE handle_leave13h \/ EndProgram \/ RestoreText \/ OpenPlanes \/ WriteFont \/ MapText \/ kbd_clear_buffer
  BY <1>2, <1>8 DEF handle_leave13h, EndProgram, RestoreText, OpenPlanes, WriteFont, MapText,
     kbd_clear_buffer, At, Binding, Unbinding, CtlInv, InterruptInv, display
<1>9. CASE mode13_fb_tick \/ KeyInterrupt \/ kbd_pop_event
  BY <1>2, <1>3, <1>9 DEF mode13_fb_tick, mode13_fb_copy, KeyInterrupt, kbd_pop_event, panic, Binding,
     display
<1>10. CASE UNCHANGED vars
  BY <1>3, <1>10 DEF vars
<1> QED BY <1>4, <1>5, <1>6, <1>7, <1>8, <1>9, <1>10 DEF proc_restore_text_mode

LEMMA CopyFrames ==
    ASSUME \/ mode13_fb_tick \/ KeyInterrupt \/ kbd_pop_event
           \/ \E page \in UserPages : handle_enter13h(page)
           \/ mode13_fb_bind \/ vgaMode13 \/ first_copy
           \/ handle_leave13h \/ proc_restore_text_mode \/ EndProgram
           \/ UNCHANGED vars
    PROVE  UNCHANGED <<freelist, mem, cr3>>
BY DEF mode13_fb_tick, panic, KeyInterrupt, kbd_pop_event, handle_enter13h, mode13_fb_bind, BindPtr,
       BindFlag, vgaMode13, first_copy, mode13_fb_copy, handle_leave13h, proc_restore_text_mode,
       RestoreText, UnbindFlag, UnbindPtr, OpenPlanes, WriteFont, MapText, kbd_clear_buffer, EndProgram,
       memory, process, vars

LEMMA CopyInvariance ==
    ASSUME FlagFirst = {FALSE}
    PROVE  Spec => []CopyInv
<1>1. Init => CopyInv
  BY DEF Init, CopyInv
<1>2. CtlInv /\ CopyInv /\ [Next]_vars => CopyInv'
  BY CopyElsewhere, CopyBound, CopyFrames DEF Next, killproc
<1> QED BY <1>1, <1>2, CtlInvariance, PTL DEF Spec

\* In a build that stores the address before the flag, as the source does, the timer never
\* copies from a page that is not mapped: not while the program binds again, not while
\* it ends, and not once its directory is left.  (The run process_bind shows the
\* other order.)
THEOREM CopyIsReadable ==
    ASSUME FlagFirst = {FALSE}
    PROVE  Spec => []CopyReadable
<1>1. CopyInv => CopyReadable
  BY DEF CopyInv, CopyReadable
<1> QED BY <1>1, CopyInvariance, PTL

-----------------------------------------------------------------------------
(* A machine on which every file fits                                        *)

FileEnd(f) == PGROUNDUP(FileTop(f))
ImageEnd(f) == PGROUNDUP(ImageTop(f))
Stack == (USER_STACK_BASE - 2)..(USER_STACK_BASE - 1)

\* The turns a step of the loader has, the pages mapped when it has come to page b, and
\* the pages that are still to be mapped then.
Turns(step, f) ==
    CASE step = "alloc_file"  -> USER_BASE..FileEnd(f)
      [] step = "alloc_stack" -> (USER_STACK_BASE - 2)..USER_STACK_BASE
      [] step = "read_file"   -> Nat
      [] step = "alloc_image" -> FileEnd(f)..ImageEnd(f)
Mapped(step, b, f) ==
    CASE step = "alloc_file"  -> USER_BASE..(b - 1)
      [] step = "alloc_stack" -> USER_BASE..(FileEnd(f) - 1) \cup (USER_STACK_BASE - 2)..(b - 1)
      [] step = "read_file"   -> USER_BASE..(FileEnd(f) - 1) \cup Stack
      [] step = "alloc_image" -> USER_BASE..(b - 1) \cup Stack
ToMap(step, b, f) ==
    CASE step = "alloc_file"  -> (ImageEnd(f) - b) + 2
      [] step = "alloc_stack" -> (USER_STACK_BASE - b) + (ImageEnd(f) - FileEnd(f))
      [] step = "read_file"   -> ImageEnd(f) - FileEnd(f)
      [] step = "alloc_image" -> ImageEnd(f) - b

\* While the loader allocates, exactly the pages it has come past are mapped, and there is
\* a frame for every page that is to come and for every table that may be missing.
AllocInv ==
    /\ a \in Turns(pc, file)
    /\ \A q \in UserPages : walkpgdir(pgdir, q) # 0 <=> q \in Mapped(pc, a, file)
    /\ Cardinality(freelist) >= ToMap(pc, a, file) + Cardinality(MissingTables(pgdir))

\* No frame is lost: each is free, the task structure, or in the program's address space,
\* of which freevm has given back what is before place a.
FitInv ==
    /\ pc \in {"shell", "setupkvm", "sti"} => freelist = Frames \ {user_task}
    /\ HasProgram => Covered(pgdir, IF pc = "freevm" THEN a ELSE 0, freelist \cup {user_task})
    /\ pc \in Allocating => AllocInv

LEMMA RoundUp ==
    ASSUME NEW x \in Nat, NEW y \in Nat, x <= y
    PROVE  PGROUNDUP(x) \in Nat /\ PGROUNDUP(x) <= PGROUNDUP(y)
<1>1. PICK w \in Nat \ {0} : w = PGSIZE
  BY ProcessAssumption
<1>2. PICK u \in Nat, v \in Nat : u = x + w - 1 /\ v = y + w - 1
  OBVIOUS
<1>3. PICK p \in Nat, r \in 0..(w - 1) : p = u \div w /\ u = p * w + r
  BY Quotients
<1>4. PICK q \in Nat, s \in 0..(w - 1) : q = v \div w /\ v = q * w + s
  BY Quotients
<1>5. p <= q
  <2>1. p >= q + 1 => p * w >= (q + 1) * w
    BY SMT
  <2>2. (q + 1) * w = q * w + w /\ q * w \in Nat /\ p * w \in Nat
    BY SMT
  <2> QED BY <1>2, <1>3, <1>4, <2>1, <2>2
<1> QED BY <1>1, <1>2, <1>3, <1>4, <1>5 DEF PGROUNDUP

LEMMA FitFacts ==
    ASSUME FilesFit, NEW f \in Files
    PROVE  /\ USER_BASE \in Nat /\ USER_STACK_BASE \in Nat /\ NPDES \in Nat
           /\ FileEnd(f) \in Nat /\ ImageEnd(f) \in Nat /\ f.size # 0
           /\ USER_BASE <= FileEnd(f) /\ FileEnd(f) <= ImageEnd(f)
           /\ ImageEnd(f) <= USER_STACK_BASE - 2
           /\ ((ImageEnd(f) - USER_BASE) + 2) + NPDES <= NFRAMES - 2
<1>1. /\ f.size \in Nat \ {0} /\ Tops(f) \subseteq Nat /\ \E top \in Tops(f) : \A t \in Tops(f) : t <= top
      /\ ImageEnd(f) <= USER_STACK_BASE - 2
      /\ 2 + (ImageEnd(f) - USER_BASE) + 2 + NPDES <= NFRAMES
  BY DEF FilesFit, BelowStack, ImageEnd
<1>2. FileTop(f) \in Tops(f) /\ ImageTop(f) \in Tops(f) /\ \A t \in Tops(f) : t <= ImageTop(f)
  <2>1. \E top \in Tops(f) : \A t \in Tops(f) : top >= t
    BY <1>1
  <2>2. ImageTop(f) \in Tops(f) /\ \A t \in Tops(f) : ImageTop(f) >= t
    BY <2>1 DEF ImageTop, Max
  <2> QED BY <1>1, <2>2 DEF Tops
<1>3. FileTop(f) \in Nat /\ ImageTop(f) \in Nat /\ FileTop(f) <= ImageTop(f)
  BY <1>1, <1>2
<1>4. FileEnd(f) \in Nat /\ ImageEnd(f) \in Nat /\ FileEnd(f) <= ImageEnd(f)
  <2>1. ImageTop(f) <= ImageTop(f)
    BY <1>3
  <2> QED BY <1>3, <2>1, RoundUp DEF FileEnd, ImageEnd
<1>5. PICK w \in Nat \ {0}, b \in Nat \ {0} : w = PGSIZE /\ b = USER_BASE
  BY ProcessAssumption
<1>6. PICK x \in Nat : x = b * w
  BY SMT
<1>7. PGROUNDUP(x) = b
  <2>1. w - 1 \in 0..(w - 1)
    OBVIOUS
  <2>2. (b * w + (w - 1)) \div w = b
    BY <2>1, QuotientOf
  <2>3. x + w - 1 = b * w + (w - 1)
    BY <1>6
  <2> QED BY <1>5, <2>2, <2>3 DEF PGROUNDUP
<1>8. x <= FileTop(f)
  <2>1. FileTop(f) = x + f.size
    BY <1>5, <1>6 DEF FileTop
  <2> QED BY <1>1, <2>1
<1>9. b <= FileEnd(f)
  BY <1>3, <1>7, <1>8, RoundUp DEF FileEnd
<1>10. USER_STACK_BASE \in Nat /\ NPDES \in Nat /\ NFRAMES \in Nat
  BY ProcessAssumption, Sizes
<1> QED BY <1>1, <1>4, <1>5, <1>9, <1>10

\* Every page a step of the loader may come to is a page of the program's half.
LEMMA TurnFacts ==
    ASSUME FilesFit, file \in Files, pc \in {"alloc_file", "alloc_stack", "alloc_image"},
           a \in Turns(pc, file)
    PROVE  /\ a \in Nat /\ Limit(pc) \in Nat /\ a <= Limit(pc)
           /\ a < Limit(pc) => /\ a \in UserPages /\ a < NPDES * NPTENTRIES
                              /\ a \notin Mapped(pc, a, file)
                              /\ a + 1 \in Turns(pc, file)
                              /\ Mapped(pc, a + 1, file) = Mapped(pc, a, file) \cup {a}
                              /\ ToMap(pc, a, file) \in Nat \ {0}
                              /\ ToMap(pc, a + 1, file) = ToMap(pc, a, file) - 1
<1>1. /\ USER_BASE \in Nat /\ USER_STACK_BASE \in Nat
      /\ FileEnd(file) \in Nat /\ ImageEnd(file) \in Nat
      /\ USER_BASE <= FileEnd(file) /\ FileEnd(file) <= ImageEnd(file)
      /\ ImageEnd(file) <= USER_STACK_BASE - 2
  BY FitFacts
<1>2. PICK n \in Nat : n = NPDES * NPTENTRIES /\ USER_STACK_BASE <= n
  <2>1. NPDES * NPTENTRIES \in Nat
    BY Sizes, SMT
  <2> QED BY <2>1, ProcessAssumption
<1>3. UserPages = 0..(n - 1)
  BY <1>2 DEF UserPages
<1>4. CASE pc = "alloc_file"
  <2>1. /\ Turns(pc, file) = USER_BASE..FileEnd(file) /\ Limit(pc) = FileEnd(file)
        /\ Mapped(pc, a, file) = USER_BASE..(a - 1)
        /\ Mapped(pc, a + 1, file) = USER_BASE..((a + 1) - 1)
        /\ ToMap(pc, a, file) = (ImageEnd(file) - a) + 2
        /\ ToMap(pc, a + 1, file) = (ImageEnd(file) - (a + 1)) + 2
    BY <1>4 DEF Turns, Limit, Mapped, ToMap, FileEnd
  <2>2. a \in Nat /\ USER_BASE <= a /\ a <= FileEnd(file)
    BY <1>1, <2>1
  <2>3. a \notin USER_BASE..(a - 1) /\ USER_BASE..((a + 1) - 1) = USER_BASE..(a - 1) \cup {a}
    BY <1>1, <2>2
  <2>4. a < FileEnd(file) => a + 1 \in USER_BASE..FileEnd(file) /\ a \in 0..(n - 1)
    BY <1>1, <1>2, <2>2
  <2>5. a < FileEnd(file) => /\ (ImageEnd(file) - a) + 2 \in Nat \ {0}
                            /\ (ImageEnd(file) - (a + 1)) + 2 = ((ImageEnd(file) - a) + 2) - 1
    BY <1>1, <2>2
  <2>6. a \notin Mapped(pc, a, file) /\ Mapped(pc, a + 1, file) = Mapped(pc, a, file) \cup {a}
    BY <2>1, <2>3, Zenon
  <2>7. a < Limit(pc) => /\ ToMap(pc, a, file) \in Nat \ {0}
                         /\ ToMap(pc, a + 1, file) = ToMap(pc, a, file) - 1
    BY <2>1, <2>5
  <2>8. a < Limit(pc) => a + 1 \in Turns(pc, file) /\ a \in UserPages
    BY <1>3, <2>1, <2>4, Zenon
  <2>9. Limit(pc) \in Nat /\ a <= Limit(pc) /\ (a < Limit(pc) => a < NPDES * NPTENTRIES)
    BY <1>1, <1>2, <2>1, <2>2
  <2> QED BY <2>2, <2>6, <2>7, <2>8, <2>9, Zenon
<1>5. CASE pc = "alloc_stack"
  <2>1. /\ Turns(pc, file) = (USER_STACK_BASE - 2)..USER_STACK_BASE /\ Limit(pc) = USER_STACK_BASE
        /\ Mapped(pc, a, file) = USER_BASE..(FileEnd(file) - 1) \cup (USER_STACK_BASE - 2)..(a - 1)
        /\ Mapped(pc, a + 1, file) = USER_BASE..(FileEnd(file) - 1) \cup (USER_STACK_BASE - 2)..((a + 1) - 1)
        /\ ToMap(pc, a, file) = (USER_STACK_BASE - a) + (ImageEnd(file) - FileEnd(file))
        /\ ToMap(pc, a + 1, file) = (USER_STACK_BASE - (a + 1)) + (ImageEnd(file) - FileEnd(file))
    BY <1>5 DEF Turns, Limit, Mapped, ToMap
  <2>2. a \in Nat /\ USER_STACK_BASE - 2 <= a /\ a <= USER_STACK_BASE
    BY <1>1, <2>1
  <2>3. /\ a \notin USER_BASE..(FileEnd(file) - 1) \cup (USER_STACK_BASE - 2)..(a - 1)
        /\ (USER_STACK_BASE - 2)..((a + 1) - 1) = (USER_STACK_BASE - 2)..(a - 1) \cup {a}
    BY <1>1, <2>2
  <2>4. a < USER_STACK_BASE => a + 1 \in (USER_STACK_BASE - 2)..USER_STACK_BASE /\ a \in 0..(n - 1)
    BY <1>1, <1>2, <2>2
  <2>5. a < USER_STACK_BASE =>
          /\ (USER_STACK_BASE - a) + (ImageEnd(file) - FileEnd(file)) \in Nat \ {0}
          /\ (USER_STACK_BASE - (a + 1)) + (ImageEnd(file) - FileEnd(file))
                 = ((USER_STACK_BASE - a) + (ImageEnd(file) - FileEnd(file))) - 1
    BY <1>1, <2>2
  <2>6. a \notin Mapped(pc, a, file) /\ Mapped(pc, a + 1, file) = Mapped(pc, a, file) \cup {a}
    BY <2>1, <2>3, Zenon
  <2>7. a < Limit(pc) => /\ ToMap(pc, a, file) \in Nat \ {0}
                         /\ ToMap(pc, a + 1, file) = ToMap(pc, a, file) - 1
    BY <2>1, <2>5
  <2>8. a < Limit(pc) => a + 1 \in Turns(pc, file) /\ a \in UserPages
    BY <1>3, <2>1, <2>4, Zenon
  <2>9. Limit(pc) \in Nat /\ a <= Limit(pc) /\ (a < Limit(pc) => a < NPDES * NPTENTRIES)
    BY <1>1, <1>2, <2>1, <2>2
  <2> QED BY <2>2, <2>6, <2>7, <2>8, <2>9, Zenon
<1>6. CASE pc = "alloc_image"
  <2>1. /\ Turns(pc, file) = FileEnd(file)..ImageEnd(file) /\ Limit(pc) = ImageEnd(file)
        /\ Mapped(pc, a, file) = USER_BASE..(a - 1) \cup Stack
        /\ Mapped(pc, a + 1, file) = USER_BASE..((a + 1) - 1) \cup Stack
        /\ ToMap(pc, a, file) = ImageEnd(file) - a
        /\ ToMap(pc, a + 1, file) = ImageEnd(file) - (a + 1)
    BY <1>6 DEF Turns, Limit, Mapped, ToMap, ImageEnd
  <2>2. a \in Nat /\ FileEnd(file) <= a /\ a <= ImageEnd(file)
    BY <1>1, <2>1
  <2>3. /\ a \notin USER_BASE..(a - 1) \cup Stack \/ ~(a < ImageEnd(file))
        /\ USER_BASE..((a + 1) - 1) = USER_BASE..(a - 1) \cup {a}
    BY <1>1, <2>2 DEF Stack
  <2>4. a < ImageEnd(file) => a + 1 \in FileEnd(file)..ImageEnd(file) /\ a \in 0..(n - 1)
    BY <1>1, <1>2, <2>2
  <2>5. a < ImageEnd(file) => /\ ImageEnd(file) - a \in Nat \ {0}
                             /\ ImageEnd(file) - (a + 1) = (ImageEnd(file) - a) - 1
    BY <1>1, <2>2
  <2>6. (a < Limit(pc) => a \notin Mapped(pc, a, file)) /\ Mapped(pc, a + 1, file) = Mapped(pc, a, file) \cup {a}
    BY <2>1, <2>3, Zenon
  <2>7. a < Limit(pc) => /\ ToMap(pc, a, file) \in Nat \ {0}
                         /\ ToMap(pc, a + 1, file) = ToMap(pc, a, file) - 1
    BY <2>1, <2>5
  <2>8. a < Limit(pc) => a + 1 \in Turns(pc, file) /\ a \in UserPages
    BY <1>3, <2>1, <2>4, Zenon
  <2>9. Limit(pc) \in Nat /\ a <= Limit(pc) /\ (a < Limit(pc) => a < NPDES * NPTENTRIES)
    BY <1>1, <1>2, <2>1, <2>2
  <2> QED BY <2>2, <2>6, <2>7, <2>8, <2>9, Zenon
<1> QED BY <1>4, <1>5, <1>6

\* Where a step of the loader ends, the next one begins.
LEMMA NextStep ==
    ASSUME FilesFit, file \in Files
    PROVE  /\ LET b == FileEnd(file) c == USER_STACK_BASE - 2
              IN  /\ c \in Turns("alloc_stack", file)
                  /\ Mapped("alloc_stack", c, file) = Mapped("alloc_file", b, file)
                  /\ ToMap("alloc_stack", c, file) = ToMap("alloc_file", b, file)
           /\ LET b == USER_STACK_BASE
              IN  /\ 0 \in Turns("read_file", file)
                  /\ Mapped("read_file", 0, file) = Mapped("alloc_stack", b, file)
                  /\ ToMap("read_file", 0, file) = ToMap("alloc_stack", b, file)
           /\ LET b == FileEnd(file)
              IN  /\ b \in Turns("alloc_image", file)
                  /\ \A z : /\ Mapped("alloc_image", b, file) = Mapped("read_file", z, file)
                            /\ ToMap("alloc_image", b, file) = ToMap("read_file", z, file)
<1>1. /\ USER_BASE \in Nat /\ USER_STACK_BASE \in Nat
      /\ FileEnd(file) \in Nat /\ ImageEnd(file) \in Nat
      /\ USER_BASE <= FileEnd(file) /\ FileEnd(file) <= ImageEnd(file)
      /\ ImageEnd(file) <= USER_STACK_BASE - 2
  BY FitFacts
<1>2. /\ USER_STACK_BASE - 2 \in Turns("alloc_stack", file)
      /\ Mapped("alloc_stack", USER_STACK_BASE - 2, file) = Mapped("alloc_file", FileEnd(file), file)
      /\ ToMap("alloc_stack", USER_STACK_BASE - 2, file) = ToMap("alloc_file", FileEnd(file), file)
  BY <1>1 DEF Turns, Mapped, ToMap
<1>3. /\ 0 \in Turns("read_file", file)
      /\ Mapped("read_file", 0, file) = Mapped("alloc_stack", USER_STACK_BASE, file)
      /\ ToMap("read_file", 0, file) = ToMap("alloc_stack", USER_STACK_BASE, file)
  BY <1>1 DEF Turns, Mapped, ToMap, Stack
<1>4. /\ FileEnd(file) \in Turns("alloc_image", file)
      /\ \A z : /\ Mapped("alloc_image", FileEnd(file), file) = Mapped("read_file", z, file)
                /\ ToMap("alloc_image", FileEnd(file), file) = ToMap("read_file", z, file)
  BY <1>1 DEF Turns, Mapped, ToMap, Stack
<1> QED BY <1>2, <1>3, <1>4

\* Steps that neither take frames nor give them back, outside the loader's loops.
LEMMA FitQuiet ==
    ASSUME FitInv, UNCHANGED <<freelist, mem, user_task, pgdir>>, pc' \notin Allocating,
           pc' \in {"shell", "setupkvm", "sti"} => pc \in {"shell", "setupkvm", "sti"},
           HasProgram' => HasProgram /\ pc # "freevm" /\ (pc' = "freevm" => a' = 0)
    PROVE  FitInv'
<1>1. pc' \in {"shell", "setupkvm", "sti"} => freelist' = Frames \ {user_task'}
  BY DEF FitInv
<1>2. ASSUME HasProgram'
      PROVE  Covered(pgdir, IF pc = "freevm" THEN a ELSE 0, freelist \cup {user_task})'
  <2>1. Covered(pgdir, 0, freelist \cup {user_task})
    BY <1>2 DEF FitInv
  <2>2. \A p : Slot(pgdir, p)' = Slot(pgdir, p)
    BY DEF Slot
  <2>3. (IF pc = "freevm" THEN a ELSE 0)' = 0 /\ (freelist \cup {user_task})' = freelist \cup {user_task}
    BY <1>2
  <2> QED BY <2>1, <2>2, <2>3, Zenon DEF Covered
<1> QED BY <1>1, <1>2 DEF FitInv

LEMMA FitSame == FitInv /\ UNCHANGED <<memory, process, pc>> => FitInv'
<1> SUFFICES ASSUME FitInv, UNCHANGED <<memory, process, pc>> PROVE FitInv'
  OBVIOUS
<1>1. UNCHANGED <<freelist, mem, user_task, pgdir, a, file, pc>>
  BY DEF memory, process
<1>2. \A p : Slot(pgdir, p)' = Slot(pgdir, p)
  BY <1>1 DEF Slot
<1>3. HasProgram' = HasProgram
  BY <1>1 DEF HasProgram
<1>4. ASSUME HasProgram
      PROVE  Covered(pgdir, IF pc = "freevm" THEN a ELSE 0, freelist \cup {user_task})'
  <2>1. Covered(pgdir, IF pc = "freevm" THEN a ELSE 0, freelist \cup {user_task})
    BY <1>4 DEF FitInv
  <2>2. /\ (IF pc = "freevm" THEN a ELSE 0)' = IF pc = "freevm" THEN a ELSE 0
        /\ (freelist \cup {user_task})' = freelist \cup {user_task}
    BY <1>1
  <2> QED BY <1>2, <2>1, <2>2, Zenon DEF Covered
<1>5. pc \in Allocating => AllocInv'
  <2>1. /\ Turns(pc, file)' = Turns(pc, file) /\ Mapped(pc, a, file)' = Mapped(pc, a, file)
        /\ ToMap(pc, a, file)' = ToMap(pc, a, file)
    BY <1>1 DEF Turns, Mapped, ToMap, FileEnd, ImageEnd, PGROUNDUP, FileTop, ImageTop, Tops
  <2>2. /\ \A q : walkpgdir(pgdir, q)' = walkpgdir(pgdir, q)
        /\ MissingTables(pgdir)' = MissingTables(pgdir)
    BY <1>1 DEF walkpgdir, MissingTables
  <2>3. pc \in Allocating => AllocInv
    BY DEF FitInv
  <2> QED BY <1>1, <2>1, <2>2, <2>3 DEF AllocInv, UserPages
<1> QED BY <1>1, <1>3, <1>4, <1>5 DEF FitInv

LEMMA FitPanic == ASSUME FitInv, NEW msg, panic(msg) PROVE FitInv'
<1>1. UNCHANGED <<freelist, mem, user_task, pgdir>> /\ pc' = "panic"
  BY DEF panic, memory
<1>2. HasProgram' = FALSE
  BY <1>1 DEF HasProgram
<1> QED BY <1>1, <1>2, FitQuiet DEF Allocating

LEMMA FitRunTask == FitInv /\ (\E f \in Files : RunTask(f)) => FitInv'
<1> SUFFICES ASSUME FitInv, NEW f \in Files, RunTask(f) PROVE FitInv'
  OBVIOUS
<1>1. pc = "shell" /\ pc' = "setupkvm" /\ freelist = Frames \ {user_task}
  BY DEF RunTask, At, FitInv
<1>2. freelist' = Frames \ {user_task'}
  <2>1. CASE user_task = 0 /\ freelist # {}
    <3>1. freelist = Frames
      BY <1>1, <2>1 DEF Frames
    <3> QED BY <2>1, <3>1 DEF RunTask
  <2>2. CASE ~(user_task = 0 /\ freelist # {})
    BY <1>1, <2>2 DEF RunTask
  <2> QED BY <2>1, <2>2
<1>3. HasProgram' = FALSE /\ pc' \notin Allocating
  BY <1>1 DEF HasProgram, Allocating
<1> QED BY <1>2, <1>3 DEF FitInv

\* At least all frames but one are free when a program gets its directory.
LEMMA FreeAtSetup ==
    ASSUME FitInv, pc \in {"shell", "setupkvm", "sti"}
    PROVE  /\ IsFiniteSet(freelist) /\ Cardinality(freelist) \in Nat
           /\ Cardinality(freelist) >= NFRAMES - 1
<1>1. freelist = Frames \ {user_task}
  BY DEF FitInv
<1>2. IsFiniteSet(Frames) /\ Cardinality(Frames) = NFRAMES
  BY FramesFinite
<1>3. /\ IsFiniteSet(freelist)
      /\ Cardinality(freelist) = NFRAMES \/ Cardinality(freelist) = NFRAMES - 1
  BY <1>1, <1>2, FS_RemoveElement
<1> QED BY <1>3, Sizes

LEMMA FitSetup == FilesFit /\ MemInv /\ FitInv /\ setupkvm => FitInv'
<1> SUFFICES ASSUME FilesFit, MemInv, FitInv, setupkvm PROVE FitInv'
  OBVIOUS
<1>1. CASE panic("Page Fault")
  BY <1>1, FitPanic
<1>2. CASE ~panic("Page Fault")
  <2>1. /\ pc = "setupkvm" /\ pc' = "alloc_file" /\ pgdir' \in HeadOf(freelist)
        /\ kalloc_zeroed(pgdir') /\ a' = First("alloc_file") /\ UNCHANGED <<file, user_task>>
    BY <1>2 DEF setupkvm, At
  <2>2. PICK dir, task : dir = pgdir' /\ task = user_task
    OBVIOUS
  <2>3. dir \in freelist /\ MemOK /\ task \notin freelist
    <3>1. freelist \in SUBSET Frames
      BY DEF MemInv, MemOK
    <3> QED BY <2>1, <2>2, <3>1, MemoryAssumption DEF MemInv
  <2>4. freelist' = freelist \ {dir} /\ mem' = [mem EXCEPT ![dir] = Zeroed]
    BY <2>1, <2>2 DEF kalloc_zeroed
  <2>5. /\ dir \in Frames
        /\ \A p \in 0..LastSlot : Slot(dir, p)' = IF p = LastSlot THEN dir ELSE 0
    BY <2>3, <2>4, NewDirectory
  <2>6. file \in Files /\ file' = file
    BY <2>1 DEF MemInv
  <2>7. /\ \A p : Slot(pgdir, p)' = Slot(dir, p)'
        /\ \A q : walkpgdir(pgdir, q)' = walkpgdir(dir, q)'
        /\ MissingTables(pgdir)' = MissingTables(dir)'
    BY <2>2 DEF Slot, walkpgdir, MissingTables
  <2>8. Covered(pgdir, IF pc = "freevm" THEN a ELSE 0, freelist \cup {user_task})'
    <3>1. (IF pc = "freevm" THEN a ELSE 0)' = 0
      BY <2>1
    <3>2. ASSUME NEW f \in Frames PROVE f \in (freelist \cup {user_task})' \/ f = dir
      BY <2>1, <2>4 DEF FitInv
    <3>3. LastSlot \in 0..LastSlot /\ Slot(pgdir, LastSlot)' = dir
      BY <2>5, <2>7, Sizes
    <3> QED BY <3>1, <3>2, <3>3 DEF Covered
  <2>9. AllocInv'
    <3>1. /\ USER_BASE \in Nat /\ USER_BASE <= FileEnd(file)
          /\ ToMap("alloc_file", USER_BASE, file) + NPDES <= NFRAMES - 2
          /\ USER_BASE \in Turns("alloc_file", file) /\ Mapped("alloc_file", USER_BASE, file) = {}
          /\ ToMap("alloc_file", USER_BASE, file) \in Int
      <4>1. /\ USER_BASE \in Nat /\ FileEnd(file) \in Nat /\ ImageEnd(file) \in Nat
            /\ USER_BASE <= FileEnd(file)
            /\ ((ImageEnd(file) - USER_BASE) + 2) + NPDES <= NFRAMES - 2
        BY <2>6, FitFacts
      <4> QED BY <4>1 DEF ToMap, Turns, Mapped
    <3>2. a' = USER_BASE
      BY <2>1 DEF First
    <3>3. /\ \A q \in Nat : q < NPDES * NPTENTRIES => walkpgdir(dir, q)' = 0
          /\ Cardinality(MissingTables(dir)') \in 0..NPDES
      BY <2>5, DirectoryEmpty
    <3>4. \A q \in UserPages : q \in Nat /\ q < NPDES * NPTENTRIES
      <4>1. NPDES * NPTENTRIES \in Nat
        BY Sizes, SMT
      <4> QED BY <4>1 DEF UserPages
    <3>5. \A q \in UserPages : walkpgdir(pgdir, q)' = 0
      BY <2>7, <3>3, <3>4
    <3>6. Cardinality(freelist') >= NFRAMES - 2 /\ Cardinality(freelist') \in Int
      <4>1. /\ IsFiniteSet(freelist) /\ Cardinality(freelist) \in Nat
            /\ Cardinality(freelist) >= NFRAMES - 1
        BY <2>1, FreeAtSetup
      <4>2. Cardinality(freelist') = Cardinality(freelist) - 1
        BY <2>3, <2>4, <4>1, FS_RemoveElement
      <4> QED BY <4>1, <4>2, Sizes
    <3>7. Cardinality(freelist') >= ToMap("alloc_file", USER_BASE, file) + Cardinality(MissingTables(dir)')
      BY <3>1, <3>3, <3>6, Sizes
    <3>8. /\ Turns(pc, file)' = Turns("alloc_file", file)
          /\ Mapped(pc, a, file)' = Mapped("alloc_file", USER_BASE, file)
          /\ ToMap(pc, a, file)' = ToMap("alloc_file", USER_BASE, file)
      BY <2>1, <2>6, <3>2 DEF Turns, Mapped, ToMap, FileEnd, ImageEnd, PGROUNDUP, FileTop, ImageTop, Tops
    <3> QED BY <2>7, <3>1, <3>2, <3>5, <3>7, <3>8 DEF AllocInv, UserPages
  <2> QED BY <2>1, <2>8, <2>9 DEF FitInv
<1> QED BY <1>1, <1>2

\* The loader always finds a frame, at a page that is not mapped.
LEMMA LoaderFinds ==
    ASSUME FilesFit, MemInv, FitInv, pc \in {"alloc_file", "alloc_stack", "alloc_image"}, a < Limit(pc)
    PROVE  ~OutOfFrames(pgdir, a) /\ walkpgdir(pgdir, a) = 0
<1>1. MemOK /\ file \in Files /\ AllocInv
  BY DEF MemInv, FitInv, Allocating
<1>2. /\ a \in Nat /\ a \in UserPages /\ a < NPDES * NPTENTRIES /\ a \notin Mapped(pc, a, file)
      /\ ToMap(pc, a, file) \in Nat \ {0}
  BY <1>1, TurnFacts DEF AllocInv
<1>3. walkpgdir(pgdir, a) = 0
  BY <1>1, <1>2 DEF AllocInv
<1>4. Cardinality(freelist) \in Nat /\ Cardinality(MissingTables(pgdir)) \in Nat
  BY <1>1, FramesFinite, MissingFinite, Sizes DEF MemOK
<1>5. Cardinality(freelist) >= Cardinality(MissingTables(pgdir)) + 1
  BY <1>1, <1>2, <1>4 DEF AllocInv
<1>6. ~OutOfFrames(pgdir, a)
  BY <1>1, <1>2, <1>5, EnoughForTurn
<1> QED BY <1>3, <1>6

LEMMA FitTurn ==
    ASSUME FilesFit, MemInv, FitInv, pc \in {"alloc_file", "alloc_stack", "alloc_image"},
           a < Limit(pc), mappages(pgdir, a), a' = a + 1, pc' = pc, UNCHANGED <<file, user_task, pgdir>>
    PROVE  FitInv'
<1>1. /\ MemOK /\ pgdir \in Frames /\ file \in Files /\ user_task \notin freelist
      /\ Owned(pgdir, 0, freelist \cup {user_task}) /\ AllocInv
      /\ Covered(pgdir, 0, freelist \cup {user_task})
  BY DEF MemInv, FitInv, HasProgram, Allocating
<1>2. /\ a \in Nat /\ a < NPDES * NPTENTRIES /\ a + 1 \in Turns(pc, file)
      /\ Mapped(pc, a + 1, file) = Mapped(pc, a, file) \cup {a}
      /\ ToMap(pc, a, file) \in Nat \ {0}
      /\ ToMap(pc, a + 1, file) = ToMap(pc, a, file) - 1
  BY <1>1, TurnFacts DEF AllocInv
<1>3. walkpgdir(pgdir, a) = 0
  BY LoaderFinds
<1>4. PICK n \in Nat : n = a
  BY <1>2
<1>5. PICK i \in 0..(NPDES - 1), j \in Entries : i = n \div NPTENTRIES /\ j = n % NPTENTRIES
  BY <1>2, <1>4, UserPage
<1>6. PICK dir, task : dir = pgdir /\ task = user_task
  OBVIOUS
<1>7. dir \in Frames /\ task \notin freelist /\ Owned(dir, 0, freelist \cup {task}) /\ mappages(dir, n)
  BY <1>1, <1>4, <1>6
<1>8. FramesTaken(dir, i, j)
  BY <1>1, <1>5, <1>7, MappagesFills
<1>9. Covered(dir, 0, freelist \cup {task})'
  <2>1. Slot(dir, EntrySlot(i, j)) = 0
    BY <1>3, <1>4, <1>5, <1>6, WalkAt
  <2>2. Covered(dir, 0, freelist \cup {task})
    BY <1>1, <1>6
  <2> QED BY <1>8, <2>1, <2>2, TurnCovers
<1>10. /\ \A p : Slot(pgdir, p)' = Slot(dir, p)'
       /\ \A q : walkpgdir(pgdir, q)' = walkpgdir(dir, q)'
       /\ MissingTables(pgdir)' = MissingTables(dir)'
  BY <1>6 DEF Slot, walkpgdir, MissingTables
<1>11. Covered(pgdir, IF pc = "freevm" THEN a ELSE 0, freelist \cup {user_task})'
  <2>1. (IF pc = "freevm" THEN a ELSE 0)' = 0 /\ (freelist \cup {user_task})' = (freelist \cup {task})'
    BY <1>6
  <2> QED BY <1>9, <1>10, <2>1, Zenon DEF Covered
<1>12. AllocInv'
  <2>1. /\ Turns(pc, file)' = Turns(pc, file) /\ Mapped(pc, a, file)' = Mapped(pc, a + 1, file)
        /\ ToMap(pc, a, file)' = ToMap(pc, a + 1, file)
    BY DEF Turns, Mapped, ToMap, FileEnd, ImageEnd, PGROUNDUP, FileTop, ImageTop, Tops
  <2>2. ASSUME NEW q \in UserPages
        PROVE  walkpgdir(dir, q)' # 0 <=> walkpgdir(dir, q) # 0 \/ q = a
    <3>1. q \in Nat /\ q < NPDES * NPTENTRIES
      <4>1. NPDES * NPTENTRIES \in Nat
        BY Sizes, SMT
      <4> QED BY <4>1 DEF UserPages
    <3>2. walkpgdir(dir, q)' # 0 => walkpgdir(dir, q) # 0 \/ q = n
      BY <1>5, <1>8, <3>1, TurnMaps
    <3>3. /\ walkpgdir(dir, n)' # 0
          /\ walkpgdir(dir, q) # 0 => walkpgdir(dir, q)' # 0
      BY <1>1, <1>2, <1>4, <1>7, <3>1, MappagesKeeps
    <3> QED BY <1>4, <3>2, <3>3
  <2>3. ASSUME NEW q \in UserPages
        PROVE  walkpgdir(pgdir, q)' # 0 <=> q \in Mapped(pc, a + 1, file)
    <3>1. walkpgdir(dir, q) # 0 <=> q \in Mapped(pc, a, file)
      BY <1>1, <1>6 DEF AllocInv
    <3> QED BY <1>2, <1>10, <2>2, <3>1
  <2>4. Cardinality(freelist') >= ToMap(pc, a + 1, file) + Cardinality(MissingTables(dir)')
    <3>1. Cardinality(freelist') - Cardinality(MissingTables(dir)')
             = (Cardinality(freelist) - Cardinality(MissingTables(dir))) - 1
      BY <1>1, <1>8, TurnCounts
    <3>2. Cardinality(freelist) >= ToMap(pc, a, file) + Cardinality(MissingTables(dir))
      BY <1>1, <1>6 DEF AllocInv
    <3>3. Cardinality(freelist) \in Nat /\ Cardinality(MissingTables(dir)) \in Nat
      BY <1>1, FramesFinite, MissingFinite, Sizes DEF MemOK
    <3>4. Cardinality(freelist') \in Nat
      <4>1. freelist' \in SUBSET Frames
        BY <1>1, <1>8 DEF FramesTaken, MemOK
      <4> QED BY <4>1, FramesFinite
    <3>5. Cardinality(MissingTables(dir)') \in Nat
      <4>1. MissingTables(dir)' \in SUBSET (0..(NPDES - 1))
        BY DEF MissingTables
      <4> QED BY <4>1, TablesFinite, Sizes
    <3> QED BY <1>2, <3>1, <3>2, <3>3, <3>4, <3>5
  <2>5. UserPages' = UserPages
    BY DEF UserPages
  <2> QED BY <1>2, <1>10, <2>1, <2>3, <2>4, <2>5 DEF AllocInv
<1> QED BY <1>11, <1>12 DEF FitInv, Allocating

\* The loader passes from one step to the next with nothing mapped or taken between them.
LEMMA FitNext ==
    ASSUME MemInv, FitInv, pc \in Allocating, pc' \in Allocating,
           UNCHANGED <<freelist, mem, file, user_task, pgdir>>,
           a' \in Turns(pc', file), Mapped(pc', a', file) = Mapped(pc, a, file),
           ToMap(pc', a', file) = ToMap(pc, a, file)
    PROVE  FitInv'
<1>1. AllocInv /\ Covered(pgdir, 0, freelist \cup {user_task})
  BY DEF FitInv, HasProgram, Allocating
<1>2. /\ \A p : Slot(pgdir, p)' = Slot(pgdir, p) /\ walkpgdir(pgdir, p)' = walkpgdir(pgdir, p)
      /\ MissingTables(pgdir)' = MissingTables(pgdir) /\ UserPages' = UserPages
  BY DEF Slot, walkpgdir, MissingTables, UserPages
<1>3. /\ Turns(pc, file)' = Turns(pc', file) /\ Mapped(pc, a, file)' = Mapped(pc', a', file)
      /\ ToMap(pc, a, file)' = ToMap(pc', a', file)
  BY DEF Turns, Mapped, ToMap, FileEnd, ImageEnd, PGROUNDUP, FileTop, ImageTop, Tops
<1>4. AllocInv'
  BY <1>1, <1>2, <1>3 DEF AllocInv
<1>5. Covered(pgdir, IF pc = "freevm" THEN a ELSE 0, freelist \cup {user_task})'
  <2>1. /\ (IF pc = "freevm" THEN a ELSE 0)' = 0
        /\ (freelist \cup {user_task})' = freelist \cup {user_task}
    BY DEF Allocating
  <2> QED BY <1>1, <1>2, <2>1, Zenon DEF Covered
<1> QED BY <1>4, <1>5 DEF FitInv, Allocating

LEMMA FitAlloc ==
    FilesFit /\ MemInv /\ FitInv /\ (alloc_file \/ alloc_stack \/ alloc_image) => FitInv'
<1> SUFFICES ASSUME FilesFit, MemInv, FitInv, alloc_file \/ alloc_stack \/ alloc_image PROVE FitInv'
  OBVIOUS
<1>1. /\ pc \in {"alloc_file", "alloc_stack", "alloc_image"} /\ UNCHANGED <<file, user_task, pgdir>>
      /\ a \in Turns(pc, file) /\ file \in Files
  BY DEF alloc_file, alloc_stack, alloc_image, allocuvm, FitInv, AllocInv, Allocating, MemInv
<1>2. /\ a \in Nat /\ Limit(pc) \in Nat /\ a <= Limit(pc)
  BY <1>1, TurnFacts
<1>3. CASE a < Limit(pc)
  <2>1. ~OutOfFrames(pgdir, a)
    BY <1>1, <1>3, LoaderFinds
  <2>2. mappages(pgdir, a) /\ a' = a + 1 /\ pc' = pc
    BY <1>2, <1>3, <2>1 DEF alloc_file, alloc_stack, alloc_image, allocuvm, At
  <2> QED BY <1>1, <1>3, <2>2, FitTurn
<1>4. CASE ~(a < Limit(pc))
  <2>1. a = Limit(pc) /\ UNCHANGED <<freelist, mem>>
    BY <1>2, <1>4 DEF alloc_file, alloc_stack, alloc_image, allocuvm, At, memory
  <2>2. CASE alloc_file
    <3>1. pc = "alloc_file" /\ pc' = "alloc_stack" /\ a' = USER_STACK_BASE - 2
      BY <1>2, <1>4, <2>2 DEF alloc_file, allocuvm, At, First
    <3>2. a = FileEnd(file)
      BY <2>1, <3>1 DEF Limit, FileEnd
    <3>3. /\ a' \in Turns(pc', file) /\ Mapped(pc', a', file) = Mapped(pc, a, file)
          /\ ToMap(pc', a', file) = ToMap(pc, a, file)
      BY <1>1, <3>1, <3>2, NextStep, Zenon
    <3>4. pc \in Allocating /\ pc' \in Allocating
      BY <3>1 DEF Allocating
    <3> QED BY <1>1, <2>1, <3>3, <3>4, FitNext
  <2>3. CASE alloc_stack
    <3>1. pc = "alloc_stack" /\ pc' = "read_file" /\ a' = 0
      BY <1>2, <1>4, <2>3 DEF alloc_stack, allocuvm, At
    <3>2. a = USER_STACK_BASE
      BY <2>1, <3>1 DEF Limit
    <3>3. /\ a' \in Turns(pc', file) /\ Mapped(pc', a', file) = Mapped(pc, a, file)
          /\ ToMap(pc', a', file) = ToMap(pc, a, file)
      BY <1>1, <3>1, <3>2, NextStep, Zenon
    <3>4. pc \in Allocating /\ pc' \in Allocating
      BY <3>1 DEF Allocating
    <3> QED BY <1>1, <2>1, <3>3, <3>4, FitNext
  <2>4. CASE alloc_image
    <3>1. pc = "alloc_image" /\ pc' = "enter"
      BY <1>2, <1>4, <2>4 DEF alloc_image, allocuvm, At
    <3> QED BY <1>1, <2>1, <3>1, FitQuiet DEF HasProgram, Allocating
  <2> QED BY <2>2, <2>3, <2>4
<1> QED BY <1>3, <1>4

\* The file is read into pages that are all mapped.
LEMMA ReaderFinds ==
    ASSUME FilesFit, MemInv, FitInv, pc = "read_file"
    PROVE  \A p \in USER_BASE..(PGROUNDUP(FileTop(file)) - 1) : walkpgdir(pgdir, p) # 0
<1>1. file \in Files /\ AllocInv
  BY DEF MemInv, FitInv, Allocating
<1>2. /\ USER_BASE \in Nat /\ FileEnd(file) \in Nat /\ USER_STACK_BASE \in Nat
      /\ FileEnd(file) <= USER_STACK_BASE - 2
  BY <1>1, FitFacts
<1>3. PICK n \in Nat : n = NPDES * NPTENTRIES /\ USER_STACK_BASE <= n
  <2>1. NPDES * NPTENTRIES \in Nat
    BY Sizes, SMT
  <2> QED BY <2>1, ProcessAssumption
<1>4. \A p \in USER_BASE..(FileEnd(file) - 1) : p \in UserPages
  BY <1>2, <1>3 DEF UserPages
<1>5. \A p \in USER_BASE..(FileEnd(file) - 1) : p \in Mapped(pc, a, file)
  BY DEF Mapped
<1> QED BY <1>1, <1>4, <1>5 DEF AllocInv, FileEnd

LEMMA FitRead == FilesFit /\ MemInv /\ FitInv /\ read_file => FitInv'
<1> SUFFICES ASSUME FilesFit, MemInv, FitInv, read_file PROVE FitInv'
  OBVIOUS
<1>1. pc = "read_file" /\ file \in Files
  BY DEF read_file, MemInv, Allocating
<1>2. /\ UNCHANGED <<freelist, mem, file, user_task, pgdir>>
      /\ pc' = "alloc_image" /\ a' = First("alloc_image")
  BY <1>1, ReaderFinds, FitFacts DEF read_file, At, memory
<1>3. a' = FileEnd(file)
  BY <1>2 DEF First, FileEnd
<1>4. /\ a' \in Turns(pc', file) /\ Mapped(pc', a', file) = Mapped(pc, a, file)
      /\ ToMap(pc', a', file) = ToMap(pc, a, file)
  BY <1>1, <1>2, <1>3, NextStep, Zenon
<1>5. pc \in Allocating /\ pc' \in Allocating
  BY <1>1, <1>2 DEF Allocating
<1> QED BY <1>2, <1>4, <1>5, FitNext

LEMMA FitLoad == FilesFit /\ MemInv /\ FitInv /\ run_elf => FitInv'
<1> SUFFICES ASSUME FilesFit, MemInv, FitInv, run_elf PROVE FitInv'
  OBVIOUS
<1>1. CASE enter
  <2>1. pc = "enter" /\ pc' = "user" /\ UNCHANGED <<freelist, mem, user_task, pgdir>>
    BY <1>1 DEF enter, At, memory
  <2> QED BY <2>1, FitQuiet DEF HasProgram, Allocating
<1>2. CASE \E step \in {"alloc_file", "alloc_stack", "alloc_image"} : remap(step)
  BY <1>2, FitPanic DEF remap
<1> QED BY <1>1, <1>2, FitRunTask, FitSetup, FitAlloc, FitRead DEF run_elf

LEMMA FitFree == MemInv /\ FitInv /\ freevm => FitInv'
<1> SUFFICES ASSUME MemInv, FitInv, freevm PROVE FitInv'
  OBVIOUS
<1>1. /\ pc = "freevm" /\ UNCHANGED <<user_task, pgdir>>
      /\ IF a = LastSlot THEN pc' = "sti" /\ a' = 0 ELSE pc' = pc /\ a' = a + 1
      /\ IF Slot(pgdir, a) = 0 THEN UNCHANGED memory ELSE kfree(Slot(pgdir, a))
  BY DEF freevm
<1>2. /\ MemOK /\ pgdir \in Frames /\ a \in 0..LastSlot /\ Owned(pgdir, a, freelist \cup {user_task})
      /\ Covered(pgdir, a, freelist \cup {user_task})
  BY <1>1 DEF MemInv, FitInv, HasProgram
<1>3. PICK dir \in Frames, lo \in 0..LastSlot : dir = pgdir /\ lo = a
  BY <1>2
<1>4. PICK task : task = user_task
  OBVIOUS
<1>5. /\ Owned(dir, lo, freelist \cup {task}) /\ Covered(dir, lo, freelist \cup {task})
      /\ IF Slot(dir, lo) = 0 THEN UNCHANGED memory ELSE kfree(Slot(dir, lo))
  BY <1>1, <1>2, <1>3, <1>4
<1>6. /\ MemOK' /\ freelist' = IF Slot(dir, lo) = 0 THEN freelist ELSE freelist \cup {Slot(dir, lo)}
      /\ \A p \in (lo + 1)..LastSlot : Slot(dir, p)' = Slot(dir, p)
  BY <1>2, <1>5, FreeingKeeps
<1>7. Covered(dir, lo + 1, freelist \cup {task})'
  BY <1>5, <1>6, FreeingCovers
<1>8. CASE a = LastSlot
  <2>1. \A f \in Frames : f \in (freelist \cup {task})'
    <3>1. ~\E p \in (lo + 1)..LastSlot : TRUE
      BY <1>3, <1>8, Sizes
    <3> QED BY <1>7, <3>1 DEF Covered
  <2>2. user_task' \notin freelist' /\ freelist' \subseteq Frames
    <3>1. MemInv'
      BY MemFree
    <3> QED BY <3>1 DEF MemInv, MemOK
  <2>3. freelist' = Frames \ {user_task'}
    BY <1>1, <1>4, <2>1, <2>2
  <2> QED BY <1>1, <1>8, <2>3 DEF FitInv, HasProgram, Allocating
<1>9. CASE a # LastSlot
  <2>1. pc' = "freevm" /\ a' = lo + 1 /\ pgdir' = dir /\ user_task' = task
    BY <1>1, <1>3, <1>4, <1>9
  <2>2. /\ \A p : Slot(pgdir, p)' = Slot(dir, p)' /\ a'..LastSlot = (lo + 1)..LastSlot
        /\ (freelist \cup {user_task})' = (freelist \cup {task})'
    BY <2>1 DEF Slot
  <2>3. (IF pc = "freevm" THEN a ELSE 0)' = lo + 1
    BY <2>1
  <2>4. Covered(pgdir, IF pc = "freevm" THEN a ELSE 0, freelist \cup {user_task})'
    BY <1>7, <2>2, <2>3, Zenon DEF Covered
  <2> QED BY <2>1, <2>4 DEF FitInv, Allocating
<1> QED BY <1>8, <1>9

LEMMA FitKill == MemInv /\ FitInv /\ killproc => FitInv'
<1> SUFFICES ASSUME MemInv, FitInv, killproc PROVE FitInv'
  OBVIOUS
<1>1. CASE EndProgram
  <2>1. pc = "user" /\ pc' = "restore_text" /\ UNCHANGED <<freelist, mem, user_task, pgdir>>
    BY <1>1 DEF EndProgram, At, memory
  <2> QED BY <2>1, FitQuiet DEF HasProgram, Allocating
<1>2. CASE switchkvm
  <2>1. pc = "switchkvm" /\ pc' = "freevm" /\ a' = 0 /\ UNCHANGED <<freelist, mem, user_task, pgdir>>
    BY <1>2 DEF switchkvm, At, memory
  <2> QED BY <2>1, FitQuiet DEF HasProgram, Allocating
<1>3. CASE sti
  <2>1. pc = "sti" /\ pc' = "shell" /\ UNCHANGED <<freelist, mem, user_task, pgdir>>
    BY <1>3 DEF sti, At, memory
  <2> QED BY <2>1, FitQuiet DEF HasProgram, Allocating
<1> QED BY <1>1, <1>2, <1>3, FitFree DEF killproc

LEMMA FitCalls ==
    ASSUME FitInv, CtlInv,
           \/ \E page \in UserPages : handle_enter13h(page)
           \/ mode13_fb_bind \/ vgaMode13 \/ first_copy
           \/ handle_leave13h \/ proc_restore_text_mode
    PROVE  FitInv'
<1>1. UNCHANGED <<freelist, mem, user_task, pgdir>>
  BY DEF handle_enter13h, mode13_fb_bind, BindPtr, BindFlag, vgaMode13, first_copy, mode13_fb_copy,
         handle_leave13h, proc_restore_text_mode, RestoreText, UnbindFlag, UnbindPtr, OpenPlanes,
         WriteFont, MapText, kbd_clear_buffer, memory, process
<1>2. /\ pc \in {"user", "restore_text", "unbind_flag"} \cup Binding \cup Unbinding
      /\ pc' \in {"user", "switchkvm", "restore_text", "unbind_flag"} \cup Binding \cup Unbinding
  BY DEF handle_enter13h, mode13_fb_bind, BindPtr, BindFlag, vgaMode13, first_copy, mode13_fb_copy,
         handle_leave13h, proc_restore_text_mode, RestoreText, UnbindFlag, UnbindPtr, OpenPlanes,
         WriteFont, MapText, kbd_clear_buffer, At, Binding, Unbinding, CtlInv, InterruptInv
<1>3. /\ HasProgram /\ pc # "freevm" /\ pc' # "freevm" /\ pc' \notin Allocating
      /\ pc' \notin {"shell", "setupkvm", "sti"}
  BY <1>2 DEF HasProgram, Binding, Unbinding, Allocating
<1> QED BY <1>1, <1>3, FitQuiet

LEMMA FitInterrupt == FitInv /\ (mode13_fb_tick \/ KeyInterrupt \/ kbd_pop_event) => FitInv'
<1> SUFFICES ASSUME FitInv, mode13_fb_tick \/ KeyInterrupt \/ kbd_pop_event PROVE FitInv'
  OBVIOUS
<1>1. CASE panic("Page Fault")
  BY <1>1, FitPanic
<1>2. CASE ~panic("Page Fault")
  <2>1. UNCHANGED <<memory, process, pc>>
    BY <1>2 DEF mode13_fb_tick, mode13_fb_copy, KeyInterrupt, kbd_pop_event
  <2> QED BY <2>1, FitSame
<1> QED BY <1>1, <1>2

LEMMA FitInvariance ==
    ASSUME FilesFit
    PROVE  Spec => []FitInv
<1>1. Init => FitInv
  <2> SUFFICES ASSUME Init PROVE FitInv
    OBVIOUS
  <2>1. freelist = Frames /\ user_task = 0
    BY DEF Init, MemoryInit
  <2>2. 0 \notin Frames
    BY DEF Frames
  <2> QED BY <2>1, <2>2 DEF Init, FitInv, HasProgram, Allocating
<1>2. FitInv /\ UNCHANGED vars => FitInv'
  <2> SUFFICES ASSUME FitInv, UNCHANGED vars PROVE FitInv'
    OBVIOUS
  <2>1. UNCHANGED <<memory, process, pc>>
    BY DEF vars, memory, process
  <2> QED BY <2>1, FitSame
<1>3. CtlInv /\ MemInv /\ FitInv /\ [Next]_vars => FitInv'
  BY <1>2, FitLoad, FitInterrupt, FitCalls, FitKill DEF Next
<1> QED BY <1>1, <1>3, CtlInvariance, MemInvariance, PTL DEF Spec

\* Whenever the shell runs, after any sequence of programs, however each one ended: every
\* frame but the task structure is free again, on every machine on which the files fit.
\* (A run that returns early keeps its frames: the hypothesis is needed.)
THEOREM FramesComeBack ==
    ASSUME FilesFit
    PROVE  Spec => []AllFramesBack
<1>1. FitInv => AllFramesBack
  BY DEF FitInv, AllFramesBack
<1> QED BY <1>1, FitInvariance, PTL

-----------------------------------------------------------------------------
(* The page directory in use                                                 *)

\* The processor is on a program's directory only from the end of the loading until
\* killproc leaves it.
DirectoryInv ==
    pc \in {"shell", "setupkvm", "alloc_file", "alloc_stack", "read_file", "freevm", "sti"} =>
        cr3 = KVM

\* A loader that finds a frame for every page does not return to the shell.
LEMMA DirectoryAlloc ==
    FilesFit /\ MemInv /\ FitInv /\ DirectoryInv /\ (alloc_file \/ alloc_stack \/ alloc_image)
        => DirectoryInv'
<1> SUFFICES ASSUME FilesFit, MemInv, FitInv, DirectoryInv, alloc_file \/ alloc_stack \/ alloc_image
             PROVE  DirectoryInv'
  OBVIOUS
<1>1. UNCHANGED cr3
  BY DEF alloc_file, alloc_stack, alloc_image, allocuvm
<1>2. CASE alloc_file \/ alloc_stack
  <2>1. pc \in {"alloc_file", "alloc_stack"}
    BY <1>2 DEF alloc_file, alloc_stack, allocuvm
  <2> QED BY <1>1, <2>1 DEF DirectoryInv
<1>3. CASE alloc_image
  <2>1. pc = "alloc_image"
    BY <1>3 DEF alloc_image, allocuvm
  <2>2. ~(a < Limit(pc) /\ OutOfFrames(pgdir, a))
    BY <2>1, LoaderFinds
  <2>3. pc' \in {"alloc_image", "enter"}
    BY <1>3, <2>1, <2>2 DEF alloc_image, allocuvm, At
  <2> QED BY <2>3 DEF DirectoryInv
<1> QED BY <1>2, <1>3

LEMMA DirectoryLoad == FilesFit /\ MemInv /\ FitInv /\ DirectoryInv /\ run_elf => DirectoryInv'
<1> SUFFICES ASSUME FilesFit, MemInv, FitInv, DirectoryInv, run_elf PROVE DirectoryInv'
  OBVIOUS
<1>1. CASE (\E f \in Files : RunTask(f)) \/ setupkvm
  BY <1>1 DEF RunTask, setupkvm, At, panic, DirectoryInv
<1>2. CASE read_file
  <2>1. file \in Files /\ pc = "read_file"
    BY <1>2 DEF read_file, MemInv, Allocating
  <2>2. file.size # 0
    BY <2>1 DEF FilesFit
  <2>3. pc' \in {"alloc_image", "panic"}
    BY <1>2, <2>2 DEF read_file, At, panic
  <2> QED BY <2>3 DEF DirectoryInv
<1>3. CASE enter \/ \E step \in {"alloc_file", "alloc_stack", "alloc_image"} : remap(step)
  BY <1>3 DEF enter, remap, At, panic, DirectoryInv
<1> QED BY <1>1, <1>2, <1>3, DirectoryAlloc DEF run_elf

\* The shell is back on the kernel's own directory, however a program ended, whatever it
\* had on and wherever the interrupts fell, on every machine on which the files fit.
\* (A run that returns early leaves its own directory in use: the hypothesis is needed.)
THEOREM KernelDirectoryIsBack ==
    ASSUME FilesFit
    PROVE  Spec => []KernelDirectoryBack
<1>1. Init => DirectoryInv
  BY DEF Init, DirectoryInv
<1>2. CtlInv /\ MemInv /\ FitInv /\ DirectoryInv /\ [Next]_vars => DirectoryInv'
  <2> SUFFICES ASSUME CtlInv, MemInv, FitInv, DirectoryInv, [Next]_vars PROVE DirectoryInv'
    OBVIOUS
  <2>1. CASE mode13_fb_tick \/ KeyInterrupt \/ kbd_pop_event \/ UNCHANGED vars
    BY <2>1 DEF mode13_fb_tick, mode13_fb_copy, KeyInterrupt, kbd_pop_event, panic, vars, process,
                DirectoryInv
  <2>2. CASE \/ \E page \in UserPages : handle_enter13h(page)
             \/ mode13_fb_bind \/ vgaMode13 \/ first_copy
             \/ handle_leave13h \/ proc_restore_text_mode
    <3>1. pc' \in {"user", "switchkvm", "restore_text", "unbind_flag"} \cup Binding \cup Unbinding
      BY <2>2 DEF handle_enter13h, mode13_fb_bind, BindPtr, BindFlag, vgaMode13, first_copy,
         mode13_fb_copy, handle_leave13h, proc_restore_text_mode, RestoreText, UnbindFlag, UnbindPtr,
         OpenPlanes, WriteFont, MapText, kbd_clear_buffer, At, Binding, Unbinding, CtlInv, InterruptInv
    <3> QED BY <3>1 DEF DirectoryInv, Binding, Unbinding
  <2>3. CASE killproc
    BY <2>3 DEF killproc, EndProgram, switchkvm, freevm, sti, At, DirectoryInv
  <2> QED BY <2>1, <2>2, <2>3, DirectoryLoad DEF Next
<1>3. DirectoryInv => KernelDirectoryBack
  BY DEF DirectoryInv, KernelDirectoryBack
<1> QED BY <1>1, <1>2, <1>3, CtlInvariance, MemInvariance, FitInvariance, PTL DEF Spec

-----------------------------------------------------------------------------
(* Types                                                                     *)

\* What the two invariants above leave of TypeOK.
RestOK ==
    /\ ret \in {"shell", "user", "switchkvm"}
    /\ file \in Files \cup {NoFile}
    /\ user_task \in 0..NFRAMES /\ pgdir \in 0..NFRAMES /\ cr3 \in 0..NFRAMES
    /\ a \in Nat /\ intEnabled \in BOOLEAN
    /\ fbArg \in UserPages /\ mode13_user_fb_ptr \in UserPages
    /\ vga \in {"text", "mode13", "fontload"}
    /\ keys \subseteq {"graphics", "console"}
    /\ message \in {"", "remap", "Page Fault"}

LEMMA FrameNumbers == Frames \subseteq 0..NFRAMES /\ 0 \in 0..NFRAMES /\ 0 \in UserPages
BY Sizes, MemoryAssumption DEF Frames, UserPages

LEMMA RestPanic ==
    ASSUME RestOK, NEW msg \in {"remap", "Page Fault"}, panic(msg)
    PROVE  RestOK'
BY DEF RestOK, panic, display, UserPages

LEMMA RestRunTask == MemInv /\ RestOK /\ (\E f \in Files : RunTask(f)) => RestOK'
<1> SUFFICES ASSUME MemInv, RestOK, NEW f \in Files, RunTask(f) PROVE RestOK'
  OBVIOUS
<1>1. user_task' \in 0..NFRAMES
  <2>1. CASE user_task = 0 /\ freelist # {}
    <3>1. HeadOf(freelist) \subseteq Frames
      <4>1. freelist \in SUBSET Frames
        BY DEF MemInv, MemOK
      <4> QED BY <4>1, MemoryAssumption
    <3> QED BY <2>1, <3>1, FrameNumbers DEF RunTask
  <2>2. CASE ~(user_task = 0 /\ freelist # {})
    BY <2>2 DEF RunTask, RestOK
  <2> QED BY <2>1, <2>2
<1> QED BY <1>1 DEF RestOK, RunTask, At, display, UserPages

LEMMA RestLoad == MemInv /\ RestOK /\ run_elf => RestOK'
<1> SUFFICES ASSUME MemInv, RestOK, run_elf PROVE RestOK'
  OBVIOUS
<1>1. CASE \E f \in Files : RunTask(f)
  BY <1>1, RestRunTask
<1>2. CASE setupkvm
  <2>1. CASE panic("Page Fault")
    BY <2>1, RestPanic
  <2>2. CASE ~panic("Page Fault")
    <3>1. /\ pgdir' \in HeadOf(freelist) /\ a' = First("alloc_file") /\ message' = message
          /\ UNCHANGED <<ret, file, user_task, cr3, intEnabled, display, keys>>
      BY <1>2, <2>2 DEF setupkvm, At
    <3>2. pgdir' \in 0..NFRAMES
      <4>1. freelist \in SUBSET Frames
        BY DEF MemInv, MemOK
      <4> QED BY <3>1, <4>1, MemoryAssumption, FrameNumbers
    <3>3. a' \in Nat
      BY <3>1, ProcessAssumption DEF First
    <3> QED BY <3>1, <3>2, <3>3 DEF RestOK, display, UserPages
  <2> QED BY <2>1, <2>2
<1>3. ASSUME NEW step \in {"alloc_file", "alloc_stack", "alloc_image"}, NEW next, NEW failed,
             allocuvm(step, next, failed)
      PROVE  RestOK'
  <2>1. /\ pc = step /\ message' = message
        /\ a' = a + 1 \/ a' = 0 \/ a' = First("alloc_stack")
        /\ UNCHANGED <<ret, file, user_task, pgdir, cr3, intEnabled, display, keys>>
    BY <1>3 DEF allocuvm, At
  <2>2. First("alloc_stack") \in Nat
    <3>1. USER_STACK_BASE - 2 \in Nat
      BY ProcessAssumption
    <3> QED BY <3>1 DEF First
  <2>3. a' \in Nat
    <3>1. a \in Nat
      BY Zenon DEF RestOK
    <3> QED BY <2>1, <2>2, <3>1
  <2> QED BY <2>1, <2>3 DEF RestOK, display, UserPages
<1>4. CASE read_file
  <2>1. CASE panic("Page Fault")
    BY <2>1, RestPanic
  <2>2. CASE ~panic("Page Fault")
    <3>1. /\ pc = "read_file" /\ cr3' = pgdir /\ message' = message
          /\ a' = a \/ a' = First("alloc_image")
          /\ UNCHANGED <<ret, file, user_task, pgdir, intEnabled, display, keys>>
      BY <1>4, <2>2 DEF read_file, At
    <3>2. file \in Files
      BY <3>1 DEF MemInv, Allocating
    <3>3. a' \in Nat
      BY <3>1, <3>2, Bounds DEF RestOK
    <3> QED BY <3>1, <3>3 DEF RestOK, display, UserPages
  <2> QED BY <2>1, <2>2
<1>5. CASE enter
  BY <1>5 DEF enter, At, RestOK, display, UserPages
<1>6. CASE \E step \in {"alloc_file", "alloc_stack", "alloc_image"} : remap(step)
  BY <1>6, RestPanic DEF remap
<1> QED BY <1>1, <1>2, <1>3, <1>4, <1>5, <1>6 DEF run_elf, alloc_file, alloc_stack, alloc_image

LEMMA RestCalls ==
    ASSUME CtlInv, RestOK,
           \/ mode13_fb_tick \/ KeyInterrupt \/ kbd_pop_event
           \/ \E page \in UserPages : handle_enter13h(page)
           \/ mode13_fb_bind \/ vgaMode13 \/ first_copy
           \/ handle_leave13h \/ proc_restore_text_mode \/ UNCHANGED vars
    PROVE  RestOK'
<1>1. CASE mode13_fb_tick
  <2>1. CASE panic("Page Fault")
    BY <2>1, RestPanic
  <2> QED BY <1>1, <2>1 DEF mode13_fb_tick, mode13_fb_copy, RestOK, process, UserPages
<1>2. CASE KeyInterrupt \/ kbd_pop_event
  BY <1>2 DEF KeyInterrupt, kbd_pop_event, RestOK, process, display, UserPages
<1>3. ASSUME NEW page \in UserPages, handle_enter13h(page) PROVE RestOK'
  BY <1>3 DEF handle_enter13h, At, RestOK, process, UserPages
<1>4. CASE mode13_fb_bind \/ vgaMode13 \/ first_copy
  BY <1>4 DEF mode13_fb_bind, BindPtr, BindFlag, vgaMode13, first_copy, mode13_fb_copy, At, RestOK,
     process, UserPages
<1>5. CASE handle_leave13h
  BY <1>5 DEF handle_leave13h, At, RestOK, display, UserPages
<1>6. CASE proc_restore_text_mode
  BY <1>6, FrameNumbers DEF proc_restore_text_mode, RestoreText, UnbindFlag, UnbindPtr, OpenPlanes,
     WriteFont, MapText, kbd_clear_buffer, At, RestOK, process, display, UserPages
<1>7. CASE UNCHANGED vars
  BY <1>7 DEF vars, RestOK, UserPages
<1> QED BY <1>1, <1>2, <1>3, <1>4, <1>5, <1>6, <1>7

LEMMA RestKill == RestOK /\ killproc => RestOK'
<1> SUFFICES ASSUME RestOK, killproc PROVE RestOK'
  OBVIOUS
<1>1. CASE EndProgram
  BY <1>1 DEF EndProgram, At, RestOK, display, UserPages
<1>2. CASE switchkvm
  BY <1>2, FrameNumbers DEF switchkvm, At, RestOK, display, KVM, UserPages
<1>3. CASE freevm
  <2>1. /\ a' = 0 \/ a' = a + 1
        /\ UNCHANGED <<ret, file, user_task, pgdir, cr3, intEnabled, display, keys, message>>
    BY <1>3 DEF freevm
  <2>2. a' \in Nat
    <3>1. a \in Nat
      BY Zenon DEF RestOK
    <3> QED BY <2>1, <3>1
  <2> QED BY <2>1, <2>2 DEF RestOK, display, UserPages
<1>4. CASE sti
  BY <1>4, FrameNumbers DEF sti, At, RestOK, UserPages
<1> QED BY <1>1, <1>2, <1>3, <1>4 DEF killproc

\* Every variable keeps its type on every machine: each table entry is 0 or a frame, and
\* each address bound for the timer is a page of the program's half.
THEOREM TypeCorrect == Spec => []TypeOK
<1>1. Init => RestOK
  <2> SUFFICES ASSUME Init PROVE RestOK
    OBVIOUS
  <2>1. ret \in {"shell", "user", "switchkvm"} /\ file \in Files \cup {NoFile}
    BY DEF Init
  <2>2. user_task \in 0..NFRAMES /\ pgdir \in 0..NFRAMES /\ cr3 \in 0..NFRAMES
    BY FrameNumbers DEF Init, KVM
  <2>3. a \in Nat /\ intEnabled \in BOOLEAN
    BY DEF Init
  <2>4. fbArg \in UserPages /\ mode13_user_fb_ptr \in UserPages
    BY FrameNumbers DEF Init
  <2>5. /\ vga \in {"text", "mode13", "fontload"} /\ keys \subseteq {"graphics", "console"}
        /\ message \in {"", "remap", "Page Fault"}
    BY DEF Init
  <2> QED BY <2>1, <2>2, <2>3, <2>4, <2>5 DEF RestOK
<1>2. CtlInv /\ MemInv /\ RestOK /\ [Next]_vars => RestOK'
  BY RestLoad, RestCalls, RestKill DEF Next
<1>3. CtlInv /\ MemInv /\ RestOK => TypeOK
  BY DEF CtlInv, MemInv, MemOK, RestOK, TypeOK
<1> QED BY <1>1, <1>2, <1>3, CtlInvariance, MemInvariance, PTL DEF Spec

-----------------------------------------------------------------------------
(* No panic                                                                  *)

\* The only panics are a directory, a page or a page table that kalloc does not find, a
\* page that is mapped twice, and a page the kernel uses that is not there.
LEMMA PanicCauses ==
    ASSUME Next, pc # "panic", ret # "panic", pc' = "panic"
    PROVE  \/ pc = "setupkvm" /\ freelist = {}
           \/ /\ pc \in {"alloc_file", "alloc_stack", "alloc_image"} /\ a < Limit(pc)
              /\ walkpgdir(pgdir, a) # 0
           \/ /\ pc = "read_file"
              /\ \E p \in USER_BASE..(PGROUNDUP(FileTop(file)) - 1) : walkpgdir(pgdir, p) = 0
           \/ mode13_enabled /\ ~Readable(mode13_user_fb_ptr)
<1>1. CASE run_elf
  BY <1>1 DEF run_elf, RunTask, setupkvm, alloc_file, alloc_stack, alloc_image, allocuvm, read_file,
     enter, remap, At
<1>2. CASE mode13_fb_tick \/ KeyInterrupt \/ kbd_pop_event
  BY <1>2 DEF mode13_fb_tick, KeyInterrupt, kbd_pop_event, memory
<1>3. CASE \/ \E page \in UserPages : handle_enter13h(page)
           \/ mode13_fb_bind \/ vgaMode13 \/ first_copy
           \/ handle_leave13h \/ proc_restore_text_mode \/ killproc
  BY <1>3 DEF handle_enter13h, mode13_fb_bind, BindPtr, BindFlag, vgaMode13, first_copy,
     handle_leave13h, proc_restore_text_mode, RestoreText, UnbindFlag, UnbindPtr, OpenPlanes,
     WriteFont, MapText, kbd_clear_buffer, killproc, EndProgram, switchkvm, freevm, sti, At
<1> QED BY <1>1, <1>2, <1>3 DEF Next

\* On a machine on which the files fit, in a build that binds in the order of the source: no
\* sequence of programs, system calls, interrupts and ends of programs makes the
\* kernel panic.
THEOREM KernelNeverPanics ==
    ASSUME FilesFit, FlagFirst = {FALSE}
    PROVE  Spec => []NoPanic
<1>1. Init => NoPanic
  BY DEF Init, NoPanic
<1>2. ASSUME MemInv, FitInv, CopyInv, TypeOK, NoPanic, [Next]_vars PROVE NoPanic'
  <2>1. CASE UNCHANGED vars
    BY <1>2, <2>1 DEF vars, NoPanic
  <2>2. CASE Next /\ pc' = "panic"
    <3>1. pc # "panic" /\ ret # "panic"
      BY <1>2 DEF NoPanic, TypeOK
    <3>2. ~(pc = "setupkvm" /\ freelist = {})
      <4> SUFFICES ASSUME pc = "setupkvm", freelist = {} PROVE FALSE
        OBVIOUS
      <4>1. file \in Files
        BY <1>2 DEF MemInv
      <4>2. NFRAMES - 2 >= 2 /\ NFRAMES \in Nat
        BY <4>1, FitFacts, Sizes
      <4>3. Cardinality(freelist) >= NFRAMES - 1
        BY <1>2, FreeAtSetup
      <4> QED BY <4>2, <4>3, FS_EmptySet
    <3>3. ~(/\ pc \in {"alloc_file", "alloc_stack", "alloc_image"} /\ a < Limit(pc)
            /\ walkpgdir(pgdir, a) # 0)
      BY <1>2, LoaderFinds
    <3>4. ~(/\ pc = "read_file"
            /\ \E p \in USER_BASE..(PGROUNDUP(FileTop(file)) - 1) : walkpgdir(pgdir, p) = 0)
      BY <1>2, ReaderFinds
    <3>5. ~(mode13_enabled /\ ~Readable(mode13_user_fb_ptr))
      BY <1>2 DEF CopyInv
    <3> QED BY <2>2, <3>1, <3>2, <3>3, <3>4, <3>5, PanicCauses
  <2> QED BY <1>2, <2>1, <2>2 DEF NoPanic
<1> QED BY <1>1, <1>2, MemInvariance, FitInvariance, CopyInvariance, TypeCorrect, PTL DEF Spec

-----------------------------------------------------------------------------
(* No page is mapped twice, even when memory runs out                        *)

\* The pages that are to come when a step of the loader has come to page b.
ToCome(step, b, f) ==
    CASE step = "alloc_file"  -> b..(FileEnd(f) - 1) \cup Stack \cup FileEnd(f)..(ImageEnd(f) - 1)
      [] step = "alloc_stack" -> b..(USER_STACK_BASE - 1) \cup FileEnd(f)..(ImageEnd(f) - 1)
      [] step = "read_file"   -> FileEnd(f)..(ImageEnd(f) - 1)
      [] step = "alloc_image" -> b..(ImageEnd(f) - 1)

\* None of them is mapped, also when an earlier step has ended early.
RemapInv ==
    pc \in Allocating =>
        /\ pc = "alloc_stack" => a >= USER_STACK_BASE - 2
        /\ \A q \in ToCome(pc, a, file) : walkpgdir(pgdir, q) = 0

LEMMA Ends ==
    ASSUME BelowStack, NEW f \in Files
    PROVE  /\ USER_BASE \in Nat /\ USER_STACK_BASE \in Nat /\ USER_STACK_BASE - 2 \in Nat
           /\ USER_STACK_BASE <= NPDES * NPTENTRIES /\ NPDES * NPTENTRIES \in Nat
           /\ FileEnd(f) \in Nat /\ FileEnd(f) <= USER_STACK_BASE - 2
           /\ ImageEnd(f) \in Nat /\ ImageEnd(f) <= USER_STACK_BASE - 2
<1>1. NPDES * NPTENTRIES \in Nat
  BY Sizes, SMT
<1>2. /\ FileEnd(f) \in 0..(NPDES * NPTENTRIES) /\ ImageEnd(f) \in 0..(NPDES * NPTENTRIES)
  BY FilesAssumption DEF FileEnd, ImageEnd
<1>3. FileEnd(f) <= USER_STACK_BASE - 2 /\ ImageEnd(f) <= USER_STACK_BASE - 2
  BY DEF BelowStack, FileEnd, ImageEnd
<1>4. USER_BASE \in Nat /\ USER_STACK_BASE - 2 \in Nat /\ USER_STACK_BASE \in 0..(NPDES * NPTENTRIES)
  BY <1>1, ProcessAssumption
<1> QED BY <1>1, <1>2, <1>3, <1>4

\* What is to come is made of pages of the program, and a turn takes its page from it.
LEMMA TurnTakes ==
    ASSUME BelowStack, file \in Files, a \in Nat
    PROVE  /\ \A q \in ToCome(pc, a, file) :
                  pc \in Allocating => q \in Nat /\ q < NPDES * NPTENTRIES
           /\ pc \in {"alloc_file", "alloc_stack", "alloc_image"} /\ a < Limit(pc) =>
                  /\ a \in ToCome(pc, a, file)
                  /\ (pc = "alloc_stack" => a >= USER_STACK_BASE - 2) =>
                         ToCome(pc, a + 1, file) \subseteq ToCome(pc, a, file) \ {a}
<1>1. /\ USER_STACK_BASE \in Nat /\ USER_STACK_BASE - 2 \in Nat
      /\ USER_STACK_BASE <= NPDES * NPTENTRIES /\ NPDES * NPTENTRIES \in Nat
      /\ FileEnd(file) \in Nat /\ FileEnd(file) <= USER_STACK_BASE - 2
      /\ ImageEnd(file) \in Nat /\ ImageEnd(file) <= USER_STACK_BASE - 2
  BY Ends
<1>2. CASE pc = "alloc_file"
  <2>1. /\ Limit(pc) = FileEnd(file)
        /\ \A b : ToCome(pc, b, file) = b..(FileEnd(file) - 1) \cup Stack \cup FileEnd(file)..(ImageEnd(file) - 1)
    BY <1>2 DEF Limit, ToCome, FileEnd
  <2> QED BY <1>1, <1>2, <2>1 DEF Stack
<1>3. CASE pc = "alloc_stack"
  <2>1. /\ Limit(pc) = USER_STACK_BASE
        /\ \A b : ToCome(pc, b, file) = b..(USER_STACK_BASE - 1) \cup FileEnd(file)..(ImageEnd(file) - 1)
    BY <1>3 DEF Limit, ToCome
  <2> QED BY <1>1, <1>3, <2>1
<1>4. CASE pc = "alloc_image"
  <2>1. /\ Limit(pc) = ImageEnd(file)
        /\ \A b : ToCome(pc, b, file) = b..(ImageEnd(file) - 1)
    BY <1>4 DEF Limit, ToCome, ImageEnd
  <2> QED BY <1>1, <1>4, <2>1
<1>5. CASE pc = "read_file"
  BY <1>1, <1>5 DEF ToCome
<1> QED BY <1>2, <1>3, <1>4, <1>5 DEF Allocating

LEMMA ToComeNext ==
    UNCHANGED file => \A b : ToCome(pc, b, file)' = ToCome(pc', b', file)
BY DEF ToCome, FileEnd, ImageEnd, PGROUNDUP, FileTop, ImageTop, Tops, Stack

\* A page that is not yet due is not mapped twice.
LEMMA NotRemapped ==
    ASSUME BelowStack, MemInv, RemapInv,
           pc \in {"alloc_file", "alloc_stack", "alloc_image"}, a < Limit(pc)
    PROVE  walkpgdir(pgdir, a) = 0
<1>1. pc \in Allocating /\ a \in Nat /\ file \in Files
  BY DEF MemInv, Allocating
<1>2. a \in ToCome(pc, a, file)
  BY <1>1, TurnTakes
<1> QED BY <1>1, <1>2 DEF RemapInv

LEMMA RemapTurn ==
    ASSUME BelowStack, MemInv, RemapInv, pc \in {"alloc_file", "alloc_stack", "alloc_image"},
           a < Limit(pc), mappages(pgdir, a), a' = a + 1, UNCHANGED <<pc, file, user_task, pgdir>>
    PROVE  RemapInv'
<1>1. /\ MemOK /\ pgdir \in Frames /\ file \in Files /\ user_task \notin freelist
      /\ Owned(pgdir, 0, freelist \cup {user_task}) /\ a \in Nat /\ pc \in Allocating
  BY DEF MemInv, HasProgram, Allocating
<1>2. a \in ToCome(pc, a, file) /\ ToCome(pc, a + 1, file) \subseteq ToCome(pc, a, file) \ {a}
  BY <1>1, TurnTakes DEF RemapInv
<1>3. \A q \in ToCome(pc, a, file) : q \in Nat /\ q < NPDES * NPTENTRIES /\ walkpgdir(pgdir, q) = 0
  BY <1>1, TurnTakes DEF RemapInv
<1>4. PICK n \in Nat, dir \in Frames, task \in {user_task} : n = a /\ dir = pgdir
  BY <1>1
<1>5. PICK i \in 0..(NPDES - 1), j \in Entries : i = n \div NPTENTRIES /\ j = n % NPTENTRIES
  BY <1>2, <1>3, <1>4, UserPage
<1>6. task \notin freelist /\ Owned(dir, 0, freelist \cup {task}) /\ mappages(dir, n)
  BY <1>1, <1>4
<1>7. FramesTaken(dir, i, j)
  BY <1>1, <1>5, <1>6, MappagesFills
<1>8. ASSUME NEW q \in ToCome(pc, a + 1, file) PROVE walkpgdir(dir, q)' = 0
  <2>1. q # n /\ q \in Nat /\ q < NPDES * NPTENTRIES /\ walkpgdir(dir, q) = 0
    BY <1>2, <1>3, <1>4, <1>8
  <2> QED BY <1>5, <1>7, <2>1, TurnMaps
<1>9. \A q : walkpgdir(pgdir, q)' = walkpgdir(dir, q)'
  BY <1>4 DEF walkpgdir
<1>10. ToCome(pc, a, file)' = ToCome(pc, a + 1, file)
  BY DEF ToCome, FileEnd, ImageEnd, PGROUNDUP, FileTop, ImageTop, Tops, Stack
<1>11. pc = "alloc_stack" => a' >= USER_STACK_BASE - 2
  <2>1. USER_STACK_BASE - 2 \in Nat
    BY <1>1, Ends
  <2> QED BY <1>1, <2>1 DEF RemapInv
<1> QED BY <1>8, <1>9, <1>10, <1>11 DEF RemapInv

\* The loader passes on, at the end of a step or because memory is used up.
LEMMA RemapNext ==
    ASSUME RemapInv, pc \in Allocating, UNCHANGED <<mem, file, pgdir>>,
           ToCome(pc', a', file) \subseteq ToCome(pc, a, file),
           pc' = "alloc_stack" => a' >= USER_STACK_BASE - 2
    PROVE  RemapInv'
<1>1. \A q : walkpgdir(pgdir, q)' = walkpgdir(pgdir, q)
  BY DEF walkpgdir
<1>2. ToCome(pc, a, file)' = ToCome(pc', a', file)
  BY DEF ToCome, FileEnd, ImageEnd, PGROUNDUP, FileTop, ImageTop, Tops, Stack
<1> QED BY <1>1, <1>2 DEF RemapInv

LEMMA RemapAlloc ==
    ASSUME BelowStack, MemInv, RemapInv, alloc_file \/ alloc_stack \/ alloc_image
    PROVE  RemapInv'
<1>1. /\ pc \in {"alloc_file", "alloc_stack", "alloc_image"} /\ pc \in Allocating
      /\ UNCHANGED <<file, user_task, pgdir>> /\ file \in Files /\ a \in Nat
  BY DEF alloc_file, alloc_stack, alloc_image, allocuvm, Allocating, MemInv
<1>2. CASE a < Limit(pc) /\ ~OutOfFrames(pgdir, a)
  <2>1. Limit(pc) \in Nat
    BY <1>1, Bounds, Sizes, SMT
  <2>2. mappages(pgdir, a) /\ a' = a + 1 /\ pc' = pc
    BY <1>1, <1>2, <2>1 DEF alloc_file, alloc_stack, alloc_image, allocuvm, At
  <2> QED BY <1>1, <1>2, <2>2, RemapTurn
<1>3. CASE ~(a < Limit(pc) /\ ~OutOfFrames(pgdir, a))
  <2>1. /\ USER_STACK_BASE \in Nat /\ USER_STACK_BASE - 2 \in Nat
    BY <1>1, Ends
  <2>2. UNCHANGED mem
    BY <1>3 DEF alloc_file, alloc_stack, alloc_image, allocuvm, memory
  <2>3. CASE alloc_file
    <3>1. pc = "alloc_file" /\ pc' = "alloc_stack" /\ a' = USER_STACK_BASE - 2
      BY <1>3, <2>3 DEF alloc_file, allocuvm, At, First
    <3>2. ToCome(pc', a', file) \subseteq ToCome(pc, a, file)
      BY <3>1 DEF ToCome, Stack
    <3>3. a' >= USER_STACK_BASE - 2
      BY <2>1, <3>1
    <3> QED BY <1>1, <2>2, <3>2, <3>3, RemapNext
  <2>4. CASE alloc_stack
    <3>1. pc = "alloc_stack" /\ pc' = "read_file"
      BY <1>3, <2>4 DEF alloc_stack, allocuvm, At
    <3>2. ToCome(pc', a', file) \subseteq ToCome(pc, a, file)
      BY <3>1 DEF ToCome
    <3> QED BY <1>1, <2>2, <3>1, <3>2, RemapNext
  <2>5. CASE alloc_image
    <3>1. pc' \in {"enter", "shell"}
      BY <1>3, <2>5 DEF alloc_image, allocuvm, At
    <3> QED BY <3>1 DEF RemapInv, Allocating
  <2> QED BY <1>1, <2>3, <2>4, <2>5
<1> QED BY <1>2, <1>3

LEMMA RemapSetup ==
    ASSUME BelowStack, MemInv, setupkvm
    PROVE  RemapInv'
<1>1. CASE pc' = "panic"
  BY <1>1 DEF RemapInv, Allocating
<1>2. CASE pc' # "panic"
  <2>1. /\ pc = "setupkvm" /\ pc' = "alloc_file" /\ pgdir' \in HeadOf(freelist)
        /\ kalloc_zeroed(pgdir') /\ a' = First("alloc_file") /\ file' = file
    BY <1>2 DEF setupkvm, At, panic
  <2>2. PICK dir, task : dir = pgdir' /\ task = user_task
    OBVIOUS
  <2>3. dir \in freelist /\ MemOK /\ file \in Files /\ task \notin freelist
    <3>1. freelist \in SUBSET Frames
      BY DEF MemInv, MemOK
    <3> QED BY <2>1, <2>2, <3>1, MemoryAssumption DEF MemInv
  <2>4. mem' = [mem EXCEPT ![dir] = Zeroed] /\ freelist' = freelist \ {dir}
    BY <2>1, <2>2 DEF kalloc_zeroed
  <2>5. /\ dir \in Frames
        /\ \A p \in 0..LastSlot : Slot(dir, p)' = IF p = LastSlot THEN dir ELSE 0
    BY <2>3, <2>4, NewDirectory
  <2>6. \A q \in Nat : q < NPDES * NPTENTRIES => walkpgdir(dir, q)' = 0
    BY <2>5, DirectoryEmpty
  <2>7. \A q : walkpgdir(pgdir, q)' = walkpgdir(dir, q)'
    BY <2>2 DEF walkpgdir
  <2>8. a' = USER_BASE /\ USER_BASE \in Nat
    BY <2>1, <2>3, Ends DEF First
  <2>9. \A q \in ToCome("alloc_file", USER_BASE, file) : q \in Nat /\ q < NPDES * NPTENTRIES
    <3>1. /\ USER_STACK_BASE \in Nat /\ USER_STACK_BASE - 2 \in Nat
          /\ USER_STACK_BASE <= NPDES * NPTENTRIES /\ NPDES * NPTENTRIES \in Nat
          /\ FileEnd(file) \in Nat /\ FileEnd(file) <= USER_STACK_BASE - 2
          /\ ImageEnd(file) \in Nat /\ ImageEnd(file) <= USER_STACK_BASE - 2
      BY <2>3, Ends
    <3> QED BY <2>8, <3>1 DEF ToCome, Stack
  <2>10. ToCome(pc, a, file)' = ToCome("alloc_file", USER_BASE, file)
    BY <2>1, <2>8 DEF ToCome, FileEnd, ImageEnd, PGROUNDUP, FileTop, ImageTop, Tops, Stack
  <2> QED BY <2>1, <2>6, <2>7, <2>9, <2>10 DEF RemapInv
<1> QED BY <1>1, <1>2

LEMMA RemapRead ==
    ASSUME BelowStack, MemInv, RemapInv, read_file
    PROVE  RemapInv'
<1>1. CASE pc' \notin Allocating
  BY <1>1 DEF RemapInv
<1>2. CASE pc' \in Allocating
  <2>1. /\ pc = "read_file" /\ pc' = "alloc_image" /\ a' = First("alloc_image")
        /\ UNCHANGED <<mem, file, pgdir>>
    BY <1>2 DEF read_file, At, panic, Allocating, memory
  <2>2. ToCome(pc', a', file) \subseteq ToCome(pc, a, file)
    BY <2>1 DEF ToCome, First, FileEnd
  <2>3. pc \in Allocating /\ pc' # "alloc_stack"
    BY <2>1 DEF Allocating
  <2> QED BY <2>1, <2>2, <2>3, RemapNext
<1> QED BY <1>1, <1>2

LEMMA RemapSame == RemapInv /\ UNCHANGED <<memory, process, pc>> => RemapInv'
<1> SUFFICES ASSUME RemapInv, UNCHANGED <<memory, process, pc>> PROVE RemapInv'
  OBVIOUS
<1>1. UNCHANGED <<mem, pgdir, a, file, pc>>
  BY DEF memory, process
<1>2. CASE pc \in Allocating
  <2>1. pc' = "alloc_stack" => a' >= USER_STACK_BASE - 2
    BY <1>1, <1>2 DEF RemapInv
  <2> QED BY <1>1, <1>2, <2>1, RemapNext
<1>3. CASE pc \notin Allocating
  BY <1>1, <1>3 DEF RemapInv
<1> QED BY <1>2, <1>3

\* The loader runs with interrupts on, but nothing else moves it.
LEMMA RemapRest ==
    ASSUME CtlInv, RemapInv, Next, ~setupkvm, ~alloc_file, ~alloc_stack, ~alloc_image, ~read_file
    PROVE  RemapInv'
<1>1. CASE run_elf
  <2>1. pc' \notin Allocating
    BY <1>1 DEF run_elf, RunTask, enter, remap, panic, At, Allocating
  <2> QED BY <2>1 DEF RemapInv
<1>2. CASE mode13_fb_tick \/ KeyInterrupt \/ kbd_pop_event
  <2>1. CASE panic("Page Fault")
    BY <2>1 DEF panic, RemapInv, Allocating
  <2>2. CASE ~panic("Page Fault")
    <3>1. UNCHANGED <<memory, process, pc>>
      BY <1>2, <2>2 DEF mode13_fb_tick, mode13_fb_copy, KeyInterrupt, kbd_pop_event
    <3> QED BY <3>1, RemapSame
  <2> QED BY <2>1, <2>2
<1>3. CASE \/ \E page \in UserPages : handle_enter13h(page)
           \/ mode13_fb_bind \/ vgaMode13 \/ first_copy
           \/ handle_leave13h \/ proc_restore_text_mode
  <2>1. pc' \in {"user", "switchkvm", "restore_text", "unbind_flag"} \cup Binding \cup Unbinding
    BY <1>3 DEF handle_enter13h, mode13_fb_bind, BindPtr, BindFlag, vgaMode13, first_copy, mode13_fb_copy,
           handle_leave13h, proc_restore_text_mode, RestoreText, UnbindFlag, UnbindPtr, OpenPlanes,
           WriteFont, MapText, kbd_clear_buffer, At, Binding, Unbinding, CtlInv, InterruptInv
  <2>2. pc' \notin Allocating
    BY <2>1 DEF Binding, Unbinding, Allocating
  <2> QED BY <2>2 DEF RemapInv
<1>4. CASE killproc
  <2>1. pc' \notin Allocating
    BY <1>4 DEF killproc, EndProgram, switchkvm, freevm, sti, At, Allocating
  <2> QED BY <2>1 DEF RemapInv
<1> QED BY <1>1, <1>2, <1>3, <1>4 DEF Next

LEMMA RemapInvariance ==
    ASSUME BelowStack
    PROVE  Spec => []RemapInv
<1>1. Init => RemapInv
  BY DEF Init, RemapInv, Allocating
<1>2. CtlInv /\ MemInv /\ RemapInv /\ [Next]_vars => RemapInv'
  <2> SUFFICES ASSUME CtlInv, MemInv, RemapInv, [Next]_vars PROVE RemapInv'
    OBVIOUS
  <2>1. CASE UNCHANGED vars
    <3>1. UNCHANGED <<memory, process, pc>>
      BY <2>1 DEF vars, memory, process
    <3> QED BY <3>1, RemapSame
  <2>2. CASE setupkvm \/ read_file
    BY <2>2, RemapSetup, RemapRead
  <2>3. CASE alloc_file \/ alloc_stack \/ alloc_image
    BY <2>3, RemapAlloc
  <2> QED BY <2>1, <2>2, <2>3, RemapRest
<1> QED BY <1>1, <1>2, CtlInvariance, MemInvariance, PTL DEF Spec

\* Files linked below the stack, however much or little memory there is and however their
\* runs end: allocuvm is never asked to map a page a second time.
THEOREM NoPageMappedTwice ==
    ASSUME BelowStack
    PROVE  Spec => []NoRemap
<1>1. Init => NoRemap
  BY DEF Init, NoRemap
<1>2. MemInv /\ RemapInv /\ NoRemap /\ [Next]_vars => NoRemap'
  <2> SUFFICES ASSUME MemInv, RemapInv, NoRemap, [Next]_vars PROVE NoRemap'
    OBVIOUS
  <2>1. CASE message' = message
    BY <2>1 DEF NoRemap
  <2>2. CASE message' = "Page Fault"
    BY <2>2 DEF NoRemap
  <2>3. ASSUME NEW x \in {"alloc_file", "alloc_stack", "alloc_image"}, remap(x) PROVE FALSE
    <3>1. pc = x /\ a < Limit(pc) /\ walkpgdir(pgdir, a) # 0
      BY <2>3 DEF remap
    <3> QED BY <3>1, NotRemapped
  <2>4. [Next]_vars => message' = message \/ message' = "Page Fault"
    <3>1. CASE run_elf
      BY <2>3, <3>1 DEF run_elf, RunTask, setupkvm, alloc_file, alloc_stack, alloc_image, allocuvm,
         read_file, enter, panic, At
    <3>2. CASE mode13_fb_tick \/ KeyInterrupt \/ kbd_pop_event
      BY <3>2 DEF mode13_fb_tick, mode13_fb_copy, KeyInterrupt, kbd_pop_event, panic
    <3>3. CASE \/ \E page \in UserPages : handle_enter13h(page)
               \/ mode13_fb_bind \/ vgaMode13 \/ first_copy
               \/ handle_leave13h \/ proc_restore_text_mode \/ killproc
      BY <3>3 DEF handle_enter13h, mode13_fb_bind, BindPtr, BindFlag, vgaMode13, first_copy, mode13_fb_copy,
         handle_leave13h, proc_restore_text_mode, RestoreText, UnbindFlag, UnbindPtr, OpenPlanes,
         WriteFont, MapText, kbd_clear_buffer, killproc, EndProgram, switchkvm, freevm, sti, At
    <3>4. CASE UNCHANGED vars
      BY <3>4 DEF vars
    <3> QED BY <3>1, <3>2, <3>3, <3>4 DEF Next
  <2> QED BY <2>1, <2>2, <2>4
<1> QED BY <1>1, <1>2, MemInvariance, RemapInvariance, PTL DEF Spec
=============================================================================
