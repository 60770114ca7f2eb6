------------------------------- MODULE Memory -------------------------------
(***************************************************************************)
(* kernel/mem.c and kernel/vm.c: the free list of physical frames and the  *)
(* two-level page tables built from them.  A frame holds table entries; 0  *)
(* is a null pointer as well as an entry that is not present.  The kernel  *)
(* half of every directory maps all of memory with large pages and never   *)
(* changes, so only the user half is kept.                                 *)
(***************************************************************************)
EXTENDS Naturals

CONSTANTS NFRAMES,       \* frames the allocator starts with
          NPDES,         \* NPDENTRIES / 2: directory entries of the user half
          NPTENTRIES,    \* entries of a page table
          HeadOf(_)      \* the frames that may be first on a free list of these

Frames == 1..NFRAMES
Entries == 0..(NPTENTRIES - 1)

\* The order of the list is left open: some free frame is at its head.
ASSUME MemoryAssumption ==
    /\ NFRAMES \in Nat \ {0}
    /\ NPTENTRIES \in Nat \ {0}
    /\ NPDES \in 1..NPTENTRIES
    /\ \A S \in SUBSET Frames : HeadOf(S) \subseteq S

VARIABLES freelist,      \* the frames on kmem.freelist
          mem            \* what each frame holds

memory == <<freelist, mem>>

Zeroed == [j \in Entries |-> 0]
\* kfree's fill pattern 0x01010101 reads as a present entry for some frame; the
\* first word then becomes the list link, which is page aligned: not present.
\* Mutant: a fill pattern that names no frame.
JunkBeyondMemory == [j \in Entries |-> IF j = 0 THEN 0 ELSE NFRAMES + 1]
Junk == [j \in Entries |-> IF j = 0 THEN 0 ELSE NFRAMES]

\* freerange hands every frame to kfree.
MemoryInit ==
    /\ freelist = Frames
    /\ mem = [f \in Frames |-> Junk]

-----------------------------------------------------------------------------
kfree(f) ==
    /\ freelist' = freelist \cup {f}
    /\ mem' = [mem EXCEPT ![f] = Junk]

\* Mutant: kalloc does not move the list's head.
kalloc_KeepsHead(f) ==
    /\ f \in HeadOf(freelist)
    /\ freelist' = freelist
    /\ mem' = [mem EXCEPT ![f] = Zeroed]

\* kalloc of frame f, which the caller fills with zeroes.
kalloc_zeroed(f) ==
    /\ f \in HeadOf(freelist)
    /\ freelist' = freelist \ {f}
    /\ mem' = [mem EXCEPT ![f] = Zeroed]

\* walkpgdir without allocation: the frame mapped at user page a, or 0.
walkpgdir(dir, a) ==
    LET table == mem[dir][a \div NPTENTRIES]
    IN  IF table = 0 THEN 0 ELSE mem[table][a % NPTENTRIES]

\* The turn of allocuvm's loop for page a finds no frame for the page, or none
\* for its page table (the page then goes back where it came from).
OutOfFrames(dir, a) ==
    \/ freelist = {}
    \/ mem[dir][a \div NPTENTRIES] = 0 /\ \E f \in freelist : freelist = {f}

MapInTable(table, a, page) ==
    /\ freelist' = freelist \ {page}
    /\ mem' = [mem EXCEPT ![page] = Zeroed, ![table][a % NPTENTRIES] = page]

\* Mutant: a new page table is used as it comes from kalloc.
MapInDirtyTable(dir, a, page, table) ==
    /\ freelist' = freelist \ {page, table}
    /\ mem' = [mem EXCEPT ![page] = Zeroed, ![dir][a \div NPTENTRIES] = table,
                          ![table][a % NPTENTRIES] = page]

MapInNewTable(dir, a, page, table) ==
    /\ freelist' = freelist \ {page, table}
    /\ mem' = [mem EXCEPT ![page] = Zeroed, ![dir][a \div NPTENTRIES] = table,
                          ![table] = [Zeroed EXCEPT ![a % NPTENTRIES] = page]]

\* The turn of allocuvm's loop for page a: a zeroed frame is mapped there, in a
\* page table that is created, and cleared, when the directory has none.
mappages(dir, a) ==
    \E page \in HeadOf(freelist) :
        LET table == mem[dir][a \div NPTENTRIES]
        IN  IF table # 0 THEN MapInTable(table, a, page)
            ELSE \E new \in HeadOf(freelist \ {page}) : MapInNewTable(dir, a, page, new)

-----------------------------------------------------------------------------
(* freevm visits the frames of an address space in this order: for every    *)
(* present directory entry the pages of its table and then the table, and   *)
(* the directory last.  Slot(dir, p) is the frame at place p, or 0.         *)

LastSlot == NPDES * (NPTENTRIES + 1)

Slot(dir, p) ==
    LET table == mem[dir][p \div (NPTENTRIES + 1)]
        j     == p % (NPTENTRIES + 1)
    IN  IF p = LastSlot THEN dir
        ELSE IF table = 0 \/ j = NPTENTRIES THEN table
        ELSE mem[table][j]
=============================================================================
