---------------------------- MODULE MemoryProofs ----------------------------
(***************************************************************************)
(* Frames and page tables of any size: mapping a page or freeing one keeps  *)
(* every frame of an address space apart from all others, from the free     *)
(* frames and from one more frame, the task structure.                      *)
(***************************************************************************)
EXTENDS Memory, Integers, FiniteSets, FiniteSetTheorems, TLAPS

MemOK == freelist \subseteq Frames /\ mem \in [Frames -> [Entries -> 0..NFRAMES]]

\* From place lo on, no frame of dir's address space is taken or there twice.
Owned(dir, lo, taken) ==
    \A p \in lo..LastSlot : Slot(dir, p) # 0 =>
        /\ Slot(dir, p) \notin taken
        /\ \A q \in lo..LastSlot : q # p => Slot(dir, q) # Slot(dir, p)

-----------------------------------------------------------------------------
(* Places: table i has the places i * (NPTENTRIES + 1) and on, the last for   *)
(* the frame of the table itself.                                            *)

TableOf(p) == p \div (NPTENTRIES + 1)
PlaceOf(p) == p % (NPTENTRIES + 1)
EntrySlot(i, j) == i * (NPTENTRIES + 1) + j
TableSlot(i) == EntrySlot(i, NPTENTRIES)

LEMMA Sizes ==
    /\ NFRAMES \in Nat \ {0} /\ NPTENTRIES \in Nat \ {0} /\ NPTENTRIES + 1 \in Nat \ {0}
    /\ NPDES \in Nat /\ 1 <= NPDES /\ NPDES <= NPTENTRIES /\ LastSlot \in Nat
<1>1. NFRAMES \in Nat \ {0} /\ NPTENTRIES \in Nat \ {0} /\ NPDES \in 1..NPTENTRIES
  BY MemoryAssumption
<1>2. NPTENTRIES + 1 \in Nat \ {0} /\ NPDES \in Nat
  BY <1>1
<1>3. LastSlot \in Nat
  BY <1>2, SMT DEF LastSlot
<1> QED BY <1>1, <1>2, <1>3

LEMMA Quotients ==
    ASSUME NEW w \in Nat \ {0}, NEW x \in Nat
    PROVE  x \div w \in Nat /\ x % w \in 0..(w - 1) /\ x = (x \div w) * w + (x % w)
<1>1. x % w \in 0..(w - 1)
  OBVIOUS
<1>2. x \div w \in Int /\ x = (x \div w) * w + (x % w)
  BY Z3
<1>3. x \div w >= 0
  BY Z3
<1> QED BY <1>1, <1>2, <1>3

LEMMA SameQuotient ==
    ASSUME NEW w \in Nat \ {0}, NEW p \in Nat, NEW q \in Nat, NEW r \in 0..(w - 1), NEW s \in 0..(w - 1),
           p * w + r = q * w + s
    PROVE  p = q /\ r = s
<1>1. PICK k \in Int : k = p - q
  OBVIOUS
<1>2. k * w = s - r
  BY <1>1, SMT
<1>3. k >= 1 => k * w >= w
  BY SMT
<1>4. k <= 0 - 1 => k * w <= 0 - w
  BY SMT
<1>5. k = 0
  BY <1>2, <1>3, <1>4
<1> QED BY <1>1, <1>5

LEMMA QuotientOf ==
    ASSUME NEW w \in Nat \ {0}, NEW q \in Nat, NEW r \in 0..(w - 1)
    PROVE  (q * w + r) \div w = q /\ (q * w + r) % w = r
<1>1. PICK x \in Nat : x = q * w + r
  BY SMT
<1>2. x \div w \in Nat /\ x % w \in 0..(w - 1) /\ x = (x \div w) * w + (x % w)
  BY Quotients
<1>3. x \div w = q /\ x % w = r
  BY <1>1, <1>2, SameQuotient
<1> QED BY <1>1, <1>3

LEMMA QuotientBelow ==
    ASSUME NEW w \in Nat \ {0}, NEW n \in Nat, NEW x \in Nat, x < n * w
    PROVE  x \div w \in 0..(n - 1)
<1>1. PICK q \in Nat, r \in 0..(w - 1) : q = x \div w /\ x = q * w + r
  BY Quotients
<1>2. q >= n => q * w >= n * w
  BY SMT
<1>3. q < n
  <2>1. n * w \in Nat /\ q * w \in Nat
    BY SMT
  <2> QED BY <1>1, <1>2, <2>1
<1> QED BY <1>1, <1>3

LEMMA Places ==
    ASSUME NEW p \in 0..LastSlot, p # LastSlot
    PROVE  TableOf(p) \in 0..(NPDES - 1) /\ PlaceOf(p) \in 0..NPTENTRIES
<1>1. p \in Nat /\ p < NPDES * (NPTENTRIES + 1)
  BY Sizes DEF LastSlot
<1>2. TableOf(p) \in 0..(NPDES - 1)
  BY <1>1, Sizes, QuotientBelow DEF TableOf
<1>3. PlaceOf(p) \in 0..((NPTENTRIES + 1) - 1)
  BY <1>1, Sizes, Quotients DEF PlaceOf
<1> QED BY <1>2, <1>3, Sizes

LEMMA PlaceOfEntry ==
    ASSUME NEW i \in 0..(NPDES - 1), NEW j \in 0..NPTENTRIES
    PROVE  /\ EntrySlot(i, j) \in 0..LastSlot /\ EntrySlot(i, j) # LastSlot
           /\ TableOf(EntrySlot(i, j)) = i /\ PlaceOf(EntrySlot(i, j)) = j
<1>1. PICK w \in Nat \ {0} : w = NPTENTRIES + 1
  BY Sizes
<1>2. i \in Nat /\ j \in 0..(w - 1)
  BY <1>1, Sizes
<1>3. (i * w + j) \div w = i /\ (i * w + j) % w = j
  BY <1>2, QuotientOf
<1>4. i * w + j \in Nat /\ i * w + j < NPDES * w
  <2>1. i + 1 <= NPDES /\ NPDES \in Nat
    BY Sizes
  <2>2. (i + 1) * w <= NPDES * w
    BY <2>1, SMT
  <2>3. (i + 1) * w = i * w + w /\ i * w \in Nat /\ NPDES * w \in Nat
    BY <1>2, Sizes, SMT
  <2> QED BY <1>2, <2>2, <2>3
<1>5. LastSlot = NPDES * w
  BY <1>1 DEF LastSlot
<1>6. i * w + j \in 0..LastSlot /\ i * w + j # LastSlot
  <2>1. LastSlot \in Nat
    BY Sizes
  <2> QED BY <1>4, <1>5, <2>1
<1> QED BY <1>1, <1>3, <1>6 DEF TableOf, PlaceOf, EntrySlot

LEMMA OnePlace ==
    ASSUME NEW p \in Nat, NEW q \in Nat, TableOf(p) = TableOf(q), PlaceOf(p) = PlaceOf(q)
    PROVE  p = q
<1>1. PICK w \in Nat \ {0} : w = NPTENTRIES + 1
  BY Sizes
<1>2. p = (p \div w) * w + (p % w) /\ q = (q \div w) * w + (q % w)
  BY Quotients
<1> QED BY <1>1, <1>2 DEF TableOf, PlaceOf

LEMMA TableSlots ==
    ASSUME NEW i \in 0..(NPDES - 1)
    PROVE  /\ TableSlot(i) \in 0..LastSlot /\ TableSlot(i) # LastSlot
           /\ TableOf(TableSlot(i)) = i /\ PlaceOf(TableSlot(i)) = NPTENTRIES
<1>1. NPTENTRIES \in 0..NPTENTRIES
  BY Sizes
<1> QED BY <1>1, PlaceOfEntry DEF TableSlot

\* A place is known by its table and its entry.
LEMMA AtEntry ==
    ASSUME NEW i \in 0..(NPDES - 1), NEW j \in Entries, NEW p \in 0..LastSlot
    PROVE  /\ p # LastSlot /\ TableOf(p) = i /\ PlaceOf(p) = j <=> p = EntrySlot(i, j)
           /\ p # LastSlot /\ TableOf(p) = i /\ PlaceOf(p) = NPTENTRIES <=> p = TableSlot(i)
<1>1. j \in 0..NPTENTRIES
  BY Sizes DEF Entries
<1>2. /\ EntrySlot(i, j) \in 0..LastSlot /\ EntrySlot(i, j) # LastSlot
      /\ TableOf(EntrySlot(i, j)) = i /\ PlaceOf(EntrySlot(i, j)) = j
  BY <1>1, PlaceOfEntry
<1>3. /\ TableSlot(i) \in 0..LastSlot /\ TableSlot(i) # LastSlot
      /\ TableOf(TableSlot(i)) = i /\ PlaceOf(TableSlot(i)) = NPTENTRIES
  BY TableSlots
<1>4. p \in Nat /\ EntrySlot(i, j) \in Nat /\ TableSlot(i) \in Nat
  BY <1>2, <1>3, Sizes
<1> QED BY <1>2, <1>3, <1>4, OnePlace

\* A table's frame comes after its pages.
LEMMA PagesBeforeTable ==
    ASSUME NEW p \in 0..LastSlot, p # LastSlot
    PROVE  p <= TableSlot(TableOf(p))
<1>1. PICK w \in Nat \ {0} : w = NPTENTRIES + 1
  BY Sizes
<1>2. PICK q \in Nat, r \in 0..(w - 1) : q = p \div w /\ p = q * w + r
  <2>1. p \in Nat
    BY Sizes
  <2> QED BY <2>1, Quotients
<1>3. r <= NPTENTRIES /\ q * w \in Nat /\ NPTENTRIES \in Nat
  BY <1>1, Sizes, SMT
<1>4. q * w + r <= q * w + NPTENTRIES
  BY <1>3
<1> QED BY <1>1, <1>2, <1>4 DEF TableOf, TableSlot, EntrySlot

-----------------------------------------------------------------------------
(* What is at a place                                                        *)

LEMMA SlotOf ==
    ASSUME NEW dir, NEW p \in 0..LastSlot
    PROVE  /\ p = LastSlot => Slot(dir, p) = dir
           /\ p # LastSlot /\ (mem[dir][TableOf(p)] = 0 \/ PlaceOf(p) = NPTENTRIES)
                  => Slot(dir, p) = mem[dir][TableOf(p)]
           /\ p # LastSlot /\ ~(mem[dir][TableOf(p)] = 0 \/ PlaceOf(p) = NPTENTRIES)
                  => Slot(dir, p) = mem[mem[dir][TableOf(p)]][PlaceOf(p)]
BY DEF Slot, TableOf, PlaceOf

LEMMA TableIsThere ==
    ASSUME NEW dir, NEW i \in 0..(NPDES - 1)
    PROVE  Slot(dir, TableSlot(i)) = mem[dir][i]
BY SlotOf, TableSlots

\* With every frame in one place: the directory and the tables are all different
\* and none is taken.
LEMMA TablesApart ==
    ASSUME MemOK, NEW dir \in Frames, NEW taken, Owned(dir, 0, taken),
           NEW i \in 0..(NPDES - 1), mem[dir][i] # 0
    PROVE  /\ dir \notin taken /\ mem[dir][i] \notin taken /\ mem[dir][i] # dir
           /\ mem[dir][i] \in Frames
           /\ \A k \in 0..(NPDES - 1) : mem[dir][k] = mem[dir][i] => k = i
<1>1. /\ LastSlot \in 0..LastSlot /\ TableSlot(i) \in 0..LastSlot /\ TableSlot(i) # LastSlot
      /\ Slot(dir, LastSlot) = dir /\ Slot(dir, TableSlot(i)) = mem[dir][i]
  BY Sizes, TableSlots, SlotOf, TableIsThere
<1>2. dir # 0
  BY DEF Frames
<1>3. /\ dir \notin taken /\ mem[dir][i] \notin taken /\ mem[dir][i] # dir
  BY <1>1, <1>2 DEF Owned
<1>4. ASSUME NEW k \in 0..(NPDES - 1), mem[dir][k] = mem[dir][i] PROVE k = i
  <2>1. TableSlot(k) \in 0..LastSlot /\ Slot(dir, TableSlot(k)) = mem[dir][k]
    BY TableSlots, TableIsThere
  <2>2. TableSlot(k) = TableSlot(i)
    BY <1>1, <1>4, <2>1 DEF Owned
  <2> QED BY <2>2, TableSlots
<1>5. mem[dir][i] \in Frames
  <2>1. i \in Entries
    BY Sizes DEF Entries
  <2> QED BY <2>1, Sizes DEF MemOK, Frames
<1> QED BY <1>3, <1>4, <1>5

\* Frames that were free, each put in one place.
LEMMA OwnedFilled ==
    ASSUME NEW dir, NEW task, task \notin freelist, Owned(dir, 0, freelist \cup {task}),
           NEW X, X \subseteq freelist, freelist' = freelist \ X,
           \A p \in 0..LastSlot : Slot(dir, p)' = Slot(dir, p) \/ Slot(dir, p)' \in X,
           \A p, q \in 0..LastSlot :
               Slot(dir, p)' \in X /\ Slot(dir, q)' = Slot(dir, p)' => q = p
    PROVE  Owned(dir, 0, freelist \cup {task})'
<1> SUFFICES ASSUME NEW p \in 0..LastSlot, Slot(dir, p)' # 0
             PROVE  /\ Slot(dir, p)' \notin freelist' \cup {task}
                    /\ \A q \in 0..LastSlot : q # p => Slot(dir, q)' # Slot(dir, p)'
  BY DEF Owned
<1>1. CASE Slot(dir, p)' \in X
  BY <1>1
<1>2. CASE Slot(dir, p)' \notin X
  <2>1. Slot(dir, p)' = Slot(dir, p) /\ Slot(dir, p) # 0
    BY <1>2
  <2>2. /\ Slot(dir, p) \notin freelist \cup {task}
        /\ \A q \in 0..LastSlot : q # p => Slot(dir, q) # Slot(dir, p)
    BY <2>1 DEF Owned
  <2> QED BY <2>1, <2>2
<1> QED BY <1>1, <1>2

-----------------------------------------------------------------------------
(* Mapping a page                                                            *)

LEMMA UserPage ==
    ASSUME NEW n \in Nat, n < NPDES * NPTENTRIES
    PROVE  n \div NPTENTRIES \in 0..(NPDES - 1) /\ n % NPTENTRIES \in Entries
<1>1. n \div NPTENTRIES \in 0..(NPDES - 1)
  BY Sizes, QuotientBelow
<1>2. n % NPTENTRIES \in 0..(NPTENTRIES - 1)
  BY Sizes, Quotients
<1> QED BY <1>1, <1>2 DEF Entries

LEMMA EntryTypes ==
    /\ Zeroed \in [Entries -> 0..NFRAMES] /\ Junk \in [Entries -> 0..NFRAMES]
    /\ \A j \in Entries : Zeroed[j] = 0
BY Sizes DEF Zeroed, Junk

\* What a turn of allocuvm adds to the places of an address space: a page, or a page and
\* the table it is in.
PageAdded(dir, i, j, page) ==
    \A p \in 0..LastSlot : Slot(dir, p)' = IF p = EntrySlot(i, j) THEN page ELSE Slot(dir, p)
TableAdded(dir, i, j, page, table) ==
    \A p \in 0..LastSlot : Slot(dir, p)' = IF p = EntrySlot(i, j) THEN page
                                          ELSE IF p = TableSlot(i) THEN table ELSE Slot(dir, p)

FramesTaken(dir, i, j) ==
    \E page \in freelist :
        \/ /\ mem[dir][i] # 0 /\ freelist' = freelist \ {page}
           /\ PageAdded(dir, i, j, page)
        \/ \E table \in freelist \ {page} :
              /\ mem[dir][i] = 0 /\ freelist' = freelist \ {page, table}
              /\ TableAdded(dir, i, j, page, table)

\* What an address space has it keeps.
SlotsKept(dir) == \A p \in 0..LastSlot : Slot(dir, p) # 0 => Slot(dir, p)' # 0

\* A page in a table that is there.
LEMMA OldTable ==
    ASSUME MemOK, NEW dir \in Frames, NEW task, task \notin freelist,
           Owned(dir, 0, freelist \cup {task}),
           NEW i \in 0..(NPDES - 1), NEW j \in Entries, NEW page \in freelist,
           NEW table, table = mem[dir][i], table # 0,
           freelist' = freelist \ {page},
           mem' = [mem EXCEPT ![page] = Zeroed, ![table][j] = page]
    PROVE  /\ MemOK' /\ Owned(dir, 0, freelist \cup {task})'
           /\ SlotsKept(dir)
           /\ Slot(dir, EntrySlot(i, j))' # 0
           /\ PageAdded(dir, i, j, page)
<1>1. /\ dir \notin freelist /\ table \notin freelist /\ table # dir /\ table \in Frames
      /\ \A k \in 0..(NPDES - 1) : mem[dir][k] = table => k = i
  BY TablesApart
<1>2. page \in Frames /\ page \in 0..NFRAMES /\ page # dir /\ page # table
  BY <1>1, Sizes DEF MemOK, Frames
<1>3. mem' = [f \in Frames |-> IF f = page THEN Zeroed
                               ELSE IF f = table THEN [mem[table] EXCEPT ![j] = page] ELSE mem[f]]
  BY <1>1, <1>2 DEF MemOK
<1>4. MemOK'
  <2>1. [mem[table] EXCEPT ![j] = page] \in [Entries -> 0..NFRAMES]
    BY <1>1, <1>2 DEF MemOK
  <2>2. mem' \in [Frames -> [Entries -> 0..NFRAMES]]
    BY <1>3, <2>1, EntryTypes DEF MemOK
  <2> QED BY <2>2 DEF MemOK
<1>5. mem'[dir] = mem[dir] /\ mem'[table] = [mem[table] EXCEPT ![j] = page]
  BY <1>1, <1>2, <1>3
<1>6. ASSUME NEW k \in 0..(NPDES - 1), mem[dir][k] # 0, k # i PROVE mem'[mem[dir][k]] = mem[mem[dir][k]]
  <2>1. mem[dir][k] \notin freelist /\ mem[dir][k] # table /\ mem[dir][k] \in Frames
    BY <1>1, <1>6, TablesApart
  <2> QED BY <1>2, <1>3, <2>1
<1>7. ASSUME NEW p \in 0..LastSlot
      PROVE  Slot(dir, p)' = IF p # LastSlot /\ TableOf(p) = i /\ PlaceOf(p) = j THEN page ELSE Slot(dir, p)
  <2>1. CASE p = LastSlot
    BY <2>1 DEF Slot
  <2>2. CASE p # LastSlot
    <3>1. TableOf(p) \in 0..(NPDES - 1) /\ PlaceOf(p) \in 0..NPTENTRIES
      BY <2>2, Places
    <3>2. Slot(dir, p)' = IF mem'[dir][TableOf(p)] = 0 \/ PlaceOf(p) = NPTENTRIES THEN mem'[dir][TableOf(p)]
                          ELSE mem'[mem'[dir][TableOf(p)]][PlaceOf(p)]
      BY <2>2 DEF Slot, TableOf, PlaceOf
    <3>3. j # NPTENTRIES
      BY Sizes DEF Entries
    <3>4. CASE TableOf(p) = i
      <4>1. CASE PlaceOf(p) = NPTENTRIES
        BY <1>5, <2>2, <3>2, <3>3, <3>4, <4>1, SlotOf
      <4>2. CASE PlaceOf(p) # NPTENTRIES
        <5>1. PlaceOf(p) \in Entries
          BY <3>1, <4>2, Sizes DEF Entries
        <5>2. mem'[table][PlaceOf(p)] = IF PlaceOf(p) = j THEN page ELSE mem[table][PlaceOf(p)]
          BY <1>1, <1>5, <5>1 DEF MemOK
        <5> QED BY <1>5, <2>2, <3>2, <3>4, <4>2, <5>2, SlotOf
      <4> QED BY <4>1, <4>2
    <3>5. CASE TableOf(p) # i
      <4>1. mem'[dir][TableOf(p)] = mem[dir][TableOf(p)]
        BY <1>5
      <4>2. CASE mem[dir][TableOf(p)] = 0 \/ PlaceOf(p) = NPTENTRIES
        BY <2>2, <3>2, <3>5, <4>1, <4>2, SlotOf
      <4>3. CASE ~(mem[dir][TableOf(p)] = 0 \/ PlaceOf(p) = NPTENTRIES)
        <5>1. mem'[mem[dir][TableOf(p)]] = mem[mem[dir][TableOf(p)]]
          BY <1>6, <3>1, <3>5, <4>3
        <5>2. Slot(dir, p) = mem[mem[dir][TableOf(p)]][PlaceOf(p)]
          BY <2>2, <4>3, SlotOf
        <5> QED BY <3>2, <3>5, <4>1, <4>3, <5>1, <5>2
      <4> QED BY <4>2, <4>3
    <3> QED BY <3>4, <3>5
  <2> QED BY <2>1, <2>2
<1>8. \A p \in 0..LastSlot : Slot(dir, p) # page
  <2>1. page # 0
    BY <1>2 DEF Frames
  <2> QED BY <2>1 DEF Owned
<1>9. ASSUME NEW p \in 0..LastSlot, NEW q \in 0..LastSlot,
             Slot(dir, p)' \in {page}, Slot(dir, q)' = Slot(dir, p)'
      PROVE  q = p
  <2>1. TableOf(p) = i /\ PlaceOf(p) = j /\ TableOf(q) = i /\ PlaceOf(q) = j
    BY <1>7, <1>8, <1>9
  <2>2. p \in Nat /\ q \in Nat
    BY Sizes
  <2> QED BY <2>1, <2>2, OnePlace
<1>10. Owned(dir, 0, freelist \cup {task})'
  BY <1>7, <1>9, OwnedFilled, ZenonT(60)
<1>11. page # 0
  BY <1>2 DEF Frames
<1>12. Slot(dir, EntrySlot(i, j))' # 0
  <2>1. j \in 0..NPTENTRIES
    BY Sizes DEF Entries
  <2>2. PICK p \in 0..LastSlot : /\ p = EntrySlot(i, j) /\ p # LastSlot
                                /\ TableOf(p) = i /\ PlaceOf(p) = j
    BY <2>1, PlaceOfEntry
  <2>3. Slot(dir, p)' # 0
    BY <1>7, <1>11, <2>2
  <2> QED BY <2>2, <2>3
<1>13. SlotsKept(dir)
  BY <1>7, <1>11 DEF SlotsKept
<1>14. PageAdded(dir, i, j, page)
  BY <1>7, AtEntry DEF PageAdded
<1> QED BY <1>4, <1>10, <1>12, <1>13, <1>14

\* A page in a new table, cleared first.
InNewTable(dir, i, j, page, table) ==
    /\ freelist' = freelist \ {page, table}
    /\ mem' = [mem EXCEPT ![page] = Zeroed, ![dir][i] = table,
                          ![table] = [Zeroed EXCEPT ![j] = page]]

LEMMA NewTable ==
    ASSUME MemOK, NEW dir \in Frames, NEW task, task \notin freelist,
           Owned(dir, 0, freelist \cup {task}),
           NEW i \in 0..(NPDES - 1), NEW j \in Entries, NEW page \in freelist,
           NEW table \in freelist, table # page, mem[dir][i] = 0,
           InNewTable(dir, i, j, page, table)
    PROVE  /\ MemOK' /\ Owned(dir, 0, freelist \cup {task})'
           /\ SlotsKept(dir)
           /\ Slot(dir, EntrySlot(i, j))' # 0
           /\ TableAdded(dir, i, j, page, table)
<1> USE DEF InNewTable
<1>1. dir \notin freelist
  <2>1. LastSlot \in 0..LastSlot /\ Slot(dir, LastSlot) = dir /\ dir # 0
    BY Sizes, SlotOf DEF Frames
  <2> QED BY <2>1 DEF Owned
<1>2. /\ page \in Frames /\ page \in 0..NFRAMES /\ page # dir /\ page # 0
      /\ table \in Frames /\ table \in 0..NFRAMES /\ table # dir /\ table # 0
  BY <1>1, Sizes DEF MemOK, Frames
<1>3. i \in Entries
  BY Sizes DEF Entries
<1>4. mem' = [f \in Frames |-> IF f = table THEN [Zeroed EXCEPT ![j] = page]
                               ELSE IF f = page THEN Zeroed
                               ELSE IF f = dir THEN [mem[dir] EXCEPT ![i] = table] ELSE mem[f]]
  BY <1>2 DEF MemOK
<1>5. MemOK'
  <2>1. [mem[dir] EXCEPT ![i] = table] \in [Entries -> 0..NFRAMES]
    BY <1>2, <1>3 DEF MemOK
  <2>2. [Zeroed EXCEPT ![j] = page] \in [Entries -> 0..NFRAMES]
    BY <1>2, EntryTypes
  <2>3. mem' \in [Frames -> [Entries -> 0..NFRAMES]]
    BY <1>4, <2>1, <2>2, EntryTypes DEF MemOK
  <2> QED BY <2>3 DEF MemOK
<1>6. /\ mem'[dir][i] = table
      /\ \A k \in 0..(NPDES - 1) : k # i => mem'[dir][k] = mem[dir][k]
      /\ mem'[table][j] = page /\ \A k \in Entries : k # j => mem'[table][k] = 0
  <2>1. mem'[dir] = [mem[dir] EXCEPT ![i] = table] /\ mem'[table] = [Zeroed EXCEPT ![j] = page]
    BY <1>2, <1>4
  <2>2. 0..(NPDES - 1) \subseteq Entries
    BY Sizes DEF Entries
  <2> QED BY <1>3, <2>1, <2>2, EntryTypes DEF MemOK
<1>7. ASSUME NEW k \in 0..(NPDES - 1), mem[dir][k] # 0 PROVE mem'[mem[dir][k]] = mem[mem[dir][k]]
  <2>1. mem[dir][k] \notin freelist /\ mem[dir][k] # dir /\ mem[dir][k] \in Frames
    BY <1>7, TablesApart
  <2> QED BY <1>4, <2>1
<1>8. ASSUME NEW p \in 0..LastSlot
      PROVE  Slot(dir, p)' = IF p # LastSlot /\ TableOf(p) = i /\ PlaceOf(p) = j THEN page
                             ELSE IF p # LastSlot /\ TableOf(p) = i /\ PlaceOf(p) = NPTENTRIES THEN table
                             ELSE Slot(dir, p)
  <2>1. CASE p = LastSlot
    BY <2>1 DEF Slot
  <2>2. CASE p # LastSlot
    <3>1. TableOf(p) \in 0..(NPDES - 1) /\ PlaceOf(p) \in 0..NPTENTRIES
      BY <2>2, Places
    <3>2. Slot(dir, p)' = IF mem'[dir][TableOf(p)] = 0 \/ PlaceOf(p) = NPTENTRIES THEN mem'[dir][TableOf(p)]
                          ELSE mem'[mem'[dir][TableOf(p)]][PlaceOf(p)]
      BY <2>2 DEF Slot, TableOf, PlaceOf
    <3>3. j # NPTENTRIES
      BY Sizes DEF Entries
    <3>4. CASE TableOf(p) = i
      <4>1. CASE PlaceOf(p) = NPTENTRIES
        BY <1>6, <2>2, <3>2, <3>3, <3>4, <4>1
      <4>2. CASE PlaceOf(p) # NPTENTRIES
        <5>1. PlaceOf(p) \in Entries
          BY <3>1, <4>2, Sizes DEF Entries
        <5>2. Slot(dir, p) = 0
          BY <2>2, <3>4, SlotOf
        <5> QED BY <1>2, <1>6, <2>2, <3>2, <3>4, <4>2, <5>1, <5>2
      <4> QED BY <4>1, <4>2
    <3>5. CASE TableOf(p) # i
      <4>1. mem'[dir][TableOf(p)] = mem[dir][TableOf(p)]
        BY <1>6, <3>1, <3>5
      <4>2. CASE mem[dir][TableOf(p)] = 0 \/ PlaceOf(p) = NPTENTRIES
        BY <2>2, <3>2, <3>5, <4>1, <4>2, SlotOf
      <4>3. CASE ~(mem[dir][TableOf(p)] = 0 \/ PlaceOf(p) = NPTENTRIES)
        <5>1. mem'[mem[dir][TableOf(p)]] = mem[mem[dir][TableOf(p)]]
          BY <1>7, <3>1, <4>3
        <5>2. Slot(dir, p) = mem[mem[dir][TableOf(p)]][PlaceOf(p)]
          BY <2>2, <4>3, SlotOf
        <5> QED BY <3>2, <3>5, <4>1, <4>3, <5>1, <5>2
      <4> QED BY <4>2, <4>3
    <3> QED BY <3>4, <3>5
  <2> QED BY <2>1, <2>2
<1>9. \A p \in 0..LastSlot : Slot(dir, p) # page /\ Slot(dir, p) # table
  BY <1>2 DEF Owned
<1>10. ASSUME NEW p \in 0..LastSlot, NEW q \in 0..LastSlot,
              Slot(dir, p)' \in {page, table}, Slot(dir, q)' = Slot(dir, p)'
       PROVE  q = p
  <2>1. TableOf(p) = i /\ TableOf(q) = i /\ PlaceOf(p) = PlaceOf(q)
    BY <1>8, <1>9, <1>10
  <2>2. p \in Nat /\ q \in Nat
    BY Sizes
  <2> QED BY <2>1, <2>2, OnePlace
<1>11. \A p \in 0..LastSlot : Slot(dir, p)' = Slot(dir, p) \/ Slot(dir, p)' \in {page, table}
  BY <1>8
<1>12. Owned(dir, 0, freelist \cup {task})'
  <2>1. PICK X : X = {page, table}
    OBVIOUS
  <2>2. X \subseteq freelist /\ freelist' = freelist \ X
    BY <2>1
  <2>3. /\ \A p \in 0..LastSlot : Slot(dir, p)' = Slot(dir, p) \/ Slot(dir, p)' \in X
        /\ \A p, q \in 0..LastSlot : Slot(dir, p)' \in X /\ Slot(dir, q)' = Slot(dir, p)' => q = p
    BY <1>10, <1>11, <2>1
  <2> QED BY <2>2, <2>3, OwnedFilled
<1>13. Slot(dir, EntrySlot(i, j))' # 0
  <2>1. j \in 0..NPTENTRIES
    BY Sizes DEF Entries
  <2>2. PICK p \in 0..LastSlot : /\ p = EntrySlot(i, j) /\ p # LastSlot
                                /\ TableOf(p) = i /\ PlaceOf(p) = j
    BY <2>1, PlaceOfEntry
  <2>3. Slot(dir, p)' # 0
    BY <1>2, <1>8, <2>2
  <2> QED BY <2>2, <2>3
<1>14. SlotsKept(dir)
  BY <1>2, <1>8 DEF SlotsKept
<1>15. TableAdded(dir, i, j, page, table)
  BY <1>8, AtEntry DEF TableAdded
<1> QED BY <1>5, <1>12, <1>13, <1>14, <1>15

\* What walkpgdir finds is what is at the page's place.
LEMMA WalkIsSlot ==
    ASSUME NEW dir, NEW i \in 0..(NPDES - 1), NEW j \in Entries
    PROVE  Slot(dir, EntrySlot(i, j)) = IF mem[dir][i] = 0 THEN 0 ELSE mem[mem[dir][i]][j]
<1>1. j \in 0..NPTENTRIES /\ j # NPTENTRIES
  BY Sizes DEF Entries
<1>2. PICK p \in 0..LastSlot : /\ p = EntrySlot(i, j) /\ p # LastSlot
                              /\ TableOf(p) = i /\ PlaceOf(p) = j
  BY <1>1, PlaceOfEntry
<1>3. Slot(dir, p) = IF mem[dir][i] = 0 THEN 0 ELSE mem[mem[dir][i]][j]
  BY <1>1, <1>2, SlotOf
<1> QED BY <1>2, <1>3

LEMMA WalkIsSlotNext ==
    ASSUME NEW dir, NEW i \in 0..(NPDES - 1), NEW j \in Entries
    PROVE  Slot(dir, EntrySlot(i, j))' = IF mem'[dir][i] = 0 THEN 0 ELSE mem'[mem'[dir][i]][j]
<1>1. j \in 0..NPTENTRIES /\ j # NPTENTRIES
  BY Sizes DEF Entries
<1>2. PICK p \in 0..LastSlot : /\ p = EntrySlot(i, j) /\ p # LastSlot
                              /\ TableOf(p) = i /\ PlaceOf(p) = j
  BY <1>1, PlaceOfEntry
<1>3. Slot(dir, p)' = IF mem'[dir][i] = 0 THEN 0 ELSE mem'[mem'[dir][i]][j]
  BY <1>1, <1>2 DEF Slot, TableOf, PlaceOf
<1> QED BY <1>2, <1>3

LEMMA WalkAt ==
    ASSUME NEW dir, NEW n, NEW i \in 0..(NPDES - 1), NEW j \in Entries,
           i = n \div NPTENTRIES, j = n % NPTENTRIES
    PROVE  walkpgdir(dir, n) = Slot(dir, EntrySlot(i, j))
BY WalkIsSlot DEF walkpgdir

LEMMA WalkAtNext ==
    ASSUME NEW dir, NEW n, NEW i \in 0..(NPDES - 1), NEW j \in Entries,
           i = n \div NPTENTRIES, j = n % NPTENTRIES
    PROVE  walkpgdir(dir, n)' = Slot(dir, EntrySlot(i, j))'
BY WalkIsSlotNext DEF walkpgdir

\* One turn of allocuvm's loop takes a page, and a table when the directory has none.
LEMMA MappagesFills ==
    ASSUME MemOK, NEW dir \in Frames, NEW task, task \notin freelist,
           Owned(dir, 0, freelist \cup {task}),
           NEW n \in Nat, NEW i \in 0..(NPDES - 1), NEW j \in Entries,
           i = n \div NPTENTRIES, j = n % NPTENTRIES, mappages(dir, n)
    PROVE  /\ MemOK' /\ Owned(dir, 0, freelist \cup {task})'
           /\ SlotsKept(dir)
           /\ Slot(dir, EntrySlot(i, j))' # 0
           /\ FramesTaken(dir, i, j)
<1>1. PICK table : table = mem[dir][i]
  OBVIOUS
<1>2. PICK page \in HeadOf(freelist) :
          IF table # 0 THEN MapInTable(table, n, page)
          ELSE \E new \in HeadOf(freelist \ {page}) : MapInNewTable(dir, n, page, new)
  BY <1>1 DEF mappages
<1>3. page \in freelist /\ \A new \in HeadOf(freelist \ {page}) : new \in freelist /\ new # page
  <2>1. freelist \in SUBSET Frames /\ freelist \ {page} \in SUBSET Frames
    BY DEF MemOK
  <2> QED BY <2>1, MemoryAssumption
<1>4. CASE table # 0
  <2>1. /\ freelist' = freelist \ {page}
        /\ mem' = [mem EXCEPT ![page] = Zeroed, ![table][j] = page]
    BY <1>2, <1>4 DEF MapInTable
  <2>2. /\ MemOK' /\ Owned(dir, 0, freelist \cup {task})'
        /\ SlotsKept(dir)
        /\ Slot(dir, EntrySlot(i, j))' # 0 /\ PageAdded(dir, i, j, page)
    BY <1>1, <1>3, <1>4, <2>1, OldTable
  <2> QED BY <1>1, <1>3, <1>4, <2>1, <2>2 DEF FramesTaken
<1>5. CASE table = 0
  <2>1. PICK new \in HeadOf(freelist \ {page}) : MapInNewTable(dir, n, page, new)
    BY <1>2, <1>5
  <2>2. new \in freelist /\ new # page /\ InNewTable(dir, i, j, page, new)
    BY <1>3, <2>1 DEF MapInNewTable, InNewTable
  <2>3. mem[dir][i] = 0
    BY <1>1, <1>5
  <2>4. /\ MemOK' /\ Owned(dir, 0, freelist \cup {task})'
        /\ SlotsKept(dir)
        /\ Slot(dir, EntrySlot(i, j))' # 0 /\ TableAdded(dir, i, j, page, new)
    BY <1>3, <2>2, <2>3, NewTable
  <2>5. freelist' = freelist \ {page, new}
    BY <2>2 DEF InNewTable
  <2> QED BY <1>1, <1>3, <1>5, <2>2, <2>4, <2>5 DEF FramesTaken
<1> QED BY <1>4, <1>5

LEMMA MappagesKeeps ==
    ASSUME MemOK, NEW dir \in Frames, NEW task, task \notin freelist,
           Owned(dir, 0, freelist \cup {task}),
           NEW n \in Nat, n < NPDES * NPTENTRIES, mappages(dir, n)
    PROVE  /\ MemOK' /\ Owned(dir, 0, freelist \cup {task})' /\ freelist' \subseteq freelist
           /\ walkpgdir(dir, n)' # 0
           /\ \A q \in Nat : q < NPDES * NPTENTRIES /\ walkpgdir(dir, q) # 0 => walkpgdir(dir, q)' # 0
<1>1. PICK i \in 0..(NPDES - 1), j \in Entries : i = n \div NPTENTRIES /\ j = n % NPTENTRIES
  BY UserPage
<1>2. /\ MemOK' /\ Owned(dir, 0, freelist \cup {task})'
      /\ SlotsKept(dir)
      /\ Slot(dir, EntrySlot(i, j))' # 0
  BY <1>1, MappagesFills
<1>3. freelist' \subseteq freelist
  <2>1. FramesTaken(dir, i, j)
    BY <1>1, MappagesFills
  <2> QED BY <2>1 DEF FramesTaken
<1>4. walkpgdir(dir, n)' # 0
  BY <1>1, <1>2, WalkAtNext
<1>5. ASSUME NEW q \in Nat, q < NPDES * NPTENTRIES, walkpgdir(dir, q) # 0
      PROVE  walkpgdir(dir, q)' # 0
  <2>1. PICK k \in 0..(NPDES - 1), l \in Entries : k = q \div NPTENTRIES /\ l = q % NPTENTRIES
    BY <1>5, UserPage
  <2>2. EntrySlot(k, l) \in 0..LastSlot
    <3>1. l \in 0..NPTENTRIES
      BY Sizes DEF Entries
    <3> QED BY <3>1, PlaceOfEntry
  <2>3. Slot(dir, EntrySlot(k, l)) # 0
    BY <1>5, <2>1, WalkAt
  <2>4. Slot(dir, EntrySlot(k, l))' # 0
    BY <1>2, <2>2, <2>3 DEF SlotsKept
  <2> QED BY <2>1, <2>4, WalkAtNext
<1> QED BY <1>2, <1>3, <1>4, <1>5

-----------------------------------------------------------------------------
(* What a turn maps, counts and covers                                       *)

\* The page tables an address space may still need.
MissingTables(dir) == {i \in 0..(NPDES - 1) : mem[dir][i] = 0}

\* Every frame is taken or, from place lo on, in dir's address space.
Covered(dir, lo, taken) ==
    \A f \in Frames : f \in taken \/ \E p \in lo..LastSlot : Slot(dir, p) = f

LEMMA TableIsThereNext ==
    ASSUME NEW dir, NEW i \in 0..(NPDES - 1)
    PROVE  Slot(dir, TableSlot(i))' = mem'[dir][i]
<1>1. /\ TableSlot(i) # LastSlot
      /\ TableSlot(i) \div (NPTENTRIES + 1) = i /\ TableSlot(i) % (NPTENTRIES + 1) = NPTENTRIES
  BY TableSlots DEF TableOf, PlaceOf
<1> QED BY <1>1 DEF Slot

\* Two user pages do not share a place, and no page is at the place of a table.
LEMMA PagePlaces ==
    ASSUME NEW i \in 0..(NPDES - 1), NEW j \in Entries, NEW k \in 0..(NPDES - 1), NEW l \in Entries
    PROVE  /\ EntrySlot(i, j) \in 0..LastSlot /\ TableSlot(i) \in 0..LastSlot
           /\ EntrySlot(i, j) = EntrySlot(k, l) => i = k /\ j = l
           /\ EntrySlot(i, j) # TableSlot(k)
           /\ TableSlot(i) = TableSlot(k) => i = k
<1>1. /\ j \in 0..NPTENTRIES /\ j # NPTENTRIES /\ l \in 0..NPTENTRIES
  BY Sizes DEF Entries
<1>2. /\ EntrySlot(i, j) \in 0..LastSlot /\ TableOf(EntrySlot(i, j)) = i /\ PlaceOf(EntrySlot(i, j)) = j
      /\ TableOf(EntrySlot(k, l)) = k /\ PlaceOf(EntrySlot(k, l)) = l
  BY <1>1, PlaceOfEntry
<1>3. /\ TableSlot(i) \in 0..LastSlot /\ TableOf(TableSlot(i)) = i
      /\ TableOf(TableSlot(k)) = k /\ PlaceOf(TableSlot(k)) = NPTENTRIES
  BY TableSlots
<1> QED BY <1>1, <1>2, <1>3

\* A turn maps its own page and no other.
LEMMA TurnMaps ==
    ASSUME NEW dir, NEW n \in Nat, NEW i \in 0..(NPDES - 1), NEW j \in Entries,
           i = n \div NPTENTRIES, j = n % NPTENTRIES, FramesTaken(dir, i, j),
           NEW q \in Nat, q < NPDES * NPTENTRIES, walkpgdir(dir, q)' # 0
    PROVE  walkpgdir(dir, q) # 0 \/ q = n
<1>1. PICK k \in 0..(NPDES - 1), l \in Entries : k = q \div NPTENTRIES /\ l = q % NPTENTRIES
  BY UserPage
<1>2. walkpgdir(dir, q) = Slot(dir, EntrySlot(k, l)) /\ Slot(dir, EntrySlot(k, l))' # 0
  BY <1>1, WalkAt, WalkAtNext
<1>3. CASE EntrySlot(k, l) = EntrySlot(i, j)
  <2>1. k = i /\ l = j
    BY <1>3, PagePlaces
  <2>2. n = (n \div NPTENTRIES) * NPTENTRIES + (n % NPTENTRIES)
    BY Sizes, Quotients
  <2>3. q = (q \div NPTENTRIES) * NPTENTRIES + (q % NPTENTRIES)
    BY Sizes, Quotients
  <2> QED BY <1>1, <2>1, <2>2, <2>3
<1>4. CASE EntrySlot(k, l) # EntrySlot(i, j)
  <2>1. EntrySlot(k, l) \in 0..LastSlot /\ EntrySlot(k, l) # TableSlot(i)
    BY PagePlaces
  <2>2. Slot(dir, EntrySlot(k, l))' = Slot(dir, EntrySlot(k, l))
    BY <1>4, <2>1 DEF FramesTaken, PageAdded, TableAdded
  <2> QED BY <1>2, <2>2
<1> QED BY <1>3, <1>4

\* A turn for a page that was not mapped loses no frame.
LEMMA TurnCovers ==
    ASSUME NEW dir, NEW task, NEW i \in 0..(NPDES - 1), NEW j \in Entries,
           FramesTaken(dir, i, j), Slot(dir, EntrySlot(i, j)) = 0,
           Covered(dir, 0, freelist \cup {task})
    PROVE  Covered(dir, 0, freelist \cup {task})'
<1>1. EntrySlot(i, j) \in 0..LastSlot /\ TableSlot(i) \in 0..LastSlot /\ EntrySlot(i, j) # TableSlot(i)
  BY PagePlaces
<1>2. Slot(dir, TableSlot(i)) = mem[dir][i]
  BY TableIsThere
<1> SUFFICES ASSUME NEW f \in Frames, f \notin freelist' \cup {task}
             PROVE  \E p \in 0..LastSlot : Slot(dir, p)' = f
  BY DEF Covered
<1>3. f # 0
  BY DEF Frames
<1>4. ASSUME NEW page \in freelist, freelist' = freelist \ {page}, PageAdded(dir, i, j, page)
      PROVE  \E p \in 0..LastSlot : Slot(dir, p)' = f
  <2>1. Slot(dir, EntrySlot(i, j))' = page
    BY <1>1, <1>4 DEF PageAdded
  <2>2. CASE f = page
    BY <1>1, <2>1, <2>2
  <2>3. CASE f # page
    <3>1. PICK p \in 0..LastSlot : Slot(dir, p) = f
      BY <1>4, <2>3 DEF Covered
    <3>2. Slot(dir, p)' = f
      BY <1>3, <1>4, <3>1 DEF PageAdded
    <3> QED BY <3>2
  <2> QED BY <2>2, <2>3
<1>5. ASSUME NEW page \in freelist, NEW table \in freelist \ {page}, mem[dir][i] = 0,
             freelist' = freelist \ {page, table}, TableAdded(dir, i, j, page, table)
      PROVE  \E p \in 0..LastSlot : Slot(dir, p)' = f
  <2>1. Slot(dir, EntrySlot(i, j))' = page /\ Slot(dir, TableSlot(i))' = table
    BY <1>1, <1>5 DEF TableAdded
  <2>2. CASE f \in {page, table}
    BY <1>1, <2>1, <2>2
  <2>3. CASE f \notin {page, table}
    <3>1. PICK p \in 0..LastSlot : Slot(dir, p) = f
      BY <1>5, <2>3 DEF Covered
    <3>2. Slot(dir, p)' = f
      BY <1>2, <1>3, <1>5, <3>1 DEF TableAdded
    <3> QED BY <3>2
  <2> QED BY <2>2, <2>3
<1> QED BY <1>4, <1>5 DEF FramesTaken

LEMMA FramesFinite ==
    /\ IsFiniteSet(Frames) /\ Cardinality(Frames) = NFRAMES
    /\ \A S \in SUBSET Frames : IsFiniteSet(S) /\ Cardinality(S) \in Nat
<1>1. IsFiniteSet(Frames) /\ Cardinality(Frames) = NFRAMES
  BY Sizes, FS_Interval DEF Frames
<1>2. ASSUME NEW S \in SUBSET Frames PROVE IsFiniteSet(S) /\ Cardinality(S) \in Nat
  BY <1>1, FS_Subset, FS_CardinalityType
<1> QED BY <1>1, <1>2

LEMMA TablesFinite ==
    ASSUME NEW S \in SUBSET (0..(NPDES - 1))
    PROVE  IsFiniteSet(S) /\ Cardinality(S) \in 0..NPDES /\ (S = {} <=> Cardinality(S) = 0)
<1>1. IsFiniteSet(0..(NPDES - 1)) /\ Cardinality(0..(NPDES - 1)) = NPDES
  BY Sizes, FS_Interval
<1>2. IsFiniteSet(S) /\ Cardinality(S) <= NPDES
  BY <1>1, FS_Subset
<1>3. Cardinality(S) \in Nat
  BY <1>2, FS_CardinalityType
<1>4. S = {} <=> Cardinality(S) = 0
  BY <1>2, FS_EmptySet
<1> QED BY <1>2, <1>3, <1>4, Sizes

LEMMA MissingFinite ==
    ASSUME NEW dir
    PROVE  /\ IsFiniteSet(MissingTables(dir)) /\ Cardinality(MissingTables(dir)) \in 0..NPDES
           /\ MissingTables(dir) = {} <=> Cardinality(MissingTables(dir)) = 0
<1>1. MissingTables(dir) \in SUBSET (0..(NPDES - 1))
  BY DEF MissingTables
<1> QED BY <1>1, TablesFinite

\* A turn takes one frame, and one more when it makes a table that was missing.
LEMMA TurnCounts ==
    ASSUME MemOK, NEW dir, NEW i \in 0..(NPDES - 1), NEW j \in Entries, FramesTaken(dir, i, j)
    PROVE  Cardinality(freelist') - Cardinality(MissingTables(dir)')
               = (Cardinality(freelist) - Cardinality(MissingTables(dir))) - 1
<1>1. IsFiniteSet(freelist) /\ Cardinality(freelist) \in Nat
  BY FramesFinite DEF MemOK
<1>2. IsFiniteSet(MissingTables(dir)) /\ Cardinality(MissingTables(dir)) \in Nat
  BY MissingFinite
<1>3. \A k \in 0..(NPDES - 1) :
          /\ Slot(dir, TableSlot(k)) = mem[dir][k] /\ Slot(dir, TableSlot(k))' = mem'[dir][k]
          /\ TableSlot(k) \in 0..LastSlot /\ TableSlot(k) # EntrySlot(i, j)
          /\ TableSlot(k) = TableSlot(i) => k = i
  BY TableIsThere, TableIsThereNext, PagePlaces
<1>4. ASSUME NEW page \in freelist, freelist' = freelist \ {page}, PageAdded(dir, i, j, page)
      PROVE  Cardinality(freelist') - Cardinality(MissingTables(dir)')
                 = (Cardinality(freelist) - Cardinality(MissingTables(dir))) - 1
  <2>1. \A k \in 0..(NPDES - 1) : mem'[dir][k] = mem[dir][k]
    BY <1>3, <1>4 DEF PageAdded
  <2>2. MissingTables(dir)' = MissingTables(dir)
    BY <2>1 DEF MissingTables
  <2>3. Cardinality(freelist') = Cardinality(freelist) - 1
    BY <1>1, <1>4, FS_RemoveElement
  <2> QED BY <1>1, <1>2, <2>2, <2>3
<1>5. ASSUME NEW page \in freelist, NEW table \in freelist \ {page}, mem[dir][i] = 0,
             freelist' = freelist \ {page, table}, TableAdded(dir, i, j, page, table)
      PROVE  Cardinality(freelist') - Cardinality(MissingTables(dir)')
                 = (Cardinality(freelist) - Cardinality(MissingTables(dir))) - 1
  <2>1. /\ \A k \in 0..(NPDES - 1) : k # i => mem'[dir][k] = mem[dir][k]
        /\ mem'[dir][i] = table
    BY <1>3, <1>5 DEF TableAdded
  <2>2. table # 0
    BY <1>5 DEF MemOK, Frames
  <2>3. MissingTables(dir)' = MissingTables(dir) \ {i} /\ i \in MissingTables(dir)
    BY <1>5, <2>1, <2>2 DEF MissingTables
  <2>4. Cardinality(MissingTables(dir)') = Cardinality(MissingTables(dir)) - 1
    BY <1>2, <2>3, FS_RemoveElement
  <2>5. PICK rest : rest = freelist \ {page}
    OBVIOUS
  <2>6. IsFiniteSet(rest) /\ Cardinality(rest) = Cardinality(freelist) - 1
    BY <1>1, <1>5, <2>5, FS_RemoveElement
  <2>7. freelist' = rest \ {table} /\ table \in rest
    BY <1>5, <2>5
  <2>8. Cardinality(freelist') = Cardinality(rest) - 1
    BY <2>6, <2>7, FS_RemoveElement
  <2> QED BY <1>1, <1>2, <2>4, <2>6, <2>8
<1> QED BY <1>4, <1>5 DEF FramesTaken

\* With more free frames than missing tables, allocuvm finds what it needs.
LEMMA EnoughForTurn ==
    ASSUME MemOK, NEW dir, NEW n \in Nat, n < NPDES * NPTENTRIES,
           Cardinality(freelist) >= Cardinality(MissingTables(dir)) + 1
    PROVE  ~OutOfFrames(dir, n)
<1>1. IsFiniteSet(freelist) /\ Cardinality(freelist) \in Nat
  BY FramesFinite DEF MemOK
<1>2. IsFiniteSet(MissingTables(dir)) /\ Cardinality(MissingTables(dir)) \in Nat
  BY MissingFinite
<1>3. freelist # {}
  BY <1>1, <1>2, FS_EmptySet
<1>4. ASSUME mem[dir][n \div NPTENTRIES] = 0, NEW f \in freelist, freelist = {f}
      PROVE  FALSE
  <2>1. n \div NPTENTRIES \in MissingTables(dir)
    BY <1>4, UserPage DEF MissingTables
  <2>2. Cardinality(MissingTables(dir)) # 0
    BY <2>1, MissingFinite
  <2>3. Cardinality(freelist) = 1
    BY <1>4, FS_Singleton
  <2> QED BY <1>2, <2>2, <2>3
<1> QED BY <1>3, <1>4 DEF OutOfFrames

-----------------------------------------------------------------------------
(* A new directory, and giving one back                                      *)

LEMMA NewDirectory ==
    ASSUME MemOK, NEW dir \in freelist, NEW task, task \notin freelist,
           freelist' = freelist \ {dir}, mem' = [mem EXCEPT ![dir] = Zeroed]
    PROVE  /\ MemOK' /\ dir \in Frames /\ Owned(dir, 0, freelist \cup {task})'
           /\ \A p \in 0..LastSlot : Slot(dir, p)' = IF p = LastSlot THEN dir ELSE 0
<1>1. dir \in Frames /\ mem'[dir] = Zeroed /\ 0..(NPDES - 1) \subseteq Entries
  BY Sizes DEF MemOK, Entries
<1>2. MemOK'
  BY EntryTypes DEF MemOK
<1>3. ASSUME NEW p \in 0..LastSlot, p # LastSlot PROVE Slot(dir, p)' = 0
  <2>1. mem'[dir][TableOf(p)] = 0
    BY <1>1, <1>3, Places, EntryTypes
  <2> QED BY <1>3, <2>1 DEF Slot, TableOf, PlaceOf
<1>4. Slot(dir, LastSlot)' = dir
  BY DEF Slot
<1>5. Owned(dir, 0, freelist \cup {task})'
  BY <1>3, <1>4 DEF Owned
<1> QED BY <1>1, <1>2, <1>3, <1>4, <1>5

\* freevm reads a table before it gives it back, and no page before its table is
\* read: what it gives back has no part in what is still to come.
LEMMA FreeingKeeps ==
    ASSUME MemOK, NEW dir \in Frames, NEW task, NEW lo \in 0..LastSlot,
           Owned(dir, lo, freelist \cup {task}),
           IF Slot(dir, lo) = 0 THEN UNCHANGED memory ELSE kfree(Slot(dir, lo))
    PROVE  /\ MemOK' /\ Owned(dir, lo + 1, freelist \cup {task})'
           /\ freelist' = IF Slot(dir, lo) = 0 THEN freelist ELSE freelist \cup {Slot(dir, lo)}
           /\ \A p \in (lo + 1)..LastSlot : Slot(dir, p)' = Slot(dir, p)
<1>1. lo \in Nat /\ (lo + 1)..LastSlot \subseteq lo..LastSlot /\ lo \notin (lo + 1)..LastSlot
      /\ lo \in lo..LastSlot
  BY Sizes
<1>2. Slot(dir, lo) \in 0..NFRAMES
  <2>1. CASE lo = LastSlot
    BY <2>1, SlotOf, Sizes DEF Frames
  <2>2. CASE lo # LastSlot
    <3>1. TableOf(lo) \in 0..(NPDES - 1) /\ PlaceOf(lo) \in 0..NPTENTRIES
      BY <2>2, Places
    <3>2. mem[dir][TableOf(lo)] \in 0..NFRAMES
      <4>1. TableOf(lo) \in Entries
        BY <3>1, Sizes DEF Entries
      <4> QED BY <4>1 DEF MemOK
    <3>3. ASSUME mem[dir][TableOf(lo)] # 0, PlaceOf(lo) # NPTENTRIES
          PROVE  mem[mem[dir][TableOf(lo)]][PlaceOf(lo)] \in 0..NFRAMES
      <4>1. mem[dir][TableOf(lo)] \in Frames
        BY <3>2, <3>3, Sizes DEF Frames
      <4>2. PlaceOf(lo) \in Entries
        BY <3>1, <3>3, Sizes DEF Entries
      <4> QED BY <4>1, <4>2 DEF MemOK
    <3> QED BY <2>2, <3>2, <3>3, SlotOf
  <2> QED BY <2>1, <2>2
<1>3. CASE Slot(dir, lo) = 0
  <2>1. UNCHANGED <<freelist, mem>>
    BY <1>3 DEF memory
  <2>2. MemOK'
    BY <2>1 DEF MemOK
  <2>3. \A p : Slot(dir, p)' = Slot(dir, p)
    BY <2>1 DEF Slot
  <2> QED BY <1>1, <1>3, <2>1, <2>2, <2>3 DEF Owned
<1>4. CASE Slot(dir, lo) # 0
  <2>1. PICK f \in Frames : f = Slot(dir, lo)
    BY <1>2, <1>4, Sizes DEF Frames
  <2>2. freelist' = freelist \cup {f} /\ mem' = [mem EXCEPT ![f] = Junk]
    BY <1>4, <2>1 DEF kfree
  <2>3. MemOK'
    BY <2>2, EntryTypes DEF MemOK
  <2>4. \A g \in Frames : g # f => mem'[g] = mem[g]
    BY <2>2 DEF MemOK
  <2>5. \A p \in (lo + 1)..LastSlot : Slot(dir, p) # f
    BY <1>1, <1>4, <2>1 DEF Owned
  <2>6. ASSUME NEW p \in (lo + 1)..LastSlot PROVE Slot(dir, p)' = Slot(dir, p)
    <3>1. p \in 0..LastSlot
      BY <1>1
    <3>2. CASE p = LastSlot
      BY <3>2 DEF Slot
    <3>3. CASE p # LastSlot
      <4>1. /\ TableOf(p) \in 0..(NPDES - 1) /\ p <= TableSlot(TableOf(p))
            /\ TableSlot(TableOf(p)) \in 0..LastSlot
            /\ Slot(dir, TableSlot(TableOf(p))) = mem[dir][TableOf(p)]
        BY <3>1, <3>3, Places, PagesBeforeTable, TableSlots, TableIsThere
      <4>2. TableSlot(TableOf(p)) \in (lo + 1)..LastSlot /\ LastSlot \in (lo + 1)..LastSlot
        BY <1>1, <4>1, Sizes
      <4>3. mem[dir][TableOf(p)] # f /\ dir # f
        BY <2>5, <4>1, <4>2, SlotOf, Sizes
      <4>4. mem'[dir] = mem[dir]
        BY <2>4, <4>3
      <4>5. mem[dir][TableOf(p)] # 0 => mem'[mem[dir][TableOf(p)]] = mem[mem[dir][TableOf(p)]]
        <5>1. TableOf(p) \in Entries
          BY <4>1, Sizes DEF Entries
        <5>2. mem[dir][TableOf(p)] # 0 => mem[dir][TableOf(p)] \in Frames
          BY <5>1, Sizes DEF MemOK, Frames
        <5> QED BY <2>4, <4>3, <5>2
      <4>6. Slot(dir, p)' = IF mem'[dir][TableOf(p)] = 0 \/ PlaceOf(p) = NPTENTRIES THEN mem'[dir][TableOf(p)]
                            ELSE mem'[mem'[dir][TableOf(p)]][PlaceOf(p)]
        BY <3>3 DEF Slot, TableOf, PlaceOf
      <4> QED BY <3>1, <3>3, <4>4, <4>5, <4>6, SlotOf
    <3> QED BY <3>2, <3>3
  <2>7. Owned(dir, lo + 1, freelist \cup {task})'
    BY <1>1, <2>2, <2>5, <2>6 DEF Owned
  <2> QED BY <1>4, <2>1, <2>2, <2>3, <2>6, <2>7
<1> QED BY <1>3, <1>4

\* A new directory maps nothing, and may need every table.
LEMMA DirectoryEmpty ==
    ASSUME NEW dir, \A p \in 0..LastSlot : Slot(dir, p)' = IF p = LastSlot THEN dir ELSE 0
    PROVE  /\ \A q \in Nat : q < NPDES * NPTENTRIES => walkpgdir(dir, q)' = 0
           /\ Cardinality(MissingTables(dir)') \in 0..NPDES
<1>1. ASSUME NEW q \in Nat, q < NPDES * NPTENTRIES PROVE walkpgdir(dir, q)' = 0
  <2>1. PICK k \in 0..(NPDES - 1), l \in Entries : k = q \div NPTENTRIES /\ l = q % NPTENTRIES
    BY <1>1, UserPage
  <2>2. EntrySlot(k, l) \in 0..LastSlot /\ EntrySlot(k, l) # LastSlot
    <3>1. l \in 0..NPTENTRIES
      BY Sizes DEF Entries
    <3> QED BY <3>1, PlaceOfEntry
  <2> QED BY <2>1, <2>2, WalkAtNext
<1>2. MissingTables(dir)' \in SUBSET (0..(NPDES - 1))
  BY DEF MissingTables
<1> QED BY <1>1, <1>2, TablesFinite

\* What freevm gives back is free, and what is still to come stays where it is.
LEMMA FreeingCovers ==
    ASSUME NEW dir, NEW task, NEW lo \in 0..LastSlot, Covered(dir, lo, freelist \cup {task}),
           freelist' = IF Slot(dir, lo) = 0 THEN freelist ELSE freelist \cup {Slot(dir, lo)},
           \A p \in (lo + 1)..LastSlot : Slot(dir, p)' = Slot(dir, p)
    PROVE  Covered(dir, lo + 1, freelist \cup {task})'
<1> SUFFICES ASSUME NEW f \in Frames, f \notin freelist' \cup {task}
             PROVE  \E p \in (lo + 1)..LastSlot : Slot(dir, p)' = f
  BY DEF Covered
<1>1. PICK p \in lo..LastSlot : Slot(dir, p) = f
  BY DEF Covered
<1>2. p # lo
  BY <1>1 DEF Frames
<1>3. p \in (lo + 1)..LastSlot
  BY <1>1, <1>2, Sizes
<1> QED BY <1>1, <1>3
=============================================================================
