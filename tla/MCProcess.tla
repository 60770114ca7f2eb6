----------------------------- MODULE MCProcess ------------------------------
(* A small machine for Process: pages of two bytes, two page tables of four  *)
(* entries, the image from page 1 and the stack in pages 5 and 6.            *)
EXTENDS Process

Segment(vaddr, memsz, load) == [vaddr |-> vaddr, memsz |-> memsz, load |-> load]

\* One page; a file whose .bss reaches into the next pages; an odd size with a
\* segment that is not loaded.
Tiny == [size |-> 2, segments |-> {Segment(2, 2, TRUE)}]
WithBss == [size |-> 3, segments |-> {Segment(2, 1, TRUE), Segment(4, 4, TRUE)}]
WithNote == [size |-> 1, segments |-> {Segment(12, 2, FALSE), Segment(2, 0, TRUE)}]
\* A directory slot with no bytes; an image that is linked above the stack.
Empty == [size |-> 0, segments |-> {}]
AboveStack == [size |-> 2, segments |-> {Segment(10, 4, TRUE)}]
\* More image than memory.
Big == [size |-> 2, segments |-> {Segment(2, 8, TRUE)}]

GoodFiles == {Tiny, WithBss, WithNote}
FailingFiles == {Tiny, WithBss, Empty, Big, AboveStack}
KernelFile == {Tiny, AboveStack}
\* The frames are interchangeable: one order of the free list stands for all.
Lowest(S) == IF S = {} THEN {} ELSE {Min(S)}

SourceOrder == {FALSE}
BuiltOrder == {TRUE}
AnyOrder == {TRUE, FALSE}
=============================================================================
