--------------------------- MODULE HeapAllocator ----------------------------
(***************************************************************************)
(* The kernel heap (allocator.rs): a bump allocator over a static array.   *)
(* Every String, Vec and Box of the kernel, its task stacks, the IDT and   *)
(* the TSS are blocks of it, and dealloc gives nothing back.               *)
(***************************************************************************)
EXTENDS AddressSpace

CONSTANTS
  HeapBase,    \* address of HEAP_MEM.data
  HEAP_SIZE,
  Sizes,       \* layout.size() of the requests; never 0 (GlobalAlloc's contract)
  Aligns       \* layout.align() of the requests

\* The array fits in the address space.
ASSUME HeapAssumption ==
  /\ HeapBase \in Nat /\ HEAP_SIZE \in Nat
  /\ HeapBase + HEAP_SIZE < WORD
  /\ Sizes \subseteq 1..(WORD - 1)
  /\ Aligns \subseteq 1..(WORD - 1)

VARIABLES
  offset,  \* SimpleAllocator.offset
  halted,  \* the kernel panicked: a null result, or an addition overflowed
  blocks,  \* every block handed out since boot
  live     \* those not yet deallocated

heap_vars == <<offset, halted, blocks, live>>

HeapInit ==
  /\ offset = 0
  /\ halted = FALSE
  /\ blocks = {} /\ live = {}

HeapEnd == HeapBase + HEAP_SIZE

AlignUp(addr, align) ==
  IF addr % align = 0 THEN addr ELSE addr + align - (addr % align)

\* Slip: the offset advances by the size alone, not by the padding.
Grant_NoPadding(size, align) ==
  LET start == AlignUp(HeapBase + offset, align)
      b == [start |-> start, size |-> size, align |-> align]
  IN /\ offset' = offset + size
     /\ blocks' = blocks \cup {b}
     /\ live' = live \cup {b}
     /\ UNCHANGED halted

\* A block is handed out.
Grant(size, align) ==
  LET start == AlignUp(HeapBase + offset, align)
      b == [start |-> start, size |-> size, align |-> align]
  IN /\ offset' = start + size - HeapBase
     /\ blocks' = blocks \cup {b}
     /\ live' = live \cup {b}
     /\ UNCHANGED halted

\* null_mut(): every caller is a collection that then calls
\* alloc_error_handler, which panics.
Refuse ==
  /\ halted' = TRUE
  /\ UNCHANGED <<offset, blocks, live>>

\* alloc_start + align - remainder is a plain addition, checked in this build.
AlignmentOverflows(align) ==
  (HeapBase + offset) % align # 0 /\ HeapBase + offset + align >= WORD

\* checked_add gave Some(end) and end is not past the heap.
FitsInHeap(size, align) ==
  LET end == AlignUp(HeapBase + offset, align) + size
  IN end < WORD /\ end <= HeapEnd

alloc ==
  /\ ~halted
  /\ \E size \in Sizes, align \in Aligns :
       \/ /\ AlignmentOverflows(align)
          /\ halted' = TRUE
          /\ UNCHANGED <<offset, blocks, live>>
       \/ ~AlignmentOverflows(align) /\ FitsInHeap(size, align) /\ Grant(size, align)
       \/ ~AlignmentOverflows(align) /\ ~FitsInHeap(size, align) /\ Refuse

\* Slip: an allocator that takes the offset back.
dealloc_Rewind ==
  /\ ~halted
  /\ \E b \in live : live' = live \ {b} /\ offset' = b.start - HeapBase
  /\ UNCHANGED <<halted, blocks>>

dealloc ==
  /\ ~halted
  /\ \E b \in live : live' = live \ {b}
  /\ UNCHANGED <<offset, halted, blocks>>

\* HeapStats.used_bytes, free_bytes and used_percent.
heap_stats ==
  LET used == IF offset < HEAP_SIZE THEN offset ELSE HEAP_SIZE
  IN [used_bytes |-> used, free_bytes |-> HEAP_SIZE - used,
      used_percent |-> IF HEAP_SIZE = 0 THEN 0 ELSE (used * 100) \div HEAP_SIZE]

HeapNext == alloc \/ dealloc

HeapSpec == HeapInit /\ [][HeapNext]_heap_vars

-----------------------------------------------------------------------------
(* Properties *)

Bytes(b) == b.start..(b.start + b.size - 1)

\* The offset never leaves the heap.
HeapTypeOK ==
  /\ offset \in 0..HEAP_SIZE
  /\ halted \in BOOLEAN
  /\ live \subseteq blocks

\* What alloc hands out is usable and nobody else's: it has the alignment asked
\* for, lies in the part of HEAP_MEM that meminfo reports as used, and shares no
\* byte with any earlier block, freed or not.  So no order of the boot's
\* allocations can make the IDT, the TSS stack and the task stacks collide.
BlocksSound ==
  \A b \in blocks :
    /\ b.start % b.align = 0
    /\ Bytes(b) \subseteq HeapBase..(HeapBase + heap_stats.used_bytes - 1)
    /\ \A c \in blocks : b # c => Bytes(b) \cap Bytes(c) = {}

\* dealloc reclaims nothing: a kernel that goes on allocating, as one does that
\* is given commands (evaluate_command builds a String for each), ends in the
\* panic of alloc_error_handler, however much it frees.
RunsOut == WF_heap_vars(alloc) => <>halted
=============================================================================
