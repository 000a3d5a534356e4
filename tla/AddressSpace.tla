---------------------------- MODULE AddressSpace ----------------------------
\* The width of an address and the size of a page, which the heap, the frame
\* allocator and the page tables share.
EXTENDS Integers

CONSTANTS
  PAGE_SIZE, \* bytes of a page and of a page frame: 4096 in the source
  WORD       \* number of values of a u32 or usize: 2^32

\* Pages divide the address space, and there is more than one.
ASSUME AddressAssumption ==
  /\ WORD \in Nat /\ PAGE_SIZE \in 1..(WORD - 1)
  /\ WORD % PAGE_SIZE = 0
=============================================================================
