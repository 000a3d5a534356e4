--------------------------- MODULE FrameAllocator ---------------------------
(***************************************************************************)
(* The physical frame allocator (BumpAllocator of memory.rs).  It walks    *)
(* the memory map the boot loader left and hands out the page frames of    *)
(* the available regions in order, except the first megabyte and the       *)
(* kernel image.  Regions are 64-bit, frames are 32-bit addresses.         *)
(***************************************************************************)
EXTENDS AddressSpace, Sequences

CONSTANTS
  LOW_MEMORY_RESERVED_END,
  KernelStart, KernelEnd,    \* _kernel_start and _kernel_end of link.ld
  MaxRegions, Bases, Lengths \* the memory maps: how many regions, which ones

None == -1

\* One region of a memory map (MemoryMapEntry).
Regions == [base : Bases, length : Lengths, available : BOOLEAN]

RegionBytes(r) == r.base..(r.base + r.length - 1)

\* The maps a boot loader may leave: regions do not overlap.
IsMap(m) ==
  \A i, j \in DOMAIN m : i # j => RegionBytes(m[i]) \cap RegionBytes(m[j]) = {}

ASSUME FrameAssumption ==
  /\ LOW_MEMORY_RESERVED_END \in Nat /\ LOW_MEMORY_RESERVED_END <= WORD - PAGE_SIZE
  /\ KernelStart \in Nat /\ KernelEnd \in Nat
  /\ KernelStart <= KernelEnd /\ KernelEnd <= WORD - PAGE_SIZE
  /\ Bases \subseteq Nat /\ Lengths \subseteq Nat \ {0}

VARIABLES
  mmap,            \* the memory map, read-only
  current_mmap,    \* index of the region current_mmap_offset points to
  next_free_frame, \* next candidate in that region, or None
  frame,           \* what the last call returned, None before the first
  given,           \* the frames of the calls before it
  outcome          \* "ok", "none" (out of memory) or "panic"

frames_vars == <<mmap, current_mmap, next_free_frame, frame, given, outcome>>

FramesInit ==
  /\ mmap \in {m \in UNION {[1 .. n -> Regions] : n \in 0 .. MaxRegions} : IsMap(m)}
  /\ current_mmap = 1
  /\ next_free_frame = None
  /\ frame = None
  /\ given = {}
  /\ outcome = "ok"

-----------------------------------------------------------------------------

align_up(value, align) ==
  IF value % align = 0 THEN value ELSE value + align - (value % align)

\* u32::saturating_add
SaturatingAdd(a, b) == IF a + b < WORD THEN a + b ELSE WORD - 1

region == mmap[current_mmap]
region_end == region.base + region.length

allocation_floor ==
  IF region.base > LOW_MEMORY_RESERVED_END THEN region.base ELSE LOW_MEMORY_RESERVED_END

\* The region has nothing to hand out.
Skipped ==
  \/ ~region.available
  \/ allocation_floor >= region_end
  \/ allocation_floor > WORD - 1

kernel_end_aligned == align_up(KernelEnd, PAGE_SIZE)

\* Where the search in this region stands ("as u32" keeps the low 32 bits).
start_candidate ==
  IF next_free_frame = None
  THEN align_up(allocation_floor, PAGE_SIZE) % WORD
  ELSE next_free_frame

\* Slip: the kernel image is not skipped.
candidate_IntoKernel == start_candidate

\* Past the kernel image, if the candidate touches it.
candidate ==
  IF /\ start_candidate < kernel_end_aligned
     /\ SaturatingAdd(start_candidate, PAGE_SIZE) > KernelStart
  THEN kernel_end_aligned
  ELSE start_candidate

\* Slip: the last frame of a region is left out.
FrameFits_Strict ==
  LET frame_end == SaturatingAdd(candidate, PAGE_SIZE)
  IN frame_end < region_end /\ frame_end > candidate

FrameFits ==
  LET frame_end == SaturatingAdd(candidate, PAGE_SIZE)
  IN frame_end <= region_end /\ frame_end > candidate

\* Go on with the next entry of the map.
next_region ==
  /\ current_mmap' = current_mmap + 1
  /\ next_free_frame' = None
  /\ UNCHANGED <<mmap, frame, given, outcome>>

\* candidate + PAGE_SIZE is a plain u32 addition; the build checks it.
NextOverflows == candidate + PAGE_SIZE >= WORD

\* The frame is returned.
grant ==
  /\ next_free_frame' = candidate + PAGE_SIZE
  /\ frame' = candidate
  /\ given' = given \cup ({frame} \ {None})
  /\ UNCHANGED <<mmap, current_mmap, outcome>>

\* One pass of the loop of allocate_frame.  Nothing runs between two passes of
\* a call; a call ends with a frame, with None or with a panic.
allocate_frame ==
  /\ outcome = "ok"
  /\ \/ /\ current_mmap > Len(mmap)
        /\ outcome' = "none"
        /\ UNCHANGED <<mmap, current_mmap, next_free_frame, frame, given>>
     \/ /\ current_mmap <= Len(mmap)
        /\ \/ (Skipped \/ ~FrameFits) /\ next_region
           \/ ~Skipped /\ FrameFits /\ ~NextOverflows /\ grant
           \/ /\ ~Skipped /\ FrameFits /\ NextOverflows
              /\ outcome' = "panic"
              /\ UNCHANGED <<mmap, current_mmap, next_free_frame, frame, given>>

FramesNext == allocate_frame

FramesSpec == FramesInit /\ [][FramesNext]_frames_vars

-----------------------------------------------------------------------------
(* Properties *)

Aligned(a) == a % PAGE_SIZE = 0

\* f is a page frame of the available region r, above the first megabyte and
\* outside the kernel image.
UsableIn(f, r) ==
  /\ Aligned(f)
  /\ f >= LOW_MEMORY_RESERVED_END
  /\ f + PAGE_SIZE <= KernelStart \/ KernelEnd <= f
  /\ r.available /\ r.base <= f /\ f + PAGE_SIZE <= r.base + r.length

Usable(f) == \E i \in DOMAIN mmap : UsableIn(f, mmap[i])

\* No region starts inside the last page below 2^32: rounded up, such a start is
\* 2^32, and "as u32" turns it into address 0.
NoneCut(m) ==
  \A i \in DOMAIN m : m[i].base <= WORD - PAGE_SIZE \/ m[i].base >= WORD

\* The walk stays within the map, and a candidate is an address.
FramesTypeOK ==
  /\ mmap \in Seq(Regions) /\ IsMap(mmap)
  /\ current_mmap \in 1..(Len(mmap) + 1)
  /\ next_free_frame \in {None} \cup 0..(WORD - 1)
  /\ frame \in {None} \cup 0..(WORD - 1)
  /\ given \subseteq 0..(WORD - 1)
  /\ outcome \in {"ok", "none", "panic"}

\* allocate_frame returns usable frames, and never the same one twice, unless
\* the start of a region is cut to address 0.
FramesAreFresh ==
  NoneCut(mmap) /\ frame # None => Usable(frame) /\ frame \notin given

\* allocate_frame says "Out of memory" only once every usable frame below
\* 2^32 - PAGE_SIZE has been handed out: skipping the kernel image or a
\* region loses none (with the same exception).
NoneMeansExhausted ==
  NoneCut(mmap) /\ outcome = "none" =>
    \A f \in 0..(WORD - 2 * PAGE_SIZE) : Usable(f) => f \in given \cup {frame}

=============================================================================
