--------------------------- MODULE HardwareProofs ---------------------------
(***************************************************************************)
(* The components next to the hardware: memory and the keyboard, for every *)
(* size of everything.                                                     *)
(*                                                                         *)
(* Heap: blocks are aligned, lie in the heap and never overlap.  Below is  *)
(* the strengthening that makes disjointness inductive: every block ends   *)
(* at or before the offset.                                                *)
(*                                                                         *)
(* Frames: for every page size, kernel image and memory map no region of   *)
(* which starts in the last page below 4 GiB, the frames handed out are    *)
(* usable and distinct, and none is lost.  The invariant                   *)
(* says how far the walk has come: the frames held are exactly the usable  *)
(* ones behind it, region by region.                                       *)
(*                                                                         *)
(* User memory: the address check of SYS_PRINT and the page tables agree.  *)
(* The arithmetic core is DirectoryEntry, which says which directory entry *)
(* an address selects; the invariant adds what the last system call        *)
(* checked.                                                                *)
(*                                                                         *)
(* Keyboard: the ring buffer of scancodes implements the bounded FIFO, for *)
(* every capacity and every set of scancodes; and through such a queue the *)
(* decoder does what the keys stand for, and recovers from the bytes the   *)
(* queue has dropped.                                                      *)
(***************************************************************************)
EXTENDS Memory, ScancodeQueue, Keyboard, TLAPS

\* An element of a sequence is of the sequence's set.
LEMMA ElementOfSeq ==
  ASSUME NEW S, NEW s \in Seq(S), NEW i \in 1 .. Len(s)
  PROVE  s[i] \in S
  OBVIOUS

\* Sequences with the same elements are equal.
LEMMA SeqEqual ==
  ASSUME NEW S, NEW s \in Seq(S), NEW t \in Seq(S),
         Len(s) = Len(t), \A i \in 1 .. Len(s) : s[i] = t[i]
  PROVE  s = t
  OBVIOUS

\* The elements of a concatenation.
LEMMA ConcatProperties ==
  ASSUME NEW S, NEW s \in Seq(S), NEW t \in Seq(S)
  PROVE  /\ s \o t \in Seq(S)
         /\ Len(s \o t) = Len(s) + Len(t)
         /\ \A i \in 1 .. Len(s) + Len(t) :
              (s \o t)[i] = IF i <= Len(s) THEN s[i] ELSE t[i - Len(s)]
  OBVIOUS

\* Nothing is added by the empty sequence.
LEMMA ConcatEmptySeq ==
  ASSUME NEW S, NEW s \in Seq(S)
  PROVE  s \o << >> = s /\ << >> \o s = s
  OBVIOUS

\* The elements behind the first.
LEMMA HeadTailProperties ==
  ASSUME NEW S, NEW s \in Seq(S), s # << >>
  PROVE  /\ Head(s) \in S
         /\ Tail(s) \in Seq(S)
         /\ Len(Tail(s)) = Len(s) - 1
         /\ \A i \in 1 .. Len(Tail(s)) : Tail(s)[i] = s[i + 1]
  OBVIOUS

\* The elements of a sequence with one more.
LEMMA AppendProperties ==
  ASSUME NEW S, NEW s \in Seq(S), NEW e \in S
  PROVE  /\ Append(s, e) \in Seq(S)
         /\ Len(Append(s, e)) = Len(s) + 1
         /\ \A i \in 1 .. Len(s) : Append(s, e)[i] = s[i]
         /\ Append(s, e)[Len(s) + 1] = e
  OBVIOUS

\* Moving the first element of one sequence to the end of another.
LEMMA HeadMoves ==
  ASSUME NEW S, NEW s \in Seq(S), NEW t \in Seq(S), t # << >>
  PROVE  /\ Append(s, Head(t)) \in Seq(S) /\ <<Head(t)>> \in Seq(S)
         /\ Append(s, Head(t)) = s \o <<Head(t)>>
         /\ Append(s, Head(t)) \o Tail(t) = s \o t
<1>1. Append(s, Head(t)) \in Seq(S) /\ <<Head(t)>> \in Seq(S)
  OBVIOUS
<1>2. Append(s, Head(t)) = s \o <<Head(t)>>
  OBVIOUS
<1>3. Append(s, Head(t)) \o Tail(t) = s \o t
  OBVIOUS
<1> QED BY <1>1, <1>2, <1>3

\* Positions in two runs after one another, of m and n steps.
LEMMA Positions ==
  ASSUME NEW m \in Nat, NEW n \in Nat
  PROVE  /\ 0 \in 0 .. m /\ m + n \in m .. m + n /\ (m + n) - m = n
         /\ \A i \in 1 .. m + n : i <= m => i \in 1 .. m /\ i \in 0 .. m /\ i - 1 \in 0 .. m
         /\ \A i \in 1 .. m + n : ~(i <= m) =>
              /\ i - m \in 1 .. n /\ i \in m .. m + n /\ i - 1 \in m .. m + n
              /\ i \in m + 1 .. m + n /\ (i - 1) - m = (i - m) - 1
  OBVIOUS

\* The runs of k steps, and one run after another.
Walks(S, k) == [0 .. k -> S]
Join(s, m, t, n) == [i \in 0 .. m + n |-> IF i <= m THEN s[i] ELSE t[i - m]]

\* Two runs, the second from where the first ends, are one.
LEMMA Joined ==
  ASSUME NEW S, NEW m \in Nat, NEW n \in Nat,
         NEW s \in Walks(S, m), NEW t \in Walks(S, n), s[m] = t[0]
  PROVE  /\ Join(s, m, t, n) \in Walks(S, m + n)
         /\ \A i \in 0 .. m : Join(s, m, t, n)[i] = s[i]
         /\ \A i \in m .. m + n : Join(s, m, t, n)[i] = t[i - m]
<1>1. Join(s, m, t, n) \in Walks(S, m + n)
  BY DEF Walks, Join
<1>2. \A i \in 0 .. m : Join(s, m, t, n)[i] = s[i]
  BY DEF Join
<1>3. ASSUME NEW i \in m .. m + n PROVE Join(s, m, t, n)[i] = t[i - m]
  <2>1. i \in 0 .. m + n /\ m - m = 0 /\ (i = m \/ ~(i <= m))
    OBVIOUS
  <2>2. CASE i = m
    BY <2>1, <2>2 DEF Join
  <2>3. CASE ~(i <= m)
    BY <2>1, <2>3 DEF Join
  <2> QED BY <2>1, <2>2, <2>3, Zenon
<1> QED BY <1>1, <1>2, <1>3, Zenon

\* What \div and % compute.
LEMMA Division ==
  ASSUME NEW a \in Nat, NEW b \in Nat \ {0}
  PROVE  /\ a \div b \in Nat /\ a % b \in 0..(b - 1)
         /\ a = b * (a \div b) + (a % b)
OBVIOUS

-----------------------------------------------------------------------------
(* The heap *)

\* A block as alloc builds it.
Block(b) ==
  /\ b.start \in Nat /\ b.size \in Nat \ {0} /\ b.align \in Nat \ {0}
  /\ HeapBase <= b.start
  /\ b.start % b.align = 0

\* Every block ends at or before the offset, the next one starts after it.
Below == \A b \in blocks : Block(b) /\ b.start + b.size <= HeapBase + offset

\* No two blocks share a byte.
BlocksDisjoint == \A b, c \in blocks : b # c => Bytes(b) \cap Bytes(c) = {}

HeapIInv == HeapTypeOK /\ Below /\ BlocksDisjoint

\* A multiple of b has remainder 0.
LEMMA Multiple ==
  ASSUME NEW b \in Nat \ {0}, NEW q \in Nat
  PROVE  (b * q) % b = 0
<1> DEFINE a == b * q
           p == a \div b
           r == a % b
<1>1. a \in Nat
  OBVIOUS
<1> HIDE DEF a
<1>2. p \in Nat /\ r \in 0..(b - 1) /\ a = b * p + r
  BY <1>1, Division
<1> HIDE DEF p, r
<1>3. b * q = b * p + r
  BY <1>2 DEF a
<1>4. ~(q < p)
  <2> SUFFICES ASSUME q < p PROVE FALSE
    OBVIOUS
  <2>1. p - q - 1 \in Nat /\ p = q + 1 + (p - q - 1)
    BY <1>2
  <2>2. PICK k \in Nat : p = q + 1 + k
    BY <2>1
  <2>3. b * p = b * q + b + b * k /\ b * k \in Nat /\ b * q \in Nat
    BY <2>2
  <2> QED BY <1>2, <1>3, <2>3
<1>5. ~(p < q)
  <2> SUFFICES ASSUME p < q PROVE FALSE
    OBVIOUS
  <2>1. q - p - 1 \in Nat /\ q = p + 1 + (q - p - 1)
    BY <1>2
  <2>2. PICK k \in Nat : q = p + 1 + k
    BY <2>1
  <2>3. b * q = b * p + b + b * k /\ b * k \in Nat /\ b * p \in Nat
    BY <1>2, <2>2
  <2> QED BY <1>2, <1>3, <2>3
<1>6. p = q
  BY <1>2, <1>4, <1>5
<1>7. r = 0
  BY <1>2, <1>3, <1>6
<1> QED BY <1>7 DEF r, a

\* The align-up of alloc moves up by less than the alignment and aligns.
LEMMA AlignUpAligns ==
  ASSUME NEW addr \in Nat, NEW align \in Nat \ {0}
  PROVE  /\ AlignUp(addr, align) \in Nat
         /\ addr <= AlignUp(addr, align)
         /\ AlignUp(addr, align) % align = 0
<1> DEFINE q == addr \div align
           r == addr % align
<1>1. q \in Nat /\ r \in 0..(align - 1) /\ addr = align * q + r
  BY Division
<1>2. CASE r = 0
  BY <1>2 DEF AlignUp
<1>3. CASE r # 0
  <2>1. AlignUp(addr, align) = addr + align - r
    BY <1>3 DEF AlignUp
  <2> HIDE DEF q, r
  <2>2. addr + align - r = align * (q + 1)
    BY <1>1
  <2>3. (align * (q + 1)) % align = 0
    <3>1. q + 1 \in Nat
      BY <1>1
    <3> QED BY <3>1, Multiple
  <2> QED BY <1>1, <2>1, <2>2, <2>3
<1> QED BY <1>2, <1>3

\* Nothing is handed out yet.
LEMMA HeapInitIInv == HeapInit => HeapIInv
<1> SUFFICES ASSUME HeapInit PROVE HeapIInv
  OBVIOUS
<1>1. HeapTypeOK
  <2>1. offset \in 0..HEAP_SIZE
    BY HeapAssumption DEF HeapInit
  <2>2. halted \in BOOLEAN /\ live \subseteq blocks
    BY Zenon DEF HeapInit
  <2> QED BY <2>1, <2>2, Zenon DEF HeapTypeOK
<1>2. Below /\ BlocksDisjoint
  BY Zenon DEF HeapInit, Below, BlocksDisjoint
<1> QED BY <1>1, <1>2 DEF HeapIInv

\* Granting a block keeps the others below it.
LEMMA HeapGrantKeepsIInv ==
  ASSUME HeapIInv, ~halted, NEW size \in Sizes, NEW align \in Aligns,
         FitsInHeap(size, align), Grant(size, align)
  PROVE  HeapIInv'
<1> DEFINE start == AlignUp(HeapBase + offset, align)
           new == [start |-> start, size |-> size, align |-> align]
<1>1. size \in Nat \ {0} /\ align \in Nat \ {0} /\ HeapBase \in Nat /\ HEAP_SIZE \in Nat
  BY HeapAssumption
<1>2. offset \in Nat /\ HeapBase + offset \in Nat
  BY <1>1 DEF HeapIInv, HeapTypeOK
<1>3. start \in Nat /\ HeapBase + offset <= start /\ start % align = 0
  BY <1>1, <1>2, AlignUpAligns
<1>4. start + size <= HeapBase + HEAP_SIZE
  BY DEF FitsInHeap, HeapEnd
<1>5. offset' = start + size - HeapBase /\ blocks' = blocks \cup {new} /\ live' = live \cup {new}
      /\ UNCHANGED halted
  BY DEF Grant
<1> HIDE DEF start
<1>6. HeapTypeOK'
  BY <1>1, <1>2, <1>3, <1>4, <1>5 DEF HeapIInv, HeapTypeOK
<1>7. Block(new) /\ new.start + new.size = HeapBase + offset'
  BY <1>1, <1>2, <1>3, <1>5 DEF Block
<1>8. Below'
  <2> SUFFICES ASSUME NEW b \in blocks'
               PROVE  Block(b) /\ b.start + b.size <= HeapBase + offset'
    BY DEF Below, Block
  <2>1. CASE b = new
    BY <2>1, <1>7, <1>1, <1>3, <1>5
  <2>2. CASE b \in blocks
    <3>1. Block(b) /\ b.start + b.size <= HeapBase + offset
      BY <2>2 DEF HeapIInv, Below
    <3>2. HeapBase + offset <= HeapBase + offset'
      BY <1>1, <1>2, <1>3, <1>5
    <3>3. b.start + b.size \in Nat /\ HeapBase + offset' \in Nat
      BY <3>1, <1>1, <1>2, <1>3, <1>5 DEF Block
    <3> QED BY <3>1, <3>2, <3>3, <1>2
  <2> QED BY <2>1, <2>2, <1>5
<1>9. BlocksDisjoint'
  <2>1. ASSUME NEW b \in blocks PROVE Bytes(b) \cap Bytes(new) = {}
    <3>1. Block(b) /\ b.start + b.size <= HeapBase + offset
      BY DEF HeapIInv, Below
    <3>2. b.start + b.size <= start
      BY <3>1, <1>2, <1>3 DEF Block
    <3> QED BY <3>1, <3>2, <1>1, <1>3 DEF Bytes, Block
  <2>2. \A b, c \in blocks : b # c => Bytes(b) \cap Bytes(c) = {}
    BY DEF HeapIInv, BlocksDisjoint
  <2>3. \A b, c \in blocks' : b # c => Bytes(b) \cap Bytes(c) = {}
    BY <2>1, <2>2, <1>5, Zenon
  <2> QED BY <2>3 DEF BlocksDisjoint, Bytes
<1> QED BY <1>6, <1>8, <1>9 DEF HeapIInv

\* A step that hands out no block and does not lower the offset.
LEMMA HeapOthersKeepIInv ==
  ASSUME HeapIInv, UNCHANGED <<offset, blocks>>, live' \subseteq live,
         halted' \in BOOLEAN, halted => halted'
  PROVE  HeapIInv'
<1>1. HeapTypeOK'
  BY DEF HeapIInv, HeapTypeOK
<1>2. Below' /\ BlocksDisjoint'
  BY DEF HeapIInv, Below, Block, BlocksDisjoint, Bytes
<1> QED BY <1>1, <1>2 DEF HeapIInv

\* Every step of the kernel's allocations keeps it.
LEMMA HeapNextKeepsIInv == HeapIInv /\ [HeapNext]_heap_vars => HeapIInv'
<1> SUFFICES ASSUME HeapIInv, [HeapNext]_heap_vars PROVE HeapIInv'
  OBVIOUS
<1>1. CASE alloc
  <2>1. PICK size \in Sizes, align \in Aligns :
          \/ /\ AlignmentOverflows(align)
             /\ halted' = TRUE
             /\ UNCHANGED <<offset, blocks, live>>
          \/ ~AlignmentOverflows(align) /\ FitsInHeap(size, align) /\ Grant(size, align)
          \/ ~AlignmentOverflows(align) /\ ~FitsInHeap(size, align) /\ Refuse
    BY <1>1 DEF alloc
  <2>2. ~halted
    BY <1>1 DEF alloc
  <2>3. CASE FitsInHeap(size, align) /\ Grant(size, align)
    BY <2>2, <2>3, HeapGrantKeepsIInv
  <2>4. CASE halted' = TRUE /\ UNCHANGED <<offset, blocks, live>>
    BY <2>4, HeapOthersKeepIInv
  <2> QED BY <2>1, <2>3, <2>4 DEF Refuse
<1>2. CASE dealloc
  <2>1. live' \subseteq live /\ UNCHANGED <<offset, halted, blocks>>
    BY <1>2 DEF dealloc
  <2> QED BY <2>1, HeapOthersKeepIInv DEF HeapIInv, HeapTypeOK
<1>3. CASE UNCHANGED heap_vars
  BY <1>3, HeapOthersKeepIInv DEF heap_vars, HeapIInv, HeapTypeOK
<1> QED BY <1>1, <1>2, <1>3 DEF HeapNext

\* Blocks stay below the offset, and the offset inside the heap.
THEOREM HeapInductive == HeapSpec => []HeapIInv
BY HeapInitIInv, HeapNextKeepsIInv, PTL DEF HeapSpec

\* Every block is aligned, lies in the part of HEAP_MEM that heap_stats reports
\* as used, and shares no byte with another one.
THEOREM AllocIsSound == HeapSpec => []BlocksSound
<1>1. HeapIInv => BlocksSound
  <2> SUFFICES ASSUME HeapIInv, NEW b \in blocks
               PROVE  /\ b.start % b.align = 0
                      /\ Bytes(b) \subseteq HeapBase..(HeapBase + heap_stats.used_bytes - 1)
                      /\ \A c \in blocks : b # c => Bytes(b) \cap Bytes(c) = {}
    BY DEF BlocksSound
  <2>1. Block(b) /\ b.start + b.size <= HeapBase + offset /\ offset \in 0..HEAP_SIZE
    BY DEF HeapIInv, Below, HeapTypeOK
  <2>2. heap_stats.used_bytes = offset
    BY <2>1, HeapAssumption DEF heap_stats
  <2>3. Bytes(b) \subseteq HeapBase..(HeapBase + offset - 1)
    BY <2>1, HeapAssumption DEF Bytes, Block
  <2>4. \A c \in blocks : b # c => Bytes(b) \cap Bytes(c) = {}
    BY DEF HeapIInv, BlocksDisjoint
  <2> QED BY <2>1, <2>2, <2>3, <2>4 DEF Block
<1> QED BY <1>1, HeapInductive, PTL

-----------------------------------------------------------------------------
(* The frame allocator *)

P == PAGE_SIZE

\* The frames of all calls.
Held == given \cup ({frame} \ {None})

\* Frame f of region i lies behind the walk.
Behind(f, i) ==
  \/ i < current_mmap
  \/ i = current_mmap /\ next_free_frame # None /\ f < next_free_frame

\* The candidate of the region being walked.
CandidateOK ==
  /\ current_mmap = Len(mmap) + 1 => next_free_frame = None
  /\ next_free_frame # None =>
       /\ Aligned(next_free_frame)
       /\ next_free_frame >= LOW_MEMORY_RESERVED_END
       /\ next_free_frame >= mmap[current_mmap].base

\* Every frame held is usable and behind the walk.
HeldBehind ==
  \A f \in Held : \E i \in DOMAIN mmap : UsableIn(f, mmap[i]) /\ Behind(f, i)

\* Every usable frame behind the walk is held.
BehindHeld ==
  \A i \in DOMAIN mmap : \A f \in 0..(WORD - 2 * PAGE_SIZE) :
    UsableIn(f, mmap[i]) /\ Behind(f, i) => f \in Held

Ended == outcome = "none" => current_mmap = Len(mmap) + 1

FramesIInv ==
  /\ NoneCut(mmap)
  /\ FramesTypeOK /\ CandidateOK /\ HeldBehind /\ BehindHeld /\ Ended
  /\ FramesAreFresh

-----------------------------------------------------------------------------
(* Arithmetic of aligned addresses *)

\* An aligned address is a multiple of the page size.
LEMMA AlignedMultiple ==
  ASSUME NEW x \in Nat, Aligned(x)
  PROVE  \E k \in Nat : x = P * k
<1>1. P \in Nat \ {0}
  BY FrameAssumption, AddressAssumption DEF P
<1>2. x \div P \in Nat /\ x = P * (x \div P) + (x % P)
  BY <1>1, Division
<1>3. x % P = 0
  BY DEF Aligned, P
<1> DEFINE k == x \div P
<1> HIDE DEF k
<1>4. k \in Nat /\ x = P * k + (x % P)
  BY <1>2 DEF k
<1>5. P * k \in Nat
  BY <1>1, <1>4
<1>6. x = P * k
  BY <1>3, <1>4, <1>5
<1> QED BY <1>4, <1>6

\* Multiples of the page size are strictly ordered by their factors.
LEMMA MultiplesApart ==
  ASSUME NEW j \in Nat, NEW k \in Nat, j < k
  PROVE  P * j + P <= P * k
<1>1. P \in Nat \ {0}
  BY FrameAssumption, AddressAssumption DEF P
<1>2. k - j - 1 \in Nat /\ k = j + 1 + (k - j - 1)
  OBVIOUS
<1>3. PICK n \in Nat : k = j + 1 + n
  BY <1>2
<1>4. P * k = P * j + P + P * n /\ P * n \in Nat /\ P * j \in Nat
  BY <1>1, <1>3
<1> QED BY <1>1, <1>4

\* A multiple of the page size is aligned.
LEMMA MultipleAligned ==
  ASSUME NEW k \in Nat
  PROVE  P * k \in Nat /\ Aligned(P * k)
<1>1. P \in Nat \ {0} /\ P * k \in Nat
  BY FrameAssumption, AddressAssumption DEF P
<1> DEFINE x == P * k
           q == x \div P
           r == x % P
<1> HIDE DEF x
<1>2. q \in Nat /\ r \in 0..(P - 1) /\ x = P * q + r
  BY <1>1, Division DEF x
<1> HIDE DEF q, r
<1>3. P * k = P * q + r /\ P * q \in Nat
  BY <1>1, <1>2 DEF x
<1>4. ~(k < q)
  BY <1>1, <1>2, <1>3, MultiplesApart
<1>5. ~(q < k)
  BY <1>1, <1>2, <1>3, MultiplesApart
<1>6. r = 0
  BY <1>1, <1>2, <1>3, <1>4, <1>5
<1> QED BY <1>1, <1>6 DEF Aligned, P, r, x

\* Two aligned addresses are a page apart.
LEMMA PagesApart ==
  ASSUME NEW x \in Nat, NEW y \in Nat, Aligned(x), Aligned(y), x < y
  PROVE  x + P <= y
<1>1. P \in Nat \ {0}
  BY FrameAssumption, AddressAssumption DEF P
<1>2. PICK j \in Nat : x = P * j
  BY AlignedMultiple
<1>3. PICK k \in Nat : y = P * k
  BY AlignedMultiple
<1>4. j < k
  <2> SUFFICES ASSUME k <= j PROVE FALSE
    BY <1>2, <1>3
  <2>1. CASE k = j
    BY <2>1, <1>2, <1>3
  <2>2. CASE k < j
    <3>1. y + P <= x
      BY <2>2, <1>2, <1>3, MultiplesApart
    <3> QED BY <3>1, <1>1
  <2> QED BY <2>1, <2>2
<1> QED BY <1>2, <1>3, <1>4, MultiplesApart

\* The next page is aligned.
LEMMA NextPage ==
  ASSUME NEW x \in Nat, Aligned(x)
  PROVE  Aligned(x + P) /\ x + P \in Nat
<1>1. P \in Nat \ {0}
  BY FrameAssumption, AddressAssumption DEF P
<1>2. PICK k \in Nat : x = P * k
  BY AlignedMultiple
<1>3. x + P = P * (k + 1) /\ k + 1 \in Nat
  BY <1>1, <1>2
<1>4. P * (k + 1) \in Nat /\ Aligned(P * (k + 1))
  BY <1>3, MultipleAligned
<1> QED BY <1>3, <1>4

\* align_up gives the least aligned address that is not smaller.
LEMMA AlignUpLeast ==
  ASSUME NEW x \in Nat
  PROVE  /\ align_up(x, PAGE_SIZE) \in Nat /\ Aligned(align_up(x, PAGE_SIZE))
         /\ x <= align_up(x, PAGE_SIZE)
         /\ \A m \in Nat : Aligned(m) /\ x <= m => align_up(x, PAGE_SIZE) <= m
<1> DEFINE q == x \div P
           r == x % P
           u == align_up(x, PAGE_SIZE)
<1>1. P \in Nat \ {0}
  BY FrameAssumption, AddressAssumption DEF P
<1>2. q \in Nat /\ r \in 0..(P - 1) /\ x = P * q + r
  BY <1>1, Division
<1>3. u = IF r = 0 THEN x ELSE x + P - r
  BY DEF align_up, P
<1> HIDE DEF q, r, u
<1>4. u \in Nat /\ Aligned(u) /\ x <= u /\ u < x + P
  <2>1. CASE r = 0
    <3>1. u = P * q
      BY <2>1, <1>1, <1>2, <1>3
    <3>2. u \in Nat /\ Aligned(u)
      BY <3>1, <1>2, MultipleAligned
    <3>3. u = x
      BY <2>1, <1>3
    <3> QED BY <3>2, <3>3, <1>1
  <2>2. CASE r # 0
    <3>1. u = P * (q + 1) /\ q + 1 \in Nat
      BY <2>2, <1>1, <1>2, <1>3
    <3>2. u \in Nat /\ Aligned(u)
      BY <3>1, MultipleAligned
    <3>3. x <= u /\ u < x + P
      BY <2>2, <1>1, <1>2, <1>3
    <3> QED BY <3>2, <3>3
  <2> QED BY <2>1, <2>2
<1>5. ASSUME NEW m \in Nat, Aligned(m), x <= m PROVE u <= m
  <2> SUFFICES ASSUME m < u PROVE FALSE
    BY <1>4
  <2>1. m + P <= u
    BY <1>4, <1>5, PagesApart
  <2> QED BY <2>1, <1>1, <1>4, <1>5
<1> QED BY <1>4, <1>5 DEF u

-----------------------------------------------------------------------------
(* One pass of the loop *)

\* The region being walked has something to hand out.
Walking == current_mmap <= Len(mmap) /\ ~Skipped

\* Types of the region being walked.
LEMMA RegionType ==
  ASSUME FramesIInv, current_mmap <= Len(mmap)
  PROVE  /\ current_mmap \in DOMAIN mmap
         /\ region.base \in Nat /\ region.length \in Nat /\ region.available \in BOOLEAN
         /\ region_end \in Nat
         /\ region.base <= WORD - P \/ region.base >= WORD
<1>1. mmap \in Seq(Regions) /\ current_mmap \in 1..Len(mmap) /\ NoneCut(mmap)
  BY DEF FramesIInv, FramesTypeOK
<1>2. current_mmap \in DOMAIN mmap /\ region \in Regions
  BY <1>1 DEF region
<1>3. region.base \in Nat /\ region.length \in Nat /\ region.available \in BOOLEAN
  BY <1>2, FrameAssumption, AddressAssumption DEF Regions
<1>4. region.base <= WORD - P \/ region.base >= WORD
  BY <1>1, <1>2 DEF NoneCut, region, P
<1> QED BY <1>2, <1>3, <1>4 DEF region_end

\* The search starts at an aligned address of the region, and every usable
\* frame of the region before it is held.
LEMMA StartCandidate ==
  ASSUME FramesIInv, Walking
  PROVE  /\ start_candidate \in 0..(WORD - 1) /\ Aligned(start_candidate)
         /\ start_candidate >= LOW_MEMORY_RESERVED_END
         /\ start_candidate >= region.base
         /\ \A f \in 0..(WORD - 2 * PAGE_SIZE) :
              UsableIn(f, region) /\ f < start_candidate => f \in Held
<1> DEFINE i == current_mmap
           floor == allocation_floor
           u == align_up(floor, PAGE_SIZE)
<1>1. /\ region.base \in Nat /\ region_end \in Nat /\ i \in DOMAIN mmap
      /\ region.base <= WORD - P \/ region.base >= WORD
  BY RegionType DEF Walking
<1>2. P \in Nat \ {0} /\ WORD \in Nat /\ LOW_MEMORY_RESERVED_END \in Nat
      /\ LOW_MEMORY_RESERVED_END <= WORD - P /\ WORD - P \in Nat
  BY FrameAssumption, AddressAssumption DEF P
<1>3. CASE next_free_frame = None
  <2>1. floor \in Nat /\ floor >= region.base /\ floor >= LOW_MEMORY_RESERVED_END
        /\ floor <= WORD - 1 /\ (floor = region.base \/ floor = LOW_MEMORY_RESERVED_END)
    BY <1>1, <1>2 DEF Walking, Skipped, allocation_floor
  <2>2. floor <= WORD - P
    BY <1>1, <1>2, <2>1
  <2>3. u \in Nat /\ Aligned(u) /\ floor <= u
        /\ \A m \in Nat : Aligned(m) /\ floor <= m => u <= m
    BY <2>1, AlignUpLeast
  <2>4. Aligned(WORD - P)
    <3>1. Aligned(WORD) /\ WORD > 0 /\ Aligned(0)
      BY FrameAssumption, AddressAssumption DEF Aligned
    <3>2. PICK k \in Nat : WORD = P * k
      BY <1>2, <3>1, AlignedMultiple
    <3>3. k # 0
      BY <1>2, <3>1, <3>2
    <3>4. WORD - P = P * (k - 1) /\ k - 1 \in Nat
      BY <1>2, <3>2, <3>3
    <3>5. Aligned(P * (k - 1))
      BY <3>4, MultipleAligned
    <3> QED BY <3>4, <3>5
  <2>5. u <= WORD - P
    BY <1>2, <2>2, <2>3, <2>4
  <2>6. start_candidate = u % WORD
    BY <1>3 DEF start_candidate
  <2> HIDE DEF floor, u
  <2>7. start_candidate = u
    BY <1>2, <2>3, <2>5, <2>6
  <2>8. ASSUME NEW f \in 0..(WORD - 2 * PAGE_SIZE), UsableIn(f, region), f < start_candidate
        PROVE  FALSE
    <3>1. Aligned(f) /\ floor <= f /\ f \in Nat
      BY <2>8, <2>1 DEF UsableIn
    <3> QED BY <3>1, <2>3, <2>7, <2>8
  <2> QED BY <1>1, <1>2, <2>1, <2>3, <2>5, <2>7, <2>8
<1>4. CASE next_free_frame # None
  <2>1. start_candidate = next_free_frame
    BY <1>4 DEF start_candidate
  <2>2. next_free_frame \in 0..(WORD - 1)
    BY <1>4 DEF FramesIInv, FramesTypeOK
  <2>3. Aligned(next_free_frame) /\ next_free_frame >= LOW_MEMORY_RESERVED_END
        /\ next_free_frame >= region.base
    BY <1>4 DEF FramesIInv, CandidateOK, region
  <2>4. ASSUME NEW f \in 0..(WORD - 2 * PAGE_SIZE), UsableIn(f, region), f < start_candidate
        PROVE  f \in Held
    <3>1. Behind(f, i)
      BY <1>4, <2>1, <2>4 DEF Behind
    <3>2. UsableIn(f, mmap[i])
      BY <2>4 DEF region
    <3> QED BY <3>1, <3>2, <1>1 DEF FramesIInv, BehindHeld
  <2> QED BY <2>1, <2>2, <2>3, <2>4
<1> QED BY <1>3, <1>4

\* Skipping the kernel image keeps all that, and leaves the image alone.
LEMMA Candidate ==
  ASSUME FramesIInv, Walking
  PROVE  /\ candidate \in 0..(WORD - 1) /\ Aligned(candidate)
         /\ candidate >= LOW_MEMORY_RESERVED_END
         /\ candidate >= region.base /\ candidate >= start_candidate
         /\ candidate + P <= KernelStart \/ KernelEnd <= candidate
         /\ \A f \in 0..(WORD - 2 * PAGE_SIZE) :
              UsableIn(f, region) /\ f < candidate => f \in Held
<1> DEFINE sc == start_candidate
           k == kernel_end_aligned
<1>1. /\ sc \in 0..(WORD - 1) /\ Aligned(sc)
      /\ sc >= LOW_MEMORY_RESERVED_END /\ sc >= region.base
      /\ \A f \in 0..(WORD - 2 * PAGE_SIZE) : UsableIn(f, region) /\ f < sc => f \in Held
  BY StartCandidate
<1>2. P \in Nat \ {0} /\ P = PAGE_SIZE /\ WORD \in Nat /\ LOW_MEMORY_RESERVED_END \in Nat
      /\ KernelStart \in Nat /\ KernelEnd \in Nat /\ KernelEnd <= WORD - P
  BY FrameAssumption, AddressAssumption DEF P
<1>3. k \in Nat /\ Aligned(k) /\ KernelEnd <= k
      /\ \A m \in Nat : Aligned(m) /\ KernelEnd <= m => k <= m
  BY <1>2, AlignUpLeast DEF kernel_end_aligned
<1>4. region.base \in Nat
  BY RegionType DEF Walking
<1>5. k < WORD
  <2>1. Aligned(WORD) /\ KernelEnd <= WORD
    BY <1>2, FrameAssumption, AddressAssumption DEF Aligned
  <2>2. k <= WORD
    BY <1>2, <1>3, <2>1
  <2>3. k # WORD
    <3> SUFFICES ASSUME k = WORD PROVE FALSE
      OBVIOUS
    <3>1. PICK n \in Nat : WORD = P * n
      BY <2>1, <1>2, AlignedMultiple
    <3>2. n # 0
      BY <3>1, <1>2, FrameAssumption, AddressAssumption
    <3>3. WORD - P = P * (n - 1) /\ n - 1 \in Nat
      BY <1>2, <3>1, <3>2
    <3>4. WORD - P \in Nat /\ Aligned(WORD - P)
      BY <3>3, MultipleAligned
    <3> QED BY <1>2, <1>3, <3>4
  <2> QED BY <1>2, <1>3, <2>2, <2>3
<1>6. CASE sc < k /\ SaturatingAdd(sc, PAGE_SIZE) > KernelStart
  <2>1. candidate = k
    BY <1>6 DEF candidate
  <2>2. sc + P > KernelStart
    BY <1>1, <1>2, <1>6 DEF SaturatingAdd
  <2>3. ASSUME NEW f \in 0..(WORD - 2 * PAGE_SIZE), UsableIn(f, region), sc <= f, f < k
        PROVE  FALSE
    <3>1. f \in Nat /\ Aligned(f) /\ (f + P <= KernelStart \/ KernelEnd <= f)
      BY <2>3, <1>2 DEF UsableIn
    <3>2. KernelEnd <= f
      BY <3>1, <2>2, <2>3, <1>1, <1>2
    <3> QED BY <3>1, <3>2, <2>3, <1>3
  <2> HIDE DEF sc, k
  <2>4. ASSUME NEW f \in 0..(WORD - 2 * PAGE_SIZE), UsableIn(f, region), f < k
        PROVE  f \in Held
    <3>1. f \in Int /\ sc \in Int
      BY <1>1
    <3>2. CASE f < sc
      BY <3>2, <2>4, <1>1
    <3>3. CASE sc <= f
      BY <3>3, <2>3, <2>4
    <3> QED BY <3>1, <3>2, <3>3
  <2>5. k \in 0..(WORD - 1) /\ k >= LOW_MEMORY_RESERVED_END /\ k >= region.base /\ k >= sc
    BY <1>1, <1>2, <1>3, <1>4, <1>5, <1>6
  <2> QED BY <2>1, <2>4, <2>5, <1>3 DEF sc
<1>7. CASE ~(sc < k /\ SaturatingAdd(sc, PAGE_SIZE) > KernelStart)
  <2>1. candidate = sc
    BY <1>7 DEF candidate
  <2>2. sc + P <= KernelStart \/ KernelEnd <= sc
    <3>1. CASE sc < k
      <4>1. sc + P <= k
        BY <3>1, <1>1, <1>3, PagesApart
      <4>2. SaturatingAdd(sc, PAGE_SIZE) = sc + P
        BY <4>1, <1>1, <1>2, <1>3, <1>5 DEF SaturatingAdd
      <4> QED BY <3>1, <4>2, <1>1, <1>2, <1>7
    <3>2. CASE k <= sc
      BY <3>2, <1>1, <1>2, <1>3
    <3> QED BY <3>1, <3>2, <1>1, <1>3
  <2> QED BY <2>1, <2>2, <1>1
<1> QED BY <1>6, <1>7

\* A region is left only when all its usable frames are held.
LEMMA RegionDone ==
  ASSUME FramesIInv, current_mmap <= Len(mmap), Skipped \/ ~FrameFits,
         NEW f \in 0..(WORD - 2 * PAGE_SIZE), UsableIn(f, region)
  PROVE  f \in Held
<1>1. region.base \in Nat /\ region_end \in Nat /\ P \in Nat \ {0} /\ P = PAGE_SIZE
      /\ WORD \in Nat /\ LOW_MEMORY_RESERVED_END \in Nat
  BY RegionType, FrameAssumption, AddressAssumption DEF P
<1>2. f \in Nat /\ f >= allocation_floor /\ f + P <= region_end /\ region.available
  BY <1>1 DEF UsableIn, allocation_floor, region_end
<1>3. ~Skipped
  <2>1. allocation_floor \in Nat /\ f <= WORD - 1
    BY <1>1 DEF allocation_floor
  <2> QED BY <1>1, <1>2, <2>1 DEF Skipped
<1>4. ~FrameFits
  BY <1>3
<1>5. candidate \in 0..(WORD - 1) /\ (f < candidate => f \in Held)
  BY <1>3, Candidate DEF Walking
<1>6. CASE candidate <= f
  <2>1. candidate + P < WORD
    BY <1>1, <1>2, <1>5, <1>6
  <2>2. SaturatingAdd(candidate, PAGE_SIZE) = candidate + P
    BY <1>1, <2>1 DEF SaturatingAdd
  <2>3. candidate + P <= region_end /\ candidate + P > candidate
    BY <1>1, <1>2, <1>5, <1>6
  <2> QED BY <1>4, <2>2, <2>3 DEF FrameFits
<1> QED BY <1>2, <1>5, <1>6

\* The frame granted is usable, new, and the last one behind the new candidate.
LEMMA FramesGrantKeepsIInv ==
  ASSUME FramesIInv, outcome = "ok", Walking, FrameFits, ~NextOverflows, grant
  PROVE  FramesIInv'
<1>0. PICK c, i : c = candidate /\ i = current_mmap
  OBVIOUS
<1>1. /\ c \in 0..(WORD - 1) /\ Aligned(c)
      /\ c >= LOW_MEMORY_RESERVED_END /\ c >= region.base /\ c >= start_candidate
      /\ c + P <= KernelStart \/ KernelEnd <= c
      /\ \A f \in 0..(WORD - 2 * PAGE_SIZE) : UsableIn(f, region) /\ f < c => f \in Held
  BY <1>0, Candidate
<1>2. /\ P \in Nat \ {0} /\ P = PAGE_SIZE /\ WORD \in Nat /\ LOW_MEMORY_RESERVED_END \in Nat
      /\ region.base \in Nat /\ region_end \in Nat /\ region.available
      /\ i \in DOMAIN mmap /\ mmap \in Seq(Regions) /\ i \in 1..Len(mmap)
  BY <1>0, RegionType, FrameAssumption, AddressAssumption DEF P, Walking, Skipped, FramesIInv, FramesTypeOK
<1>3. c + P < WORD /\ c + P <= region_end
  BY <1>0, <1>1, <1>2 DEF FrameFits, NextOverflows, SaturatingAdd
<1>4. UsableIn(c, region)
  BY <1>1, <1>2, <1>3 DEF UsableIn, region_end
<1>5. /\ next_free_frame' = c + P /\ frame' = c /\ given' = Held
      /\ UNCHANGED <<mmap, current_mmap, outcome>>
  BY <1>0, <1>2 DEF grant, Held
<1>6. c # None /\ c + P # None
  BY <1>1, <1>2 DEF None
<1>7. Held' = Held \cup {c}
  BY <1>5, <1>6 DEF Held
<1>8. c \notin Held
  <2> SUFFICES ASSUME c \in Held PROVE FALSE
    OBVIOUS
  <2>1. PICK j \in DOMAIN mmap : UsableIn(c, mmap[j]) /\ Behind(c, j)
    BY DEF FramesIInv, HeldBehind
  <2>2. CASE j < i
    <3>1. RegionBytes(mmap[j]) \cap RegionBytes(region) = {}
      BY <1>0, <1>2, <2>1, <2>2 DEF FramesIInv, FramesTypeOK, IsMap, region
    <3>2. mmap[j] \in Regions
      BY <1>2, <2>1
    <3>3. mmap[j].base \in Nat /\ mmap[j].length \in Nat
      BY <3>2, FrameAssumption, AddressAssumption DEF Regions
    <3>4. c \in RegionBytes(mmap[j])
      BY <3>3, <2>1, <1>1, <1>2 DEF UsableIn, RegionBytes
    <3>5. c \in RegionBytes(region)
      <4>1. region.length \in Nat
        BY RegionType DEF Walking
      <4> QED BY <4>1, <1>1, <1>2, <1>3 DEF RegionBytes, region_end
    <3> QED BY <3>1, <3>4, <3>5
  <2>3. CASE j = i /\ next_free_frame # None /\ c < next_free_frame
    <3>1. start_candidate = next_free_frame /\ next_free_frame \in Nat
      BY <2>3 DEF start_candidate, FramesIInv, FramesTypeOK
    <3> QED BY <3>1, <2>3, <1>1
  <2> QED BY <1>0, <2>1, <2>2, <2>3 DEF Behind
<1>9. FramesTypeOK'
  <2>1. Held \subseteq 0..(WORD - 1)
    BY DEF FramesIInv, FramesTypeOK, Held
  <2> QED BY <2>1, <1>1, <1>2, <1>3, <1>5 DEF FramesIInv, FramesTypeOK, IsMap
<1>10. CandidateOK'
  <2>1. Aligned(c + P)
    BY <1>1, NextPage
  <2>2. c + P >= LOW_MEMORY_RESERVED_END /\ c + P >= mmap[current_mmap].base
    BY <1>0, <1>1, <1>2 DEF region
  <2>3. current_mmap # Len(mmap) + 1
    BY <1>0, <1>2
  <2> QED BY <2>1, <2>2, <2>3, <1>5 DEF CandidateOK, Aligned
<1>11. \A f, j : UsableIn(f, mmap[j])' <=> UsableIn(f, mmap[j])
  BY <1>5 DEF UsableIn, Aligned
<1>12. HeldBehind'
  <2> SUFFICES ASSUME NEW f \in Held'
               PROVE  \E j \in DOMAIN mmap : UsableIn(f, mmap[j]) /\ Behind(f, j)'
    BY <1>5, <1>11 DEF HeldBehind
  <2>1. CASE f = c
    <3>1. Behind(f, i)'
      BY <1>0, <2>1, <1>1, <1>2, <1>5, <1>6 DEF Behind
    <3> QED BY <1>0, <3>1, <2>1, <1>2, <1>4 DEF region
  <2>2. CASE f \in Held
    <3>1. PICK j \in DOMAIN mmap : UsableIn(f, mmap[j]) /\ Behind(f, j)
      BY <2>2 DEF FramesIInv, HeldBehind
    <3>2. f \in Nat
      BY <2>2 DEF Held, FramesIInv, FramesTypeOK
    <3>3. CASE j < i
      BY <1>0, <3>1, <3>3, <1>5 DEF Behind
    <3>4. CASE j = i /\ next_free_frame # None /\ f < next_free_frame
      <4>1. start_candidate = next_free_frame /\ next_free_frame \in Nat
        BY <3>4 DEF start_candidate, FramesIInv, FramesTypeOK
      <4>2. f < c + P
        BY <4>1, <3>2, <3>4, <1>1, <1>2
      <4> QED BY <1>0, <4>2, <3>1, <3>4, <1>5, <1>6 DEF Behind
    <3> QED BY <1>0, <3>1, <3>3, <3>4 DEF Behind
  <2> QED BY <2>1, <2>2, <1>7
<1>13. BehindHeld'
  <2> SUFFICES ASSUME NEW j \in DOMAIN mmap, NEW f \in 0..(WORD - 2 * PAGE_SIZE),
                      UsableIn(f, mmap[j]), Behind(f, j)'
               PROVE  f \in Held'
    BY <1>5, <1>11 DEF BehindHeld
  <2>1. CASE j < i
    <3>1. Behind(f, j)
      BY <1>0, <2>1 DEF Behind
    <3> QED BY <3>1, <1>7 DEF FramesIInv, BehindHeld
  <2>2. CASE j = i /\ f < c + P
    <3>1. UsableIn(f, region) /\ f \in Nat
      BY <1>0, <2>2, <1>2 DEF region
    <3>2. CASE f < c
      BY <3>1, <3>2, <1>1, <1>7
    <3>3. CASE c < f
      <4>1. c + P <= f
        BY <3>1, <3>3, <1>1, PagesApart DEF UsableIn
      <4> QED BY <4>1, <2>2, <3>1, <1>1, <1>2
    <3>4. CASE f = c
      BY <3>4, <1>7
    <3> QED BY <3>1, <3>2, <3>3, <3>4, <1>1
  <2> QED BY <1>0, <2>1, <2>2, <1>5 DEF Behind
<1>14. FramesAreFresh'
  <2>1. Usable(c)'
    BY <1>0, <1>2, <1>4, <1>5, <1>11 DEF Usable, region
  <2> QED BY <2>1, <1>5, <1>8 DEF FramesAreFresh, Usable, UsableIn, Aligned
<1>15. Ended'
  BY <1>5 DEF Ended
<1>16. NoneCut(mmap)'
  BY <1>5, <1>11 DEF FramesIInv, NoneCut
<1> QED BY <1>9, <1>10, <1>12, <1>13, <1>14, <1>15, <1>16 DEF FramesIInv

\* Leaving a region: all its usable frames are held already.
LEMMA FramesNextRegionKeepsIInv ==
  ASSUME FramesIInv, outcome = "ok", current_mmap <= Len(mmap), Skipped \/ ~FrameFits, next_region
  PROVE  FramesIInv'
<1>0. PICK i : i = current_mmap
  OBVIOUS
<1>1. /\ current_mmap' = i + 1 /\ next_free_frame' = None
      /\ UNCHANGED <<mmap, frame, given, outcome>>
  BY <1>0 DEF next_region
<1>2. mmap \in Seq(Regions) /\ i \in 1..Len(mmap) /\ DOMAIN mmap = 1..Len(mmap)
  BY <1>0 DEF FramesIInv, FramesTypeOK
<1>3. Held' = Held
  BY <1>1 DEF Held
<1>4. FramesTypeOK'
  BY <1>1, <1>2 DEF FramesIInv, FramesTypeOK, IsMap
<1>5. CandidateOK' /\ Ended'
  BY <1>1 DEF CandidateOK, Ended
<1>6. \A f, j : UsableIn(f, mmap[j])' <=> UsableIn(f, mmap[j])
  BY <1>1 DEF UsableIn, Aligned
<1>7. HeldBehind'
  <2> SUFFICES ASSUME NEW f \in Held
               PROVE  \E j \in DOMAIN mmap : UsableIn(f, mmap[j]) /\ Behind(f, j)'
    BY <1>1, <1>3, <1>6 DEF HeldBehind
  <2>1. PICK j \in DOMAIN mmap : UsableIn(f, mmap[j]) /\ Behind(f, j)
    BY DEF FramesIInv, HeldBehind
  <2>2. j < i + 1
    BY <1>0, <1>2, <2>1 DEF Behind
  <2> QED BY <1>1, <2>1, <2>2 DEF Behind
<1>8. BehindHeld'
  <2> SUFFICES ASSUME NEW j \in DOMAIN mmap, NEW f \in 0..(WORD - 2 * PAGE_SIZE),
                      UsableIn(f, mmap[j]), Behind(f, j)'
               PROVE  f \in Held
    BY <1>1, <1>3, <1>6 DEF BehindHeld
  <2>1. j < i \/ j = i
    BY <1>1, <1>2 DEF Behind
  <2>2. CASE j < i
    <3>1. Behind(f, j)
      BY <1>0, <2>2 DEF Behind
    <3> QED BY <3>1 DEF FramesIInv, BehindHeld
  <2>3. CASE j = i
    BY <1>0, <2>3, RegionDone DEF region
  <2> QED BY <2>1, <2>2, <2>3
<1>9. FramesAreFresh'
  BY <1>1 DEF FramesIInv, FramesAreFresh, Usable, UsableIn, Aligned
<1>10. NoneCut(mmap)'
  BY <1>1 DEF FramesIInv, NoneCut
<1> QED BY <1>4, <1>5, <1>7, <1>8, <1>9, <1>10 DEF FramesIInv

\* A step that only ends the call, or none at all.
LEMMA FramesStopKeepsIInv ==
  ASSUME FramesIInv, UNCHANGED <<mmap, current_mmap, next_free_frame, frame, given>>,
         outcome' \in {"ok", "none", "panic"},
         outcome' = "none" => current_mmap = Len(mmap) + 1
  PROVE  FramesIInv'
<1>1. FramesTypeOK' /\ CandidateOK' /\ Ended'
  BY DEF FramesIInv, FramesTypeOK, IsMap, CandidateOK, Aligned, Ended
<1>2. HeldBehind' /\ BehindHeld'
  BY DEF FramesIInv, HeldBehind, BehindHeld, Held, Behind, UsableIn, Aligned
<1>3. FramesAreFresh' /\ NoneCut(mmap)'
  BY DEF FramesIInv, FramesAreFresh, Usable, UsableIn, Aligned, NoneCut
<1> QED BY <1>1, <1>2, <1>3 DEF FramesIInv

\* No frame has been handed out yet.
LEMMA FramesInitIInv == FramesInit /\ NoneCut(mmap) => FramesIInv
<1> SUFFICES ASSUME FramesInit, NoneCut(mmap) PROVE FramesIInv
  OBVIOUS
<1>1. mmap \in Seq(Regions) /\ IsMap(mmap)
  BY DEF FramesInit
<1>2. FramesTypeOK
  BY <1>1 DEF FramesInit, FramesTypeOK
<1>3. Held = {} /\ next_free_frame = None /\ current_mmap = 1 /\ frame = None
      /\ outcome = "ok"
  BY DEF FramesInit, Held
<1>4. CandidateOK /\ HeldBehind /\ Ended /\ FramesAreFresh
  BY <1>3 DEF CandidateOK, HeldBehind, Ended, FramesAreFresh
<1>5. BehindHeld
  <2>1. \A j \in DOMAIN mmap : j \in Nat /\ ~(j < 1)
    BY <1>1
  <2>2. \A f : \A j \in DOMAIN mmap : ~Behind(f, j)
    BY <1>3, <2>1 DEF Behind
  <2> QED BY <2>2 DEF BehindHeld
<1> QED BY <1>2, <1>4, <1>5 DEF FramesIInv

\* Every pass of the loop keeps it.
LEMMA FramesNextKeepsIInv == FramesIInv /\ [FramesNext]_frames_vars => FramesIInv'
<1> SUFFICES ASSUME FramesIInv, [FramesNext]_frames_vars PROVE FramesIInv'
  OBVIOUS
<1>1. CASE allocate_frame
  <2>1. outcome = "ok"
    BY <1>1 DEF allocate_frame
  <2>2. CASE /\ current_mmap > Len(mmap) /\ outcome' = "none"
             /\ UNCHANGED <<mmap, current_mmap, next_free_frame, frame, given>>
    <3>1. current_mmap = Len(mmap) + 1
      BY <2>2 DEF FramesIInv, FramesTypeOK
    <3> QED BY <2>2, <3>1, FramesStopKeepsIInv
  <2>3. CASE current_mmap <= Len(mmap) /\ (Skipped \/ ~FrameFits) /\ next_region
    BY <2>1, <2>3, FramesNextRegionKeepsIInv
  <2>4. CASE current_mmap <= Len(mmap) /\ ~Skipped /\ FrameFits /\ ~NextOverflows /\ grant
    BY <2>1, <2>4, FramesGrantKeepsIInv DEF Walking
  <2>5. CASE /\ outcome' = "panic"
             /\ UNCHANGED <<mmap, current_mmap, next_free_frame, frame, given>>
    BY <2>5, FramesStopKeepsIInv
  <2> QED BY <1>1, <2>2, <2>3, <2>4, <2>5 DEF allocate_frame
<1>2. CASE UNCHANGED frames_vars
  BY <1>2, FramesStopKeepsIInv DEF frames_vars, FramesIInv, FramesTypeOK, Ended
<1> QED BY <1>1, <1>2 DEF FramesNext

\* allocate_frame reads the map and never changes it.
LEMMA MapIsKept == [FramesNext]_frames_vars => mmap' = mmap
BY DEF FramesNext, allocate_frame, next_region, grant, frames_vars

\* The frames held are the usable frames behind the walk, whenever no start of a
\* region is cut.
THEOREM FramesInductive == FramesSpec => [](NoneCut(mmap) => FramesIInv)
<1>1. (NoneCut(mmap) => FramesIInv) /\ [FramesNext]_frames_vars => (NoneCut(mmap) => FramesIInv)'
  <2> SUFFICES ASSUME NoneCut(mmap) => FramesIInv, [FramesNext]_frames_vars, NoneCut(mmap)'
               PROVE  FramesIInv'
    OBVIOUS
  <2>1. NoneCut(mmap)
    BY MapIsKept DEF NoneCut
  <2> QED BY <2>1, FramesNextKeepsIInv
<1> QED BY <1>1, FramesInitIInv, PTL DEF FramesSpec

\* Frames are aligned, in available memory, above the first megabyte, outside
\* the kernel image, and never handed out twice, on every memory map without a
\* region that starts in the last page below 4 GiB.
THEOREM FreshFrames == FramesSpec => []FramesAreFresh
<1>1. (NoneCut(mmap) => FramesIInv) => FramesAreFresh
  BY DEF FramesIInv, FramesAreFresh
<1> QED BY <1>1, FramesInductive, PTL

\* Out of memory means that no usable frame was skipped, on the same maps.
THEOREM NothingWasted == FramesSpec => []NoneMeansExhausted
<1>1. (NoneCut(mmap) => FramesIInv) => NoneMeansExhausted
  <2> SUFFICES ASSUME FramesIInv, outcome = "none",
                      NEW f \in 0..(WORD - 2 * PAGE_SIZE), Usable(f)
               PROVE  f \in given \cup {frame}
    BY DEF NoneMeansExhausted
  <2>1. PICK i \in DOMAIN mmap : UsableIn(f, mmap[i])
    BY DEF Usable
  <2>2. i < current_mmap
    BY <2>1 DEF FramesIInv, FramesTypeOK, Ended
  <2>3. f \in Held
    BY <2>1, <2>2 DEF FramesIInv, BehindHeld, Behind
  <2> QED BY <2>3 DEF Held
<1> QED BY <1>1, FramesInductive, PTL

-----------------------------------------------------------------------------
(* User memory *)

\* Bytes mapped by one directory entry.
Span == ENTRIES_PER_TABLE * PAGE_SIZE

\* A quotient is determined by where the number lies.
LEMMA Quotient ==
  ASSUME NEW b \in Nat \ {0}, NEW p \in Nat, NEW q \in Nat,
         NEW r \in 0..(b - 1), NEW s \in 0..(b - 1),
         b * p + r = b * q + s
  PROVE  p = q /\ r = s
<1>1. CASE p < q
  <2>1. b * q >= b * p + b
    <3>1. PICK k \in Nat : q = p + 1 + k
      <4>1. q - p - 1 \in Nat /\ q = p + 1 + (q - p - 1)
        BY <1>1
      <4> QED BY <4>1
    <3>2. b * q = b * p + b + b * k /\ b * k \in Nat
      BY <3>1
    <3> QED BY <3>2
  <2> QED BY <2>1
<1>2. CASE q < p
  <2>1. b * p >= b * q + b
    <3>1. PICK k \in Nat : p = q + 1 + k
      <4>1. p - q - 1 \in Nat /\ p = q + 1 + (p - q - 1)
        BY <1>2
      <4> QED BY <4>1
    <3>2. b * p = b * q + b + b * k /\ b * k \in Nat
      BY <3>1
    <3> QED BY <3>2
  <2> QED BY <2>1
<1>3. CASE p = q
  BY <1>3
<1> QED BY <1>1, <1>2, <1>3

\* The layout in terms of Span.
LEMMA Layout ==
  /\ Span \in Nat \ {0} /\ PAGE_SIZE \in Nat \ {0} /\ ENTRIES_PER_TABLE \in Nat \ {0}
  /\ WORD \in Nat /\ WORD = Span * ENTRIES_PER_TABLE /\ Span + Span < WORD
  /\ USER_SPACE_START = Span /\ USER_SPACE_END = Span + Span
<1>1. Span \in Nat \ {0}
  BY LayoutAssumption, AddressAssumption DEF Span
<1>2. WORD = Span * ENTRIES_PER_TABLE
  BY LayoutAssumption, AddressAssumption DEF Span
<1>3. Span + Span < Span * ENTRIES_PER_TABLE
  <2>1. PICK k \in Nat : ENTRIES_PER_TABLE = 3 + k
    <3>1. ENTRIES_PER_TABLE - 3 \in Nat /\ ENTRIES_PER_TABLE = 3 + (ENTRIES_PER_TABLE - 3)
      BY LayoutAssumption, AddressAssumption
    <3> QED BY <3>1
  <2>2. Span * ENTRIES_PER_TABLE = Span + Span + Span + Span * k /\ Span * k \in Nat
    BY <1>1, <2>1
  <2> QED BY <2>2, <1>1
<1> QED BY <1>1, <1>2, <1>3, LayoutAssumption, AddressAssumption DEF Span

\* The page number within a table is what remains below the directory index.
LEMMA Decompose ==
  ASSUME NEW a \in Nat
  PROVE  /\ DirSlot(a) \in Nat /\ TableSlot(a) \in Indices
         /\ a % PAGE_SIZE \in 0..(PAGE_SIZE - 1)
         /\ a = Span * DirSlot(a) + (TableSlot(a) * PAGE_SIZE + (a % PAGE_SIZE))
         /\ TableSlot(a) * PAGE_SIZE + (a % PAGE_SIZE) \in 0..(Span - 1)
<1> DEFINE q == a \div PAGE_SIZE
           r == a % PAGE_SIZE
           d == q \div ENTRIES_PER_TABLE
           s == q % ENTRIES_PER_TABLE
<1>1. q \in Nat /\ r \in 0..(PAGE_SIZE - 1) /\ a = PAGE_SIZE * q + r
  BY Layout, Division
<1>2. d \in Nat /\ s \in 0..(ENTRIES_PER_TABLE - 1) /\ q = ENTRIES_PER_TABLE * d + s
  BY <1>1, Layout, Division
<1>3. TableSlot(a) = s
  BY DEF TableSlot
<1>10. DirSlot(a) = a \div Span
  BY DEF DirSlot, Span
<1> HIDE DEF q, r, d, s
<1>4. a = Span * d + (s * PAGE_SIZE + r)
  <2>1. PAGE_SIZE * q = PAGE_SIZE * (ENTRIES_PER_TABLE * d) + PAGE_SIZE * s
    BY <1>2, Layout
  <2>2. PAGE_SIZE * (ENTRIES_PER_TABLE * d) = Span * d
    BY <1>2, Layout DEF Span
  <2>3. PAGE_SIZE * s = s * PAGE_SIZE /\ s * PAGE_SIZE \in Nat /\ Span * d \in Nat
    BY <1>2, Layout
  <2> QED BY <1>1, <2>1, <2>2, <2>3
<1>5. s * PAGE_SIZE + r \in 0..(Span - 1)
  <2>1. PICK k \in Nat : ENTRIES_PER_TABLE = s + 1 + k
    <3>1. ENTRIES_PER_TABLE - s - 1 \in Nat
          /\ ENTRIES_PER_TABLE = s + 1 + (ENTRIES_PER_TABLE - s - 1)
      BY <1>2, Layout
    <3> QED BY <3>1
  <2>2. Span = s * PAGE_SIZE + PAGE_SIZE + k * PAGE_SIZE
    BY <1>2, <2>1, Layout DEF Span
  <2>3. s * PAGE_SIZE \in Nat /\ k * PAGE_SIZE \in Nat
    BY <1>2, <2>1, Layout
  <2> QED BY <1>1, <2>2, <2>3, Layout
<1>6. a \div Span = d
  <2>1. a \div Span \in Nat /\ a % Span \in 0..(Span - 1)
        /\ a = Span * (a \div Span) + (a % Span)
    BY Layout, Division
  <2> DEFINE p == a \div Span
             t == a % Span
             u == s * PAGE_SIZE + r
  <2>2. p \in Nat /\ t \in 0..(Span - 1) /\ u \in 0..(Span - 1) /\ Span * p + t = Span * d + u
    BY <2>1, <1>4, <1>5
  <2> HIDE DEF p, t, u
  <2>3. p = d
    BY <2>2, <1>2, Layout, Quotient
  <2> QED BY <2>3 DEF p
<1> QED BY <1>1, <1>2, <1>3, <1>4, <1>5, <1>6, <1>10 DEF r, Indices

\* The user half of the address space is directory entry 1, the kernel's entry 0.
LEMMA DirectoryEntry ==
  ASSUME NEW a \in U32
  PROVE  /\ DirSlot(a) \in Indices
         /\ DirSlot(a) = 0 <=> a < USER_SPACE_START
         /\ DirSlot(a) = 1 <=> a \in USER_SPACE_START..(USER_SPACE_END - 1)
<1> DEFINE d == DirSlot(a)
           u == TableSlot(a) * PAGE_SIZE + (a % PAGE_SIZE)
<1>1. a \in Nat /\ a < WORD
  BY Layout DEF U32
<1>2. d \in Nat /\ u \in 0..(Span - 1) /\ a = Span * d + u
  BY <1>1, Decompose
<1> HIDE DEF d, u
<1>3. d = 0 => a < Span
  BY <1>2, Layout
<1>4. d = 1 => a >= Span /\ a < Span + Span
  BY <1>2, Layout
<1>5. d >= 2 => a >= Span + Span
  <2> HAVE d >= 2
  <2>1. PICK k \in Nat : d = 2 + k
    <3>1. d - 2 \in Nat /\ d = 2 + (d - 2)
      BY <1>2
    <3> QED BY <3>1
  <2>2. Span * d = Span + Span + Span * k /\ Span * k \in Nat
    BY <2>1, Layout
  <2> QED BY <1>2, <2>2, Layout
<1>6. d < ENTRIES_PER_TABLE
  <2> SUFFICES ASSUME d >= ENTRIES_PER_TABLE PROVE FALSE
    BY <1>2, Layout
  <2>1. PICK k \in Nat : d = ENTRIES_PER_TABLE + k
    <3>1. d - ENTRIES_PER_TABLE \in Nat /\ d = ENTRIES_PER_TABLE + (d - ENTRIES_PER_TABLE)
      BY <1>2, Layout
    <3> QED BY <3>1
  <2>2. Span * d = WORD + Span * k /\ Span * k \in Nat
    BY <2>1, Layout
  <2> QED BY <1>1, <1>2, <2>2, Layout
<1>7. d = 0 \/ d = 1 \/ d >= 2
  BY <1>2
<1>8. d \in Indices
  BY <1>2, <1>6, Layout DEF Indices
<1>9. d = 0 <=> a < USER_SPACE_START
  BY <1>1, <1>3, <1>4, <1>5, <1>7, Layout
<1>10. d = 1 <=> a \in USER_SPACE_START..(USER_SPACE_END - 1)
  BY <1>1, <1>3, <1>4, <1>5, <1>7, Layout
<1> QED BY <1>8, <1>9, <1>10 DEF d

-----------------------------------------------------------------------------
(* The invariant *)

\* What paging::init leaves in memory, for as long as the machine runs.
Tables ==
  /\ PAGE_TABLE_0 = [i \in Indices |-> Entry(i * PAGE_SIZE, TRUE, FALSE)]
  /\ PAGE_TABLE_1 = [i \in Indices |-> Entry(USER_SPACE_START + i * PAGE_SIZE, TRUE, TRUE)]
  /\ PAGE_DIRECTORY = [i \in Indices |-> CASE i = 0 -> Entry(0, TRUE, FALSE)
                                         [] i = 1 -> Entry(1, TRUE, TRUE)
                                         [] OTHER -> Entry(0, FALSE, FALSE)]

\* The return code of the last call tells what the check found.
Checked ==
  /\ BufferRead => user_range_contains(ebx, ecx)
  /\ eax = "ERR_INVALID_POINTER" => ecx # 0 /\ ~user_range_contains(ebx, ecx)

PagingIInv == PagingTypeOK /\ (paging_on => Tables) /\ Checked

\* With those tables the MMU lets ring 3 reach the user half and nothing else,
\* and maps every page to itself.
LEMMA MMU ==
  ASSUME Tables, paging_on, NEW a \in U32
  PROVE  /\ UserAccessible(a) <=> a \in USER_SPACE_START..(USER_SPACE_END - 1)
         /\ Mapped(a) => Translate(a) = a
<1> DEFINE d == DirSlot(a)
           s == TableSlot(a)
           r == a % PAGE_SIZE
           pde == PAGE_DIRECTORY[DirSlot(a)]
<1>0. a \in Nat
  BY Layout DEF U32
<1>1. d \in Indices /\ (d = 0 <=> a < USER_SPACE_START)
      /\ (d = 1 <=> a \in USER_SPACE_START..(USER_SPACE_END - 1))
  BY DirectoryEntry
<1>2. s \in Indices /\ r \in 0..(PAGE_SIZE - 1) /\ a = Span * d + (s * PAGE_SIZE + r)
  BY <1>0, Decompose
<1>3. d = 0 => pde = Entry(0, TRUE, FALSE)
  BY <1>1 DEF Tables
<1>4. d = 1 => pde = Entry(1, TRUE, TRUE)
  BY <1>1 DEF Tables
<1>5. d # 0 /\ d # 1 => pde = Entry(0, FALSE, FALSE)
  BY <1>1 DEF Tables
<1>6. PAGE_TABLE_0[s] = Entry(s * PAGE_SIZE, TRUE, FALSE)
  BY <1>2 DEF Tables
<1>7. PAGE_TABLE_1[s] = Entry(USER_SPACE_START + s * PAGE_SIZE, TRUE, TRUE)
  BY <1>2, SMTT(20) DEF Tables
<1>8. UserAccessible(a) <=> d = 1
  BY <1>3, <1>4, <1>5, <1>6, <1>7 DEF UserAccessible, Mapped, Entry, TableAt
<1>9. ASSUME Mapped(a) PROVE Translate(a) = a
  <2>1. d = 0 \/ d = 1
    <3>1. PAGE_DIRECTORY[DirSlot(a)].present
      BY <1>9, Zenon DEF Mapped
    <3>2. ~Entry(0, FALSE, FALSE).present
      BY DEF Entry
    <3> QED BY <3>1, <3>2, <1>5, Zenon
  <2>2. CASE d = 0
    <3>1. Translate(a) = s * PAGE_SIZE + r
      BY <2>2, <1>3, <1>6 DEF Translate, TableAt, Entry
    <3>2. a = s * PAGE_SIZE + r
      BY <2>2, <1>2, Layout DEF Indices
    <3> QED BY <3>1, <3>2
  <2>3. CASE d = 1
    <3>1. Translate(a) = (USER_SPACE_START + s * PAGE_SIZE) + r
      BY <2>3, <1>4, <1>7 DEF Translate, TableAt, Entry
    <3>2. s * PAGE_SIZE \in Nat
      BY <1>2, Layout DEF Indices
    <3>3. a = (USER_SPACE_START + s * PAGE_SIZE) + r
      BY <2>3, <3>2, <1>2, Layout
    <3> QED BY <3>1, <3>3, SMTT(20)
  <2> QED BY <2>1, <2>2, <2>3
<1> QED BY <1>1, <1>8, <1>9

\* paging_off and no call yet.
LEMMA PagingInitIInv == PagingInit => PagingIInv
<1>1. 0 \in U32
  BY Layout DEF U32
<1> QED BY <1>1 DEF PagingInit, PagingIInv, PagingTypeOK, Checked, BufferRead

\* Only init writes the tables and only sys_print the registers.
LEMMA PagingNextKeepsIInv == PagingIInv /\ [PagingNext]_paging_vars => PagingIInv'
<1> SUFFICES ASSUME PagingIInv, [PagingNext]_paging_vars PROVE PagingIInv'
  OBVIOUS
<1>1. CASE init
  <2>1. PagingTypeOK'
    BY <1>1 DEF init, PagingIInv, PagingTypeOK
  <2>2. Tables'
    BY <1>1 DEF init, Tables
  <2>3. Checked'
    BY <1>1 DEF init, PagingIInv, Checked, BufferRead, user_range_contains, Fits
  <2> QED BY <2>1, <2>2, <2>3 DEF PagingIInv
<1>2. CASE sys_print
  <2>1. Tables' /\ paging_on'
    BY <1>2 DEF sys_print, PagingIInv, Tables
  <2>2. PICK ptr \in U32, length \in U32, utf8 \in BOOLEAN :
          /\ ebx' = ptr /\ ecx' = length
          /\ eax' = IF validate_user_buffer(ptr, length) # "Ok" THEN validate_user_buffer(ptr, length)
                    ELSE IF utf8 THEN "Success" ELSE "ERR_INVALID_UTF8"
    BY <1>2 DEF sys_print
  <2>3. PagingTypeOK'
    BY <2>1, <2>2 DEF PagingTypeOK, validate_user_buffer
  <2>4. Checked'
    <3>1. BufferRead' => user_range_contains(ptr, length)
      <4> SUFFICES ASSUME ~user_range_contains(ptr, length) PROVE ~BufferRead'
        OBVIOUS
      <4>1. validate_user_buffer(ptr, length) \in {"ERR_INVALID_LENGTH", "ERR_INVALID_POINTER"}
        BY DEF validate_user_buffer
      <4>2. eax' = validate_user_buffer(ptr, length)
        BY <2>2, <4>1
      <4> QED BY <4>1, <4>2 DEF BufferRead
    <3>2. eax' = "ERR_INVALID_POINTER" => length # 0 /\ ~user_range_contains(ptr, length)
      BY <2>2 DEF validate_user_buffer
    <3>3. user_range_contains(ebx, ecx)' <=> user_range_contains(ptr, length)
      BY <2>2 DEF user_range_contains, Fits
    <3> QED BY <2>2, <3>1, <3>2, <3>3 DEF Checked
  <2> QED BY <2>1, <2>3, <2>4 DEF PagingIInv
<1>3. CASE UNCHANGED paging_vars
  BY <1>3 DEF paging_vars, PagingIInv, PagingTypeOK, Tables, Checked, BufferRead, user_range_contains, Fits
<1> QED BY <1>1, <1>2, <1>3 DEF PagingNext

\* The tables stay as init wrote them, and every code names what was checked.
THEOREM PagingInductive == PagingSpec => []PagingIInv
BY PagingInitIInv, PagingNextKeepsIInv, PTL DEF PagingSpec

\* SYS_PRINT reads only memory the program could read itself, for every layout
\* of this shape and every pointer and length.
THEOREM PrintIsConfined == PagingSpec => []PrintReadsUserMemory
<1>1. PagingIInv => PrintReadsUserMemory
  <2> SUFFICES ASSUME PagingIInv, BufferRead, NEW a \in Buffer
               PROVE  UserAccessible(a) /\ Translate(a) = a
    BY DEF PrintReadsUserMemory
  <2>1. paging_on /\ Tables
    BY DEF PagingIInv, PagingTypeOK, BufferRead
  <2>2. ebx \in Nat /\ ecx \in Nat
    BY Layout DEF PagingIInv, PagingTypeOK, U32
  <2>3. a \in USER_SPACE_START..(USER_SPACE_END - 1) /\ a \in U32
    BY <2>2, Layout DEF PagingIInv, Checked, user_range_contains, Buffer, U32
  <2>4. UserAccessible(a) /\ Mapped(a)
    BY <2>1, <2>3, MMU DEF UserAccessible
  <2> QED BY <2>1, <2>3, <2>4, MMU
<1> QED BY <1>1, PagingInductive, PTL

\* A buffer is refused for its address only if some byte of it is out of the
\* program's reach.
THEOREM RefusalsAreJustified == PagingSpec => []RefusalIsJustified
<1>1. PagingIInv => RefusalIsJustified
  <2> SUFFICES ASSUME PagingIInv, eax = "ERR_INVALID_POINTER"
               PROVE  \E a \in Buffer : ~UserAccessible(a)
    BY DEF RefusalIsJustified
  <2>1. paging_on /\ Tables
    BY DEF PagingIInv, PagingTypeOK
  <2>2. ebx \in Nat /\ ebx < WORD /\ ecx \in Nat \ {0}
    BY Layout DEF PagingIInv, PagingTypeOK, U32, Checked
  <2>3. ~(ebx >= USER_SPACE_START /\ ebx + ecx <= USER_SPACE_END)
    BY <2>2, Layout DEF PagingIInv, Checked, user_range_contains, Fits
  <2>4. CASE ebx < USER_SPACE_START
    <3>1. ebx \in Buffer /\ ebx \in U32
      BY <2>2, Layout DEF Buffer, U32
    <3>2. ~UserAccessible(ebx)
      BY <2>1, <2>2, <2>4, <3>1, MMU, Layout
    <3> QED BY <3>1, <3>2
  <2>5. CASE ebx + ecx > USER_SPACE_END
    <3> DEFINE a == ebx + ecx - 1
    <3>1. a \in Buffer /\ a \in Nat /\ a >= USER_SPACE_END
      BY <2>2, <2>5, Layout DEF Buffer
    <3> HIDE DEF a
    <3>2. CASE a \in U32
      <4>1. ~(a \in USER_SPACE_START..(USER_SPACE_END - 1))
        BY <3>1, Layout
      <4> QED BY <2>1, <3>1, <3>2, <4>1, MMU
    <3>3. CASE a \notin U32
      BY <3>1, <3>3 DEF UserAccessible, Mapped, U32
    <3> QED BY <3>2, <3>3
  <2> QED BY <2>2, <2>3, <2>4, <2>5, Layout
<1> QED BY <1>1, PagingInductive, PTL

\* Ring 3 reaches its half of the address space and no page of the kernel.
THEOREM KernelIsIsolated == PagingSpec => []KernelAndUserApart
<1>1. PagingIInv => KernelAndUserApart
  BY MMU DEF PagingIInv, KernelAndUserApart
<1> QED BY <1>1, PagingInductive, PTL

-----------------------------------------------------------------------------
(* The ring buffer *)

\* (i + 1) % Capacity of the source, without the modulus.
LEMMA FollowingSlot ==
  ASSUME NEW i \in Slots
  PROVE  Following(i) = IF i + 1 = Capacity THEN 0 ELSE i + 1
<1>1. CASE i + 1 < Capacity
  BY <1>1, QueueAssumption DEF Slots, Following
<1>2. CASE i + 1 = Capacity
  BY <1>2, QueueAssumption DEF Slots, Following
<1> QED BY <1>1, <1>2, QueueAssumption DEF Slots

\* The empty ring is well formed.
LEMMA InitRing == Init => RingOK
BY QueueAssumption DEF Init, RingOK, Slots

\* push keeps head, tail and len consistent, also when it refuses.
LEMMA PushKeepsRing ==
  ASSUME RingOK, NEW scancode \in Scancodes, push(scancode)
  PROVE  RingOK'
<1>1. CASE Full
  BY <1>1 DEF push, ring, RingOK
<1>2. CASE ~Full
  <2>1. /\ data' = [data EXCEPT ![tail] = scancode]
        /\ head' = head /\ len' = len + 1
        /\ tail' = IF tail + 1 = Capacity THEN 0 ELSE tail + 1
    BY <1>2, FollowingSlot DEF push, RingOK
  <2>2. data' \in [Slots -> Scancodes]
    BY <2>1 DEF RingOK
  <2>3. head' \in Slots /\ tail' \in Slots /\ len' \in 0 .. Capacity
    BY <1>2, <2>1, QueueAssumption DEF RingOK, Slots, Full
  <2>4. tail' = IF head' + len' < Capacity THEN head' + len' ELSE head' + len' - Capacity
    BY <1>2, <2>1, QueueAssumption DEF RingOK, Slots, Full
  <2> QED BY <2>2, <2>3, <2>4 DEF RingOK
<1> QED BY <1>1, <1>2

\* pop keeps head, tail and len consistent, also when it finds nothing.
LEMMA PopKeepsRing ==
  ASSUME RingOK, pop
  PROVE  RingOK'
<1>1. CASE len = 0
  BY <1>1 DEF pop, ring, RingOK
<1>2. CASE len # 0
  <2>1. /\ data' = data /\ tail' = tail /\ len' = len - 1
        /\ head' = IF head + 1 = Capacity THEN 0 ELSE head + 1
    BY <1>2, FollowingSlot DEF pop, RingOK
  <2>2. head' \in Slots /\ len' \in 0 .. Capacity
    BY <1>2, <2>1, QueueAssumption DEF RingOK, Slots
  <2>3. tail = IF head' + len' < Capacity THEN head' + len' ELSE head' + len' - Capacity
    BY <1>2, <2>1, QueueAssumption DEF RingOK, Slots
  <2> QED BY <2>1, <2>2, <2>3 DEF RingOK
<1> QED BY <1>1, <1>2

\* push and pop keep the indices inside the array and tail len slots ahead of
\* head, whatever the order of calls.
THEOREM RingInvariant == Spec => []RingOK
<1>1. RingOK /\ [Next]_vars => RingOK'
  <2> SUFFICES ASSUME RingOK, [Next]_vars PROVE RingOK'
    OBVIOUS
  <2>1. CASE \E scancode \in Scancodes : push(scancode)
    BY <2>1, PushKeepsRing
  <2>2. CASE pop
    BY <2>2, PopKeepsRing
  <2>3. CASE UNCHANGED vars
    BY <2>3 DEF vars, ring, RingOK
  <2> QED BY <2>1, <2>2, <2>3 DEF Next
<1> QED BY InitRing, <1>1, PTL DEF Spec

----------------------------------------------------------------------------
\* The live slots are in the array, apart from each other and from the slot
\* push writes, which is the one after the newest scancode.
LEMMA LiveSlots ==
  ASSUME RingOK
  PROVE  /\ \A i \in 1 .. len : Slot(i) \in Slots
         /\ len < Capacity => Slot(len + 1) = tail
         /\ len < Capacity => \A i \in 1 .. len : Slot(i) # tail
BY QueueAssumption DEF RingOK, Slots, Slot

\* What the ring stands for is a sequence of scancodes of length len.
LEMMA ContentsIsSequence ==
  ASSUME RingOK
  PROVE  /\ Contents \in Seq(Scancodes)
         /\ Len(Contents) = len /\ DOMAIN Contents = 1 .. len
         /\ len \in Nat
<1>1. len \in Nat
  BY DEF RingOK
<1>2. \A i \in 1 .. len : data[Slot(i)] \in Scancodes
  BY LiveSlots DEF RingOK
<1>3. Contents \in [1 .. len -> Scancodes]
  BY <1>2 DEF Contents
<1>4. Contents \in Seq(Scancodes) /\ Len(Contents) = len
  BY <1>1, <1>3
<1> QED BY <1>1, <1>3, <1>4

\* A push appends, unless the ring is full.
LEMMA PushAppends ==
  ASSUME RingOK, NEW scancode \in Scancodes, push(scancode)
  PROVE  Fifo!push(scancode)
<1>1. Len(Contents) = len /\ len \in Nat /\ Contents \in Seq(Scancodes)
  BY ContentsIsSequence
<1>2. CASE Full
  <2>1. pushed' = FALSE /\ Contents' = Contents /\ popped' = popped
    BY <1>2 DEF push, ring, Contents, Slot
  <2>2. (Len(Contents) < Capacity) = FALSE
    BY <1>1, <1>2, QueueAssumption DEF Full
  <2> QED BY <2>1, <2>2, Zenon DEF Fifo!push
<1>3. CASE ~Full
  <2>1. /\ data' = [data EXCEPT ![tail] = scancode]
        /\ head' = head /\ len' = len + 1
        /\ pushed' = TRUE /\ popped' = popped
    BY <1>3 DEF push
  <2>2. len < Capacity
    BY <1>3, QueueAssumption DEF RingOK, Full
  <2>3. \A i \in 1 .. len : data'[Slot(i)] = data[Slot(i)]
    BY <2>1, <2>2, LiveSlots DEF RingOK
  <2>4. data'[Slot(len + 1)] = scancode
    BY <2>1, <2>2, LiveSlots DEF RingOK
  <2>5. Contents' = [i \in 1 .. len + 1 |-> data'[Slot(i)]]
    BY <2>1 DEF Contents, Slot
  <2>6. \A i \in 1 .. len : Contents[i] = data[Slot(i)] /\ Contents[i] \in Scancodes
    BY <1>1 DEF Contents
  <2> DEFINE more == [i \in 1 .. len + 1 |-> data'[Slot(i)]]
  <2>7. /\ \A i \in 1 .. len : more[i] = Contents[i]
        /\ more[len + 1] = scancode
    BY <1>1, <2>3, <2>4, <2>6
  <2>8. more \in Seq(Scancodes) /\ Len(more) = len + 1
    <3>1. \A i \in 1 .. len + 1 : data'[Slot(i)] \in Scancodes
      BY <1>1, <2>3, <2>4, <2>6
    <3> QED BY <1>1, <3>1
  <2> HIDE DEF more
  <2>9. /\ Append(Contents, scancode) \in Seq(Scancodes)
        /\ Len(Append(Contents, scancode)) = len + 1
        /\ \A i \in 1 .. len : Append(Contents, scancode)[i] = Contents[i]
        /\ Append(Contents, scancode)[len + 1] = scancode
    BY <1>1, AppendProperties
  <2>10. \A i \in 1 .. Len(more) : more[i] = Append(Contents, scancode)[i]
    BY <1>1, <2>7, <2>8, <2>9
  <2>11. more = Append(Contents, scancode)
    BY <2>8, <2>9, <2>10, SeqEqual
  <2>12. Contents' = Append(Contents, scancode)
    BY <2>5, <2>11 DEF more
  <2>13. (Len(Contents) < Capacity) = TRUE
    BY <1>1, <2>2
  <2> QED BY <2>1, <2>12, <2>13, Zenon DEF Fifo!push
<1> QED BY <1>2, <1>3

\* A pop takes the oldest scancode.
LEMMA PopTakesHead ==
  ASSUME RingOK, pop
  PROVE  Fifo!pop
<1>1. Len(Contents) = len /\ len \in Nat /\ Contents \in Seq(Scancodes)
  BY ContentsIsSequence
<1>2. CASE len = 0
  <2>1. popped' = <<>> /\ Contents' = Contents /\ pushed' = pushed
    BY <1>2 DEF pop, ring, Contents, Slot
  <2>2. Contents = <<>>
    BY <1>1, <1>2
  <2> QED BY <2>1, <2>2 DEF Fifo!pop
<1>3. CASE len # 0
  <2>1. /\ data' = data /\ len' = len - 1
        /\ head' = IF head + 1 = Capacity THEN 0 ELSE head + 1
        /\ popped' = <<data[head]>> /\ pushed' = pushed
    BY <1>3, FollowingSlot DEF pop, Oldest, RingOK
  <2>2. \A i \in 1 .. len - 1 : Slot(i)' = Slot(i + 1)
    BY <2>1, QueueAssumption DEF Slot, RingOK, Slots
  <2> DEFINE rest == [i \in 1 .. len - 1 |-> data[Slot(i + 1)]]
  <2>3. Contents' = rest
    BY <2>1, <2>2 DEF Contents
  <2>4. \A i \in 1 .. len : Contents[i] = data[Slot(i)] /\ Contents[i] \in Scancodes
    BY <1>1 DEF Contents
  <2>5. /\ rest \in Seq(Scancodes) /\ Len(rest) = len - 1
        /\ \A i \in 1 .. len - 1 : rest[i] = Contents[i + 1]
    BY <1>1, <1>3, <2>4
  <2> HIDE DEF rest
  <2>6. /\ Contents # <<>> /\ Head(Contents) = Contents[1]
        /\ Tail(Contents) \in Seq(Scancodes) /\ Len(Tail(Contents)) = len - 1
        /\ \A i \in 1 .. len - 1 : Tail(Contents)[i] = Contents[i + 1]
    <3>1. Contents # <<>> /\ Head(Contents) = Contents[1]
      BY <1>1, <1>3
    <3> QED BY <1>1, <3>1, HeadTailProperties
  <2>7. Contents' = Tail(Contents)
    <3>1. rest = Tail(Contents)
      BY <2>5, <2>6, SeqEqual
    <3> QED BY <3>1, <2>3
  <2>8. Contents[1] = data[head]
    BY <1>1, <1>3, QueueAssumption DEF Contents, Slot, RingOK, Slots
  <2> QED BY <2>1, <2>6, <2>7, <2>8 DEF Fifo!pop
<1> QED BY <1>2, <1>3

\* The ring buffer of shell.rs implements the bounded FIFO: every accepted
\* scancode comes out exactly once, in order, and one is refused only when
\* Capacity of them wait.
THEOREM RingIsFifo == Spec => ImplementsFifo
<1>1. Init => Fifo!Init
  BY DEF Init, Fifo!Init, Contents
<1>2. RingOK /\ [Next]_vars => [Fifo!Next]_<<Contents, pushed, popped>>
  <2> SUFFICES ASSUME RingOK, [Next]_vars
               PROVE  [Fifo!Next]_<<Contents, pushed, popped>>
    OBVIOUS
  <2>1. CASE \E scancode \in Scancodes : push(scancode)
    BY <2>1, PushAppends DEF Fifo!Next
  <2>2. CASE pop
    BY <2>2, PopTakesHead DEF Fifo!Next
  <2>3. CASE UNCHANGED vars
    BY <2>3 DEF vars, ring, Contents, Slot
  <2> QED BY <2>1, <2>2, <2>3 DEF Next
<1> QED BY <1>1, <1>2, RingInvariant, PTL DEF Spec, ImplementsFifo, Fifo!Spec

-----------------------------------------------------------------------------
(* The key tables *)

\* A scancode that one row of a table holds is looked up in that row.
LEMMA TableLookup ==
  ASSUME NEW rows, NEW r \in rows, NEW c \in DOMAIN r,
         \A q \in rows : c \in DOMAIN q => q = r
  PROVE  c \in DOMAIN Table(rows) /\ Table(rows)[c] = r[c]
<1>1. c \in UNION {DOMAIN q : q \in rows}
  OBVIOUS
<1>2. (CHOOSE q \in rows : c \in DOMAIN q) = r
  OBVIOUS
<1> QED BY <1>1, <1>2 DEF Table

\* A table holds the scancodes of its rows.
LEMMA TableDomain ==
  ASSUME NEW rows, NEW c, \A q \in rows : c \notin DOMAIN q
  PROVE  c \notin DOMAIN Table(rows)
BY DEF Table

\* The letter a.
LEMMA LetterKeys ==
  /\ 30 \in DOMAIN Lower /\ Lower[30] = "a" /\ Upper[30] = "A"
  /\ \A c \in {9, 72, 75} : c \notin DOMAIN Lower
<1>1. 30 \in DOMAIN Lower /\ Lower[30] = "a"
  <2> DEFINE r == Row(30, <<"a", "s", "d", "f", "g", "h", "j", "k", "l">>)
             p == Row(16, <<"q", "w", "e", "r", "t", "y", "u", "i", "o", "p">>)
             q == Row(44, <<"z", "x", "c", "v", "b", "n", "m">>)
  <2>1. 30 \in DOMAIN r /\ r[30] = "a"
    BY DEF Row
  <2>2. 30 \notin DOMAIN p /\ 30 \notin DOMAIN q
    BY DEF Row
  <2>3. Lower = Table({p, r, q})
    BY DEF Lower
  <2> HIDE DEF p, q, r
  <2> QED BY <2>1, <2>2, <2>3, TableLookup
<1>2. Upper[30] = "A"
  <2> DEFINE r == Row(30, <<"A", "S", "D", "F", "G", "H", "J", "K", "L">>)
             p == Row(16, <<"Q", "W", "E", "R", "T", "Y", "U", "I", "O", "P">>)
             q == Row(44, <<"Z", "X", "C", "V", "B", "N", "M">>)
  <2>1. 30 \in DOMAIN r /\ r[30] = "A"
    BY DEF Row
  <2>2. 30 \notin DOMAIN p /\ 30 \notin DOMAIN q
    BY DEF Row
  <2>3. Upper = Table({p, r, q})
    BY DEF Upper
  <2> HIDE DEF p, q, r
  <2> QED BY <2>1, <2>2, <2>3, TableLookup
<1>3. ASSUME NEW c \in {9, 72, 75} PROVE c \notin DOMAIN Lower
  <2> DEFINE r == Row(30, <<"a", "s", "d", "f", "g", "h", "j", "k", "l">>)
             p == Row(16, <<"q", "w", "e", "r", "t", "y", "u", "i", "o", "p">>)
             q == Row(44, <<"z", "x", "c", "v", "b", "n", "m">>)
  <2>1. c \notin DOMAIN p /\ c \notin DOMAIN q /\ c \notin DOMAIN r
    BY <1>3 DEF Row
  <2>2. Lower = Table({p, r, q})
    BY DEF Lower
  <2> HIDE DEF p, q, r
  <2> QED BY <2>1, <2>2, TableDomain
<1> QED BY <1>1, <1>2, <1>3

\* The digit 8 and the keypad keys 8 and 4, in the table of keys without shift.
LEMMA UnshiftedKeys ==
  /\ \A c \in {9, 72, 75} : c \in DOMAIN Unshifted
  /\ Unshifted[9] = "8" /\ Unshifted[72] = "8" /\ Unshifted[75] = "4"
<1> DEFINE r == Row(2, <<"1", "2", "3", "4", "5", "6", "7", "8", "9", "0", "-", "=">>)
           s == Row(71, <<"7", "8", "9", "-", "4", "5", "6", "+", "1", "2", "3", "0", ".">>)
           r1 == Row(26, <<"[", "]">>)
           r2 == Row(39, <<";", "'", "grave">>)
           r3 == Row(43, <<"\\">>)
           r4 == Row(51, <<",", ".", "/">>)
           r5 == Row(57, <<" ">>)
           r6 == Row(55, <<"*">>)
           others == {r1, r2, r3, r4, r5, r6}
<1>1. 9 \in DOMAIN r /\ r[9] = "8" /\ 72 \notin DOMAIN r /\ 75 \notin DOMAIN r
  BY DEF Row
<1>2. /\ 72 \in DOMAIN s /\ s[72] = "8" /\ 75 \in DOMAIN s /\ s[75] = "4"
      /\ 9 \notin DOMAIN s
  BY DEF Row
<1>3. \A c \in {9, 72, 75} : \A q \in others : c \notin DOMAIN q
  <2> SUFFICES ASSUME NEW c \in {9, 72, 75} PROVE \A q \in others : c \notin DOMAIN q
    BY Zenon
  <2>1. c \notin DOMAIN r1 /\ c \notin DOMAIN r2 /\ c \notin DOMAIN r3
    BY DEF Row
  <2>2. c \notin DOMAIN r4 /\ c \notin DOMAIN r5 /\ c \notin DOMAIN r6
    BY DEF Row
  <2> HIDE DEF r1, r2, r3, r4, r5, r6
  <2> QED BY <2>1, <2>2
<1>4. Unshifted = Table({r, s} \cup others)
  <2>1. Keypad \cup {r, r1, r2, r3, r4, r5} = {r, s} \cup others
    <3>1. Keypad = {r6, s}
      BY DEF Keypad
    <3> HIDE DEF r, s, r1, r2, r3, r4, r5, r6
    <3> QED BY <3>1
  <2> QED BY <2>1, Zenon DEF Unshifted
<1> DEFINE rows == {r, s} \cup others
<1> HIDE DEF r, s, others
<1>5. \A q \in rows : 9 \in DOMAIN q => q = r
  BY <1>2, <1>3
<1>6. \A c \in {72, 75} : \A q \in rows : c \in DOMAIN q => q = s
  BY <1>1, <1>3
<1>7. r \in rows /\ s \in rows
  OBVIOUS
<1> HIDE DEF rows
<1>8. 9 \in DOMAIN Table(rows) /\ Table(rows)[9] = r[9]
  BY <1>1, <1>5, <1>7, TableLookup
<1>9. \A c \in {72, 75} : c \in DOMAIN Table(rows) /\ Table(rows)[c] = s[c]
  BY <1>2, <1>6, <1>7, TableLookup
<1> QED BY <1>1, <1>2, <1>4, <1>8, <1>9 DEF rows

\* The same keys in the table of keys with shift.
LEMMA ShiftedKeys ==
  Shifted[9] = "*" /\ Shifted[72] = "8" /\ Shifted[75] = "4"
<1> DEFINE r == Row(2, <<"!", "@", "#", "$", "%", "^", "&", "*", "(", ")", "_", "+">>)
           s == Row(71, <<"7", "8", "9", "-", "4", "5", "6", "+", "1", "2", "3", "0", ".">>)
           r1 == Row(26, <<"{", "}">>)
           r2 == Row(39, <<":", "\"", "~">>)
           r3 == Row(43, <<"|">>)
           r4 == Row(51, <<"<", ">", "?">>)
           r5 == Row(57, <<" ">>)
           r6 == Row(55, <<"*">>)
           others == {r1, r2, r3, r4, r5, r6}
<1>1. 9 \in DOMAIN r /\ r[9] = "*" /\ 72 \notin DOMAIN r /\ 75 \notin DOMAIN r
  <2> DEFINE row == <<"!", "@", "#", "$", "%", "^", "&", "*", "(", ")", "_", "+">>
  <2>1. row[8] = "*" /\ Len(row) = 12
    BY Zenon
  <2>2. r = Row(2, row)
    BY Zenon
  <2> HIDE DEF r, row
  <2> QED BY <2>1, <2>2 DEF Row
<1>2. /\ 72 \in DOMAIN s /\ s[72] = "8" /\ 75 \in DOMAIN s /\ s[75] = "4"
      /\ 9 \notin DOMAIN s
  BY DEF Row
<1>3. \A c \in {9, 72, 75} : \A q \in others : c \notin DOMAIN q
  <2> SUFFICES ASSUME NEW c \in {9, 72, 75} PROVE \A q \in others : c \notin DOMAIN q
    BY Zenon
  <2>1. c \notin DOMAIN r1 /\ c \notin DOMAIN r2 /\ c \notin DOMAIN r3
    BY DEF Row
  <2>2. c \notin DOMAIN r4 /\ c \notin DOMAIN r5 /\ c \notin DOMAIN r6
    BY DEF Row
  <2> HIDE DEF r1, r2, r3, r4, r5, r6
  <2> QED BY <2>1, <2>2
<1>4. Shifted = Table({r, s} \cup others)
  <2>1. Keypad \cup {r, r1, r2, r3, r4, r5} = {r, s} \cup others
    <3>1. Keypad = {r6, s}
      BY DEF Keypad
    <3> HIDE DEF r, s, r1, r2, r3, r4, r5, r6
    <3> QED BY <3>1
  <2> QED BY <2>1, Zenon DEF Shifted
<1> DEFINE rows == {r, s} \cup others
<1> HIDE DEF r, s, others
<1>5. \A q \in rows : 9 \in DOMAIN q => q = r
  BY <1>2, <1>3
<1>6. \A c \in {72, 75} : \A q \in rows : c \in DOMAIN q => q = s
  BY <1>1, <1>3
<1>7. r \in rows /\ s \in rows
  OBVIOUS
<1> HIDE DEF rows
<1>8. 9 \in DOMAIN Table(rows) /\ Table(rows)[9] = r[9]
  BY <1>1, <1>5, <1>7, TableLookup
<1>9. \A c \in {72, 75} : c \in DOMAIN Table(rows) /\ Table(rows)[c] = s[c]
  BY <1>2, <1>6, <1>7, TableLookup
<1> QED BY <1>1, <1>2, <1>4, <1>8, <1>9 DEF rows

-----------------------------------------------------------------------------
(* The decoder, and what a run of bytes does to it *)

KeyboardStates ==
  [shift_pressed : BOOLEAN, caps_lock : BOOLEAN, extended_prefix : BOOLEAN]
Wishes ==
  {"None", "HistoryUp", "HistoryDown", "Enter", "Backspace", "Tab", "a", "A", "8", "*", "4"}
Sent == [byte : Nat, wanted : Wishes]

\* What process_scancode makes of one byte: the next state and the action.
Decode(kb, scancode) ==
  IF scancode = E0 THEN [kb EXCEPT !.extended_prefix = TRUE]
  ELSE IF kb.extended_prefix THEN AfterPrefix(kb, scancode)
  ELSE AfterPlain(kb, scancode)
Asks(kb, scancode) ==
  IF scancode = E0 THEN "None"
  ELSE IF kb.extended_prefix THEN ExtendedAction(scancode)
  ELSE PlainAction(kb, scancode)

\* st are the states the decoder goes through when it starts in kb and decodes the
\* bytes of q; if exact, every byte asks for what its key stood for.
Trail(st, kb, q, exact) ==
  /\ st \in [0 .. Len(q) -> KeyboardStates]
  /\ st[0] = kb
  /\ \A i \in 1 .. Len(q) : st[i] = Decode(st[i - 1], q[i].byte)
  /\ exact => \A i \in 1 .. Len(q) : Asks(st[i - 1], q[i].byte) = q[i].wanted

\* Decoding q leads from kb to end.
Leads(kb, q, end, exact) == \E st : Trail(st, kb, q, exact) /\ st[Len(q)] = end

\* Decoding keeps the type of the decoder's state.
LEMMA DecodeType ==
  ASSUME NEW kb \in KeyboardStates, NEW b \in Nat
  PROVE  Decode(kb, b) \in KeyboardStates
<1>1. [kb EXCEPT !.extended_prefix = TRUE] \in KeyboardStates
  BY Zenon DEF KeyboardStates
<1>2. AfterPrefix(kb, b) \in KeyboardStates
  BY Zenon DEF AfterPrefix, KeyboardStates
<1>3. AfterPlain(kb, b) \in KeyboardStates
  <2>1. is_release(b) \in BOOLEAN
    BY DEF is_release
  <2>2. [kb EXCEPT !.shift_pressed = ~is_release(b)] \in KeyboardStates
    BY <2>1, Zenon DEF KeyboardStates
  <2>3. [kb EXCEPT !.caps_lock = ~@] \in KeyboardStates
    BY Zenon DEF KeyboardStates
  <2> QED BY <2>2, <2>3, Zenon DEF AfterPlain
<1> QED BY <1>1, <1>2, <1>3, Zenon DEF Decode

\* Nothing to decode changes nothing.
LEMMA LeadsNowhere ==
  ASSUME NEW kb \in KeyboardStates, NEW exact
  PROVE  Leads(kb, <<>>, kb, exact)
<1> DEFINE st == [i \in 0 .. 0 |-> kb]
<1>1. Trail(st, kb, <<>>, exact) /\ st[Len(<<>>)] = kb
  BY DEF Trail
<1> QED BY <1>1, Zenon DEF Leads

\* One byte.
LEMMA LeadsOne ==
  ASSUME NEW kb \in KeyboardStates, NEW e \in Sent, NEW exact,
         exact => Asks(kb, e.byte) = e.wanted
  PROVE  Leads(kb, <<e>>, Decode(kb, e.byte), exact)
<1> DEFINE st == [i \in 0 .. 1 |-> IF i = 0 THEN kb ELSE Decode(kb, e.byte)]
<1>1. Decode(kb, e.byte) \in KeyboardStates
  BY DecodeType DEF Sent
<1>2. st \in [0 .. 1 -> KeyboardStates] /\ st[0] = kb /\ st[1] = Decode(kb, e.byte)
  BY <1>1
<1> HIDE DEF st
<1>3. Len(<<e>>) = 1 /\ <<e>>[1] = e
  OBVIOUS
<1>4. \A i \in 1 .. 1 : i = 1 /\ i - 1 = 0
  OBVIOUS
<1>5. Trail(st, kb, <<e>>, exact)
  BY <1>2, <1>3, <1>4 DEF Trail
<1> QED BY <1>2, <1>3, <1>5 DEF Leads

\* A trail stays among the states of the decoder.
LEMMA LeadsType ==
  ASSUME NEW kb, NEW q \in Seq(Sent), NEW end, NEW exact, Leads(kb, q, end, exact)
  PROVE  kb \in KeyboardStates /\ end \in KeyboardStates
<1>1. PICK st : Trail(st, kb, q, exact) /\ st[Len(q)] = end
  BY DEF Leads
<1>2. Len(q) \in Nat
  OBVIOUS
<1> QED BY <1>1, <1>2 DEF Trail

\* Two runs of bytes after one another.
LEMMA LeadsOn ==
  ASSUME NEW p \in Seq(Sent), NEW q \in Seq(Sent), NEW a, NEW b, NEW c, NEW exact,
         Leads(a, p, b, exact), Leads(b, q, c, exact)
  PROVE  Leads(a, p \o q, c, exact)
<1>1. PICK s : Trail(s, a, p, exact) /\ s[Len(p)] = b
  BY DEF Leads
<1>2. PICK t : Trail(t, b, q, exact) /\ t[Len(q)] = c
  BY DEF Leads
<1> DEFINE m == Len(p)
           n == Len(q)
<1>3. /\ m \in Nat /\ n \in Nat /\ Len(p \o q) = m + n
      /\ \A i \in 1 .. m : (p \o q)[i] = p[i]
      /\ \A i \in m + 1 .. m + n : (p \o q)[i] = q[i - m]
  OBVIOUS
<1>4. /\ s \in [0 .. m -> KeyboardStates] /\ s[0] = a /\ s[m] = b
      /\ \A i \in 1 .. m : s[i] = Decode(s[i - 1], p[i].byte)
      /\ exact => \A i \in 1 .. m : Asks(s[i - 1], p[i].byte) = p[i].wanted
  BY <1>1 DEF Trail
<1>5. /\ t \in [0 .. n -> KeyboardStates] /\ t[0] = b /\ t[n] = c
      /\ \A i \in 1 .. n : t[i] = Decode(t[i - 1], q[i].byte)
      /\ exact => \A i \in 1 .. n : Asks(t[i - 1], q[i].byte) = q[i].wanted
  BY <1>2 DEF Trail
<1> HIDE DEF m, n
<1> DEFINE st == Join(s, m, t, n)
<1>6. /\ st \in Walks(KeyboardStates, m + n)
      /\ \A i \in 0 .. m : st[i] = s[i]
      /\ \A i \in m .. m + n : st[i] = t[i - m]
  <2>1. /\ m \in Nat /\ n \in Nat /\ s[m] = t[0]
        /\ s \in Walks(KeyboardStates, m) /\ t \in Walks(KeyboardStates, n)
    BY <1>3, <1>4, <1>5, Zenon DEF Walks
  <2> QED BY <2>1, Joined
<1> HIDE DEF st
<1>7. ASSUME NEW i \in 1 .. m + n
      PROVE  /\ st[i] = Decode(st[i - 1], (p \o q)[i].byte)
             /\ exact => Asks(st[i - 1], (p \o q)[i].byte) = (p \o q)[i].wanted
  <2>1. CASE i <= m
    <3>1. i \in 1 .. m /\ i \in 0 .. m /\ i - 1 \in 0 .. m
      BY <2>1, <1>3, Positions, Zenon
    <3>2. st[i] = s[i] /\ st[i - 1] = s[i - 1] /\ (p \o q)[i] = p[i]
      BY <3>1, <1>3, <1>6, Zenon
    <3> QED BY <3>1, <3>2, <1>4, Zenon
  <2>2. CASE ~(i <= m)
    <3> DEFINE j == i - m
    <3>1. /\ j \in 1 .. n /\ i \in m .. m + n /\ i - 1 \in m .. m + n /\ i \in m + 1 .. m + n
          /\ (i - 1) - m = j - 1
      BY <2>2, <1>3, Positions, ZenonT(30)
    <3>2. st[i] = t[j] /\ st[i - 1] = t[j - 1] /\ (p \o q)[i] = q[j]
      BY <3>1, <1>3, <1>6, Zenon
    <3> HIDE DEF j
    <3> QED BY <3>1, <3>2, <1>5, Zenon
  <2> QED BY <2>1, <2>2, Zenon
<1>8. st[0] = a /\ st[m + n] = c
  <2>1. 0 \in 0 .. m /\ m + n \in m .. m + n /\ (m + n) - m = n
    BY <1>3, Positions, Zenon
  <2> QED BY <2>1, <1>4, <1>5, <1>6, Zenon
<1>9. Trail(st, a, p \o q, exact)
  <2> DEFINE w == p \o q
  <2>1. Len(w) = m + n
    BY <1>3
  <2>2. \A i \in 1 .. m + n : st[i] = Decode(st[i - 1], w[i].byte)
    BY <1>7, Zenon
  <2>3. exact => \A i \in 1 .. m + n : Asks(st[i - 1], w[i].byte) = w[i].wanted
    BY <1>7, Zenon
  <2> HIDE DEF w
  <2>4. Trail(st, a, w, exact)
    BY <2>1, <2>2, <2>3, <1>6, <1>8, Zenon DEF Trail, Walks
  <2> QED BY <2>4, Zenon DEF w
<1> QED BY <1>3, <1>8, <1>9 DEF Leads

\* The first of several bytes is decoded.
LEMMA LeadsRest ==
  ASSUME NEW q \in Seq(Sent), q # <<>>, NEW kb, NEW end, NEW exact,
         Leads(kb, q, end, exact)
  PROVE  /\ Leads(Decode(kb, Head(q).byte), Tail(q), end, exact)
         /\ exact => Asks(kb, Head(q).byte) = Head(q).wanted
<1>1. PICK s : Trail(s, kb, q, exact) /\ s[Len(q)] = end
  BY DEF Leads
<1> DEFINE n == Len(q) - 1
           st == [i \in 0 .. n |-> s[i + 1]]
<1>2. /\ n \in Nat /\ Len(q) = n + 1 /\ Len(Tail(q)) = n /\ Head(q) = q[1]
      /\ \A i \in 1 .. n : Tail(q)[i] = q[i + 1]
  OBVIOUS
<1>3. /\ s \in [0 .. n + 1 -> KeyboardStates] /\ s[0] = kb /\ s[n + 1] = end
      /\ \A i \in 1 .. n + 1 : s[i] = Decode(s[i - 1], q[i].byte)
      /\ exact => \A i \in 1 .. n + 1 : Asks(s[i - 1], q[i].byte) = q[i].wanted
  BY <1>1, <1>2 DEF Trail
<1> HIDE DEF n
<1>4. st \in [0 .. n -> KeyboardStates] /\ \A i \in 0 .. n : st[i] = s[i + 1]
  BY <1>2, <1>3
<1> HIDE DEF st
<1>5. 1 \in 1 .. n + 1 /\ 1 - 1 = 0 /\ 0 \in 0 .. n /\ n \in 0 .. n
  BY <1>2
<1>6. st[0] = Decode(kb, Head(q).byte) /\ (exact => Asks(kb, Head(q).byte) = Head(q).wanted)
  BY <1>2, <1>3, <1>4, <1>5
<1>7. ASSUME NEW i \in 1 .. n
      PROVE  /\ st[i] = Decode(st[i - 1], Tail(q)[i].byte)
             /\ exact => Asks(st[i - 1], Tail(q)[i].byte) = Tail(q)[i].wanted
  <2>1. i + 1 \in 1 .. n + 1 /\ (i + 1) - 1 = i /\ (i - 1) + 1 = i /\ i \in 0 .. n /\ i - 1 \in 0 .. n
    BY <1>2
  <2>2. st[i] = s[i + 1] /\ st[i - 1] = s[i] /\ Tail(q)[i] = q[i + 1]
    BY <2>1, <1>2, <1>4
  <2>3. /\ s[i + 1] = Decode(s[i], q[i + 1].byte)
        /\ exact => Asks(s[i], q[i + 1].byte) = q[i + 1].wanted
    BY <2>1, <1>3, ZenonT(30)
  <2> QED BY <2>2, <2>3, Zenon
<1>8. Trail(st, Decode(kb, Head(q).byte), Tail(q), exact)
  BY <1>2, <1>4, <1>6, <1>7 DEF Trail
<1> QED BY <1>2, <1>3, <1>4, <1>5, <1>6, <1>8 DEF Leads

\* The first of two runs of bytes.
LEMMA LeadsHalfway ==
  ASSUME NEW p \in Seq(Sent), NEW q \in Seq(Sent), NEW a, NEW c, NEW exact,
         Leads(a, p \o q, c, exact)
  PROVE  \E b : Leads(a, p, b, exact)
<1> DEFINE w == p \o q
           m == Len(p)
           n == Len(q)
<1>1. PICK s : Trail(s, a, w, exact)
  BY Zenon DEF Leads
<1> DEFINE st == [i \in 0 .. m |-> s[i]]
<1>2. m \in Nat /\ n \in Nat /\ Len(w) = m + n /\ \A i \in 1 .. m : w[i] = p[i]
  BY SMTT(20)
<1> HIDE DEF w, m, n
<1>3. /\ s \in [0 .. m + n -> KeyboardStates] /\ s[0] = a
      /\ \A i \in 1 .. m + n : s[i] = Decode(s[i - 1], w[i].byte)
      /\ exact => \A i \in 1 .. m + n : Asks(s[i - 1], w[i].byte) = w[i].wanted
  BY <1>1, <1>2 DEF Trail
<1>4. st \in [0 .. m -> KeyboardStates] /\ \A i \in 0 .. m : st[i] = s[i]
  BY <1>2, <1>3
<1> HIDE DEF st
<1>5. ASSUME NEW i \in 1 .. m
      PROVE  /\ st[i] = Decode(st[i - 1], p[i].byte)
             /\ exact => Asks(st[i - 1], p[i].byte) = p[i].wanted
  <2>1. i \in 1 .. m + n /\ i \in 0 .. m /\ i - 1 \in 0 .. m
    BY <1>2
  <2> QED BY <2>1, <1>2, <1>3, <1>4, Zenon
<1>6. st[0] = a
  <2>1. 0 \in 0 .. m
    BY <1>2
  <2> QED BY <2>1, <1>3, <1>4, Zenon
<1>7. Trail(st, a, p, exact)
  BY <1>4, <1>5, <1>6, Zenon DEF Trail, m
<1> QED BY <1>7, Zenon DEF Leads

-----------------------------------------------------------------------------
(* The bytes of a key event *)

\* A byte with its label.
LEMMA Labelled ==
  ASSUME NEW b \in Nat, NEW m \in Wishes
  PROVE  LET e == [byte |-> b, wanted |-> m]
         IN  e \in Sent /\ e.byte = b /\ e.wanted = m
BY DEF Sent

\* Labelled bytes are told apart by byte and label.
LEMMA SameLabel ==
  ASSUME NEW e \in Sent, NEW f \in Sent, e.byte = f.byte, e.wanted = f.wanted
  PROVE  e = f
BY DEF Sent

\* Two bytes in a row.
LEMMA Pair ==
  ASSUME NEW x \in Nat, NEW y \in Nat
  PROVE  <<x>> \o <<y>> = <<x, y>>
<1> DEFINE p == <<x>>
           q == <<y>>
           r == <<x, y>>
<1>1. p \in Seq(Nat) /\ Len(p) = 1 /\ p[1] = x
  OBVIOUS
<1>2. q \in Seq(Nat) /\ Len(q) = 1 /\ q[1] = y
  OBVIOUS
<1>3. r \in Seq(Nat) /\ Len(r) = 2 /\ r[1] = x /\ r[2] = y
  OBVIOUS
<1> HIDE DEF p, q, r
<1>4. /\ p \o q \in Seq(Nat) /\ Len(p \o q) = Len(p) + Len(q)
      /\ \A i \in 1 .. Len(p) + Len(q) :
           (p \o q)[i] = IF i <= Len(p) THEN p[i] ELSE q[i - Len(p)]
  BY <1>1, <1>2, ConcatProperties
<1>5. (p \o q)[1] = r[1] /\ (p \o q)[2] = r[2] /\ Len(p \o q) = 2
  BY <1>1, <1>2, <1>3, <1>4
<1>6. ASSUME NEW i \in 1 .. 2 PROVE (p \o q)[i] = r[i]
  <2>1. i = 1 \/ i = 2
    OBVIOUS
  <2> QED BY <2>1, <1>5
<1>7. p \o q = r
  BY <1>3, <1>4, <1>5, <1>6, SeqEqual
<1> QED BY <1>7 DEF p, q, r

\* Send labels the bytes of an event.
LEMMA SendType ==
  ASSUME NEW a \in Seq(Nat), NEW m \in Wishes
  PROVE  /\ Send(a, m) \in Seq(Sent) /\ Len(Send(a, m)) = Len(a)
         /\ \A i \in 1 .. Len(a) :
              /\ Send(a, m)[i].byte = a[i]
              /\ Send(a, m)[i].wanted = IF i = Len(a) THEN m ELSE "None"
<1> DEFINE n == Len(a)
           label(i) == IF i = n THEN m ELSE "None"
           w(i) == [byte |-> a[i], wanted |-> label(i)]
           s == Send(a, m)
<1>1. n \in Nat /\ DOMAIN a = 1 .. n /\ \A i \in 1 .. n : a[i] \in Nat
  OBVIOUS
<1>2. s = [i \in 1 .. n |-> w(i)]
  BY <1>1, Zenon DEF Send
<1>3. \A i : label(i) \in Wishes
  BY DEF Wishes
<1> HIDE DEF label
<1>4. \A i \in 1 .. n : w(i) \in Sent /\ w(i).byte = a[i] /\ w(i).wanted = label(i)
  BY <1>1, <1>3, Labelled, Zenon
<1> HIDE DEF w, n, s
<1>5. \A i \in 1 .. n : s[i] = w(i)
  BY <1>2, Zenon
<1>6. s \in [1 .. n -> Sent]
  BY <1>2, <1>4, Zenon
<1>7. s \in Seq(Sent) /\ Len(s) = n
  BY <1>1, <1>6
<1> QED BY <1>4, <1>5, <1>7, Zenon DEF n, s, label

\* Only the last part of an event asks for something.
LEMMA SendParts ==
  ASSUME NEW a \in Seq(Nat), NEW b \in Seq(Nat), b # <<>>, NEW m \in Wishes
  PROVE  Send(a \o b, m) = Send(a, "None") \o Send(b, m)
<1> DEFINE j == Len(a)
           n == Len(b)
           w == a \o b
           s == Send(w, m)
           x == Send(a, "None")
           y == Send(b, m)
<1>1. /\ w \in Seq(Nat) /\ j \in Nat /\ n \in Nat /\ n # 0 /\ Len(w) = j + n
      /\ \A i \in 1 .. j : w[i] = a[i]
      /\ \A i \in j + 1 .. j + n : w[i] = b[i - j]
  OBVIOUS
<1> HIDE DEF w
<1>2. /\ s \in Seq(Sent) /\ Len(s) = j + n
      /\ \A i \in 1 .. j + n : /\ s[i].byte = w[i]
                               /\ s[i].wanted = IF i = j + n THEN m ELSE "None"
  <2>1. /\ s \in Seq(Sent) /\ Len(s) = Len(w)
        /\ \A i \in 1 .. Len(w) : /\ s[i].byte = w[i]
                                  /\ s[i].wanted = IF i = Len(w) THEN m ELSE "None"
    BY <1>1, SendType, Zenon
  <2>2. Len(w) = j + n
    BY <1>1
  <2> HIDE DEF s
  <2> QED BY <2>1, <2>2, Zenon
<1>3. /\ x \in Seq(Sent) /\ Len(x) = j
      /\ \A i \in 1 .. j : x[i].byte = a[i] /\ x[i].wanted = "None"
  <2>1. "None" \in Wishes
    BY DEF Wishes
  <2>2. /\ x \in Seq(Sent) /\ Len(x) = j
        /\ \A i \in 1 .. j : /\ x[i].byte = a[i]
                             /\ x[i].wanted = IF i = j THEN "None" ELSE "None"
    BY <2>1, SendType, Zenon
  <2> HIDE DEF x, j
  <2> QED BY <2>2
<1>4. /\ y \in Seq(Sent) /\ Len(y) = n
      /\ \A i \in 1 .. n : y[i].byte = b[i] /\ y[i].wanted = IF i = n THEN m ELSE "None"
  BY SendType, Zenon
<1> HIDE DEF j, n, s, x, y
<1>5. /\ x \o y \in Seq(Sent) /\ Len(x \o y) = j + n
      /\ \A i \in 1 .. j : (x \o y)[i] = x[i]
      /\ \A i \in j + 1 .. j + n : (x \o y)[i] = y[i - j]
  <2>1. /\ x \o y \in Seq(Sent) /\ Len(x \o y) = Len(x) + Len(y)
        /\ \A i \in 1 .. Len(x) + Len(y) :
             (x \o y)[i] = IF i <= Len(x) THEN x[i] ELSE y[i - Len(x)]
    BY <1>3, <1>4, ConcatProperties, Zenon
  <2> DEFINE z == x \o y
  <2> HIDE DEF z
  <2>2. /\ z \in Seq(Sent) /\ Len(z) = j + n
        /\ \A i \in 1 .. j + n : z[i] = IF i <= j THEN x[i] ELSE y[i - j]
    BY <2>1, <1>3, <1>4, Zenon DEF z
  <2>3. ASSUME NEW i \in 1 .. j PROVE z[i] = x[i]
    <3>1. i \in 1 .. j + n /\ i <= j
      BY <1>1
    <3> QED BY <3>1, <2>2, Zenon
  <2>4. ASSUME NEW i \in j + 1 .. j + n PROVE z[i] = y[i - j]
    <3>1. i \in 1 .. j + n /\ ~(i <= j)
      BY <1>1
    <3> QED BY <3>1, <2>2, Zenon
  <2> QED BY <2>2, <2>3, <2>4, Zenon DEF z
<1>6. ASSUME NEW i \in 1 .. j + n PROVE s[i] = (x \o y)[i]
  <2>1. s[i] \in Sent /\ (x \o y)[i] \in Sent
    BY <1>2, <1>5, ElementOfSeq, Zenon
  <2>2. CASE i <= j
    <3>1. i \in 1 .. j /\ i # j + n
      BY <2>2, <1>1
    <3>2. s[i].byte = a[i] /\ s[i].wanted = "None"
      BY <3>1, <1>1, <1>2, SMTT(20)
    <3>3. (x \o y)[i].byte = a[i] /\ (x \o y)[i].wanted = "None"
      BY <3>1, <1>3, <1>5, Zenon
    <3> QED BY <2>1, <3>2, <3>3, SameLabel, Zenon
  <2>3. CASE i > j
    <3> DEFINE k == i - j
               l == IF k = n THEN m ELSE "None"
    <3>1. i \in j + 1 .. j + n /\ k \in 1 .. n /\ (i = j + n <=> k = n)
      BY <2>3, <1>1
    <3>2. s[i].byte = b[k] /\ s[i].wanted = l
      BY <3>1, <1>1, <1>2, SMTT(20)
    <3>3. (x \o y)[i].byte = b[k] /\ (x \o y)[i].wanted = l
      BY <3>1, <1>4, <1>5, Zenon
    <3> QED BY <2>1, <3>2, <3>3, SameLabel, Zenon
  <2>4. i <= j \/ i > j
    BY <1>1
  <2> QED BY <2>2, <2>3, <2>4, Zenon
<1>7. s = x \o y
  BY <1>2, <1>5, <1>6, SeqEqual
<1> QED BY <1>7, Zenon DEF s, w, x, y

\* A single byte.
LEMMA SendOne ==
  ASSUME NEW b \in Nat, NEW m \in Wishes
  PROVE  LET e == [byte |-> b, wanted |-> m] IN e \in Sent /\ Send(<<b>>, m) = <<e>>
<1> DEFINE e == [byte |-> b, wanted |-> m]
           s == Send(<<b>>, m)
<1>1. <<b>> \in Seq(Nat) /\ Len(<<b>>) = 1 /\ <<b>>[1] = b
  OBVIOUS
<1>2. s \in Seq(Sent) /\ Len(s) = 1 /\ s[1].byte = b /\ s[1].wanted = m
  <2>1. 1 \in 1 .. 1
    OBVIOUS
  <2> QED BY <1>1, <2>1, SendType, Zenon
<1>3. e \in Sent /\ e.byte = b /\ e.wanted = m
  BY Labelled, Zenon
<1> HIDE DEF e, s
<1>4. s[1] \in Sent
  BY <1>2, ElementOfSeq
<1>5. s[1] = e
  BY <1>2, <1>3, <1>4, SameLabel, Zenon
<1>6. s = <<e>>
  BY <1>2, <1>5
<1> QED BY <1>3, <1>6 DEF e, s

\* A byte that follows 0xE0 leaves the state as it was before the two.
LEMMA ExtendedPair ==
  ASSUME NEW kb \in KeyboardStates, ~kb.extended_prefix, NEW c \in Nat, c # E0,
         NEW m \in Wishes, NEW exact, exact => ExtendedAction(c) = m
  PROVE  Leads(kb, Send(<<E0, c>>, m), kb, exact)
<1> DEFINE pre == [kb EXCEPT !.extended_prefix = TRUE]
           e == [byte |-> E0, wanted |-> "None"]
           f == [byte |-> c, wanted |-> m]
<1>1. E0 \in Nat
  BY DEF E0
<1>2. e \in Sent /\ e.byte = E0 /\ e.wanted = "None" /\ Send(<<E0>>, "None") = <<e>>
  <2>1. "None" \in Wishes
    BY DEF Wishes
  <2> QED BY <1>1, <2>1, SendOne, Labelled, Zenon
<1>3. f \in Sent /\ f.byte = c /\ f.wanted = m /\ Send(<<c>>, m) = <<f>>
  BY SendOne, Labelled, Zenon
<1>4. Send(<<E0, c>>, m) = <<e>> \o <<f>>
  <2>1. <<E0>> \in Seq(Nat) /\ <<c>> \in Seq(Nat) /\ <<c>> # <<>>
    BY <1>1
  <2>2. Send(<<E0>> \o <<c>>, m) = Send(<<E0>>, "None") \o Send(<<c>>, m)
    BY <2>1, SendParts, Zenon
  <2>3. <<E0>> \o <<c>> = <<E0, c>>
    BY <1>1, Pair, Zenon
  <2> QED BY <2>2, <2>3, <1>2, <1>3, Zenon
<1>5. pre \in KeyboardStates /\ pre.extended_prefix
  BY Zenon DEF KeyboardStates
<1>6. [pre EXCEPT !.extended_prefix = FALSE] = kb
  BY Zenon DEF KeyboardStates
<1>7. Decode(kb, E0) = pre /\ Asks(kb, E0) = "None"
  BY Zenon DEF Decode, Asks
<1> HIDE DEF pre, e, f
<1>8. Decode(pre, c) = kb /\ Asks(pre, c) = ExtendedAction(c)
  BY <1>5, <1>6, Zenon DEF Decode, Asks, AfterPrefix
<1>9. Leads(kb, <<e>>, pre, exact)
  BY <1>2, <1>7, LeadsOne, Zenon
<1>10. Leads(pre, <<f>>, kb, exact)
  BY <1>3, <1>5, <1>8, LeadsOne, Zenon
<1>11. <<e>> \in Seq(Sent) /\ <<f>> \in Seq(Sent)
  BY <1>2, <1>3
<1> QED BY <1>4, <1>9, <1>10, <1>11, LeadsOn, Zenon

\* A decoding that asks for what was meant is a decoding.
LEMMA LeadsLess ==
  ASSUME NEW kb, NEW q, NEW end, NEW exact, NEW less, less => exact,
         Leads(kb, q, end, exact)
  PROVE  Leads(kb, q, end, less)
BY Zenon DEF Leads, Trail

\* No bytes.
LEMMA SendNothing == Send(<<>>, "None") = <<>>
<1>1. <<>> \in Seq(Nat) /\ Len(<<>>) = 0 /\ "None" \in Wishes
  BY DEF Wishes
<1> DEFINE s == Send(<<>>, "None")
<1>2. s \in Seq(Sent) /\ Len(s) = 0
  BY <1>1, SendType, Zenon
<1> HIDE DEF s
<1>3. s = <<>>
  BY <1>2
<1> QED BY <1>3, Zenon DEF s

\* What follows 0xE0 in a fake shift.
FakeCodes == {42, 54, 42 + 128, 54 + 128}

\* The bytes of fake shifts, which only cursor keys have.
LEMMA FakeBytes ==
  ASSUME NEW k \in Keys, NEW fake \in FakeRelease(k) \cup FakePress(k)
  PROVE  /\ fake \in Seq(Nat) /\ (fake # <<>> => Extended(k))
         /\ fake = <<>> \/ \E c \in FakeCodes : fake = <<E0, c>>
<1>1. CASE fake = <<>>
  BY <1>1
<1>2. CASE fake # <<>>
  <2>1. PICK s \in FakeShifts(k) : fake = <<E0, s + 128>> \/ fake = <<E0, s>>
    BY <1>2, Zenon DEF FakeRelease, FakePress
  <2>2. s \in Shifts /\ Extended(k)
    BY <2>1, Zenon DEF FakeShifts
  <2>3. PICK c \in FakeCodes : fake = <<E0, c>>
    BY <2>1, <2>2 DEF Shifts, LShift, RShift, FakeCodes
  <2>4. <<E0, c>> \in Seq(Nat)
    BY <2>3 DEF E0, FakeCodes
  <2> QED BY <2>2, <2>3, <2>4, Zenon
<1> QED BY <1>1, <1>2

\* The fake shifts around a cursor key pass the decoder without a trace.
LEMMA FakeShiftsIgnored ==
  ASSUME NEW kb \in KeyboardStates, ~kb.extended_prefix, NEW k \in Keys, NEW exact,
         NEW fake \in FakeRelease(k) \cup FakePress(k)
  PROVE  Leads(kb, Send(fake, "None"), kb, exact)
<1>1. CASE fake = <<>>
  BY <1>1, SendNothing, LeadsNowhere, Zenon
<1>2. CASE fake # <<>>
  <2>1. PICK c \in FakeCodes : fake = <<E0, c>>
    BY <1>2, FakeBytes, Zenon
  <2>2. c \in Nat /\ c # E0 /\ ExtendedAction(c) = "None" /\ "None" \in Wishes
    BY <2>1 DEF ExtendedAction, E0, Wishes, FakeCodes
  <2> QED BY <2>1, <2>2, ExtendedPair, Zenon
<1> QED BY <1>1, <1>2

\* The bytes of one key, with the prefix if it has one, and its last byte.
Own(k, c) == Prefix(k) \o <<c>>
PressByte(k) == k % 256
ReleaseByte(k) == (k % 256) + 128

\* What the bytes of a key are.
LEMMA OwnBytes ==
  ASSUME NEW k \in Keys, NEW c \in Nat
  PROVE  /\ Prefix(k) \in Seq(Nat) /\ Own(k, c) \in Seq(Nat) /\ Own(k, c) # <<>>
         /\ Extended(k) => Own(k, c) = <<E0, c>>
         /\ ~Extended(k) => Own(k, c) = <<c>>
<1>1. <<c>> \in Seq(Nat) /\ <<c>> # <<>> /\ <<>> \o <<c>> = <<c>> /\ <<>> \in Seq(Nat)
  OBVIOUS
<1>2. E0 \in Nat /\ <<E0>> \in Seq(Nat) /\ <<E0, c>> \in Seq(Nat) /\ <<E0, c>> # <<>>
  BY DEF E0
<1>3. <<E0>> \o <<c>> = <<E0, c>>
  BY <1>2, Pair, Zenon
<1> QED BY <1>1, <1>2, <1>3, Zenon DEF Prefix, Own

\* The state and the action after the bytes of key k that end with c.
AfterKey(kb, k, c) == IF Extended(k) THEN kb ELSE AfterPlain(kb, c)
KeyAsks(kb, k, c) == IF Extended(k) THEN ExtendedAction(c) ELSE PlainAction(kb, c)

\* Decoding the bytes of one key.
LEMMA Stroke ==
  ASSUME NEW kb \in KeyboardStates, ~kb.extended_prefix, NEW k \in Keys,
         NEW c \in Nat, c # E0, NEW m \in Wishes,
         NEW exact, exact => KeyAsks(kb, k, c) = m
  PROVE  Leads(kb, Send(Own(k, c), m), AfterKey(kb, k, c), exact)
<1>1. CASE Extended(k)
  <2>1. AfterKey(kb, k, c) = kb /\ KeyAsks(kb, k, c) = ExtendedAction(c)
    BY <1>1, Zenon DEF AfterKey, KeyAsks
  <2>2. Leads(kb, Send(<<E0, c>>, m), kb, exact)
    BY <2>1, ExtendedPair, Zenon
  <2> QED BY <1>1, <2>1, <2>2, OwnBytes, Zenon
<1>2. CASE ~Extended(k)
  <2> DEFINE e == [byte |-> c, wanted |-> m]
  <2>1. AfterKey(kb, k, c) = AfterPlain(kb, c) /\ KeyAsks(kb, k, c) = PlainAction(kb, c)
    BY <1>2, Zenon DEF AfterKey, KeyAsks
  <2>2. e \in Sent /\ e.byte = c /\ e.wanted = m /\ Send(<<c>>, m) = <<e>>
    BY SendOne, Labelled, Zenon
  <2>3. Decode(kb, c) = AfterPlain(kb, c) /\ Asks(kb, c) = PlainAction(kb, c)
    BY Zenon DEF Decode, Asks
  <2> HIDE DEF e
  <2>4. Leads(kb, <<e>>, AfterPlain(kb, c), exact)
    BY <2>1, <2>2, <2>3, LeadsOne, Zenon
  <2> QED BY <1>2, <2>1, <2>2, <2>4, OwnBytes, Zenon
<1> QED BY <1>1, <1>2, Zenon

\* What the decoder's state is after a key was struck.
LEMMA PressDecoded ==
  ASSUME NEW kb \in KeyboardStates, ~kb.extended_prefix, NEW k \in Keys
  PROVE  LET n == AfterKey(kb, k, PressByte(k))
         IN  /\ n \in KeyboardStates /\ ~n.extended_prefix
             /\ n.shift_pressed <=> k \in Shifts \/ kb.shift_pressed
             /\ k # CapsLock => n.caps_lock = kb.caps_lock
             /\ k = CapsLock => n.caps_lock = ~kb.caps_lock
<1> DEFINE c == PressByte(k)
           n == AfterKey(kb, k, c)
<1>0. c = k % 256 /\ n = AfterKey(kb, k, c)
  BY DEF PressByte
<1> SUFFICES /\ n \in KeyboardStates /\ ~n.extended_prefix
             /\ n.shift_pressed <=> k \in Shifts \/ kb.shift_pressed
             /\ k # CapsLock => n.caps_lock = kb.caps_lock
             /\ k = CapsLock => n.caps_lock = ~kb.caps_lock
  BY Zenon
<1> HIDE DEF c, n
<1>1. CASE k \in Shifts
  <2>1. /\ ~Extended(k) /\ code_of(c) \in {42, 54} /\ ~is_release(c)
        /\ k # CapsLock /\ c # 58
    BY <1>0, <1>1 DEF Extended, Shifts, LShift, RShift, CapsLock, code_of, is_release
  <2>2. n = [kb EXCEPT !.shift_pressed = TRUE]
    <3>1. (~is_release(c)) = TRUE
      BY <2>1
    <3> QED BY <1>0, <2>1, <3>1, Zenon DEF AfterKey, AfterPlain
  <2>3. n \in KeyboardStates /\ n.extended_prefix = kb.extended_prefix
    BY <2>2, Zenon DEF KeyboardStates
  <2>4. n.shift_pressed /\ n.caps_lock = kb.caps_lock
    BY <2>2, Zenon DEF KeyboardStates
  <2> QED BY <1>1, <2>1, <2>3, <2>4, Zenon
<1>2. CASE k = CapsLock
  <2>1. ~Extended(k) /\ code_of(c) \notin {42, 54} /\ c = 58 /\ k \notin Shifts
    BY <1>0, <1>2 DEF Extended, Shifts, LShift, RShift, CapsLock, code_of
  <2>2. n = [kb EXCEPT !.caps_lock = ~@]
    BY <1>0, <2>1, Zenon DEF AfterKey, AfterPlain
  <2>3. n \in KeyboardStates /\ n.extended_prefix = kb.extended_prefix
    BY <2>2, Zenon DEF KeyboardStates
  <2>4. n.shift_pressed = kb.shift_pressed /\ n.caps_lock = ~kb.caps_lock
    BY <2>2, Zenon DEF KeyboardStates
  <2> QED BY <1>2, <2>1, <2>3, <2>4, Zenon
<1>3. CASE k \notin Shifts /\ k # CapsLock
  <2>1. Extended(k) \/ (code_of(c) \notin {42, 54} /\ c # 58)
    BY <1>0, <1>3, KeysAssumption
       DEF Extended, Shifts, LShift, RShift, CapsLock, Up, Down, Left, code_of
  <2>2. n = kb
    BY <1>0, <2>1, Zenon DEF AfterKey, AfterPlain
  <2> QED BY <1>3, <2>2, Zenon
<1> QED BY <1>1, <1>2, <1>3, Zenon

\* What the decoder's state is after a key was released.
LEMMA ReleaseDecoded ==
  ASSUME NEW kb \in KeyboardStates, ~kb.extended_prefix, NEW k \in Keys
  PROVE  LET n == AfterKey(kb, k, ReleaseByte(k))
         IN  /\ n \in KeyboardStates /\ ~n.extended_prefix
             /\ n.shift_pressed <=> k \notin Shifts /\ kb.shift_pressed
             /\ n.caps_lock = kb.caps_lock
<1> DEFINE c == ReleaseByte(k)
           n == AfterKey(kb, k, c)
<1>0. c = (k % 256) + 128 /\ n = AfterKey(kb, k, c)
  BY DEF ReleaseByte
<1> SUFFICES /\ n \in KeyboardStates /\ ~n.extended_prefix
             /\ n.shift_pressed <=> k \notin Shifts /\ kb.shift_pressed
             /\ n.caps_lock = kb.caps_lock
  BY Zenon
<1> HIDE DEF c, n
<1>1. CASE k \in Shifts
  <2>1. ~Extended(k) /\ code_of(c) \in {42, 54} /\ is_release(c) /\ c # 58
    BY <1>0, <1>1 DEF Extended, Shifts, LShift, RShift, code_of, is_release
  <2>2. n = [kb EXCEPT !.shift_pressed = FALSE]
    <3>1. (~is_release(c)) = FALSE
      BY <2>1
    <3> QED BY <1>0, <2>1, <3>1, Zenon DEF AfterKey, AfterPlain
  <2> QED BY <1>1, <2>2, Zenon DEF KeyboardStates
<1>2. CASE k \notin Shifts
  <2>1. Extended(k) \/ (code_of(c) \notin {42, 54} /\ c # 58)
    BY <1>0, <1>2, KeysAssumption
       DEF Extended, Shifts, LShift, RShift, CapsLock, Up, Down, Left, code_of
  <2>2. n = kb
    BY <1>0, <2>1, Zenon DEF AfterKey, AfterPlain
  <2> QED BY <1>2, <2>2, Zenon
<1> QED BY <1>1, <1>2, Zenon

\* The bytes of the keys are no prefixes, and a release asks for nothing.
LEMMA KeyBytes ==
  ASSUME NEW k \in Keys
  PROVE  /\ PressByte(k) \in Nat /\ PressByte(k) # E0
         /\ ReleaseByte(k) \in Nat /\ ReleaseByte(k) # E0
         /\ \A kb : KeyAsks(kb, k, ReleaseByte(k)) = "None"
<1>1. /\ PressByte(k) \in Nat /\ PressByte(k) # E0
      /\ ReleaseByte(k) \in Nat /\ ReleaseByte(k) # E0
  BY KeysAssumption
     DEF Shifts, LShift, RShift, CapsLock, Up, Down, Left, E0, PressByte, ReleaseByte
<1>2. /\ is_release(ReleaseByte(k)) /\ ExtendedAction(ReleaseByte(k)) = "None"
      /\ ReleaseByte(k) \notin {14, 15, 28}
  <2>1. ReleaseByte(k) >= 128
    BY KeysAssumption DEF Shifts, LShift, RShift, CapsLock, Up, Down, Left, ReleaseByte
  <2> QED BY <1>1, <2>1 DEF is_release, ExtendedAction
<1>3. \A kb : PlainAction(kb, ReleaseByte(k)) = "None"
  BY <1>2, Zenon DEF PlainAction
<1> QED BY <1>1, <1>2, <1>3, Zenon DEF KeyAsks

\* Every key stands for one of the wishes.
LEMMA MeaningType ==
  ASSUME NEW k \in Keys
  PROVE  Meaning(k) \in Wishes /\ (k \in Shifts => Meaning(k) = "None")
<1> DEFINE shifted == down \cap Shifts # {}
           upper == shifted # caps
<1>1. CASE k \in Shifts \cup {CapsLock, Left}
  <2>1. k \notin {Up, Down, 28, 14, 15, 30}
    BY <1>1 DEF Shifts, LShift, RShift, CapsLock, Up, Down, Left
  <2>2. Meaning(k) = "None"
    BY <1>1, <2>1, Zenon DEF Meaning
  <2> QED BY <2>2 DEF Wishes
<1>2. CASE k \in {Up, Down, 28, 14, 15}
  <2>1. Meaning(k) \in {"HistoryUp", "HistoryDown", "Enter", "Backspace", "Tab"} /\ k \notin Shifts
    BY <1>2 DEF Meaning, Shifts, LShift, RShift, CapsLock, Up, Down, Left
  <2> QED BY <2>1 DEF Wishes
<1>3. CASE k = 30
  <2>1. /\ k \notin Shifts \cup {CapsLock, Left} /\ k # Up /\ k # Down
        /\ k # 28 /\ k # 14 /\ k # 15
    BY <1>3 DEF Shifts, LShift, RShift, CapsLock, Up, Down, Left
  <2>2. Meaning(k) = Legend(k)[IF upper THEN 2 ELSE 1]
    BY <1>3, <2>1, Zenon DEF Meaning
  <2>3. Legend(k)[1] = "a" /\ Legend(k)[2] = "A"
    BY <1>3 DEF Legend
  <2> HIDE DEF upper
  <2> QED BY <2>1, <2>2, <2>3 DEF Wishes
<1>4. CASE k \in {9, 72, 75}
  <2>1. /\ k \notin Shifts \cup {CapsLock, Left} /\ k # Up /\ k # Down
        /\ k # 28 /\ k # 14 /\ k # 15 /\ k # 30
    BY <1>4 DEF Shifts, LShift, RShift, CapsLock, Up, Down, Left
  <2>2. Meaning(k) = Legend(k)[IF shifted THEN 2 ELSE 1]
    BY <2>1, Zenon DEF Meaning
  <2>3. Legend(k)[1] \in Wishes /\ Legend(k)[2] \in Wishes
    BY <1>4 DEF Legend, Wishes
  <2> HIDE DEF shifted
  <2> QED BY <2>1, <2>2, <2>3
<1> QED BY <1>1, <1>2, <1>3, <1>4, KeysAssumption, Zenon

\* While the decoder knows the shift and caps lock of the keyboard, the bytes of a
\* key ask for what the key stands for.
LEMMA MeaningDecoded ==
  ASSUME NEW kb, kb.shift_pressed = (down \cap Shifts # {}), kb.caps_lock = caps,
         NEW k \in Keys
  PROVE  KeyAsks(kb, k, PressByte(k)) = Meaning(k)
<1> DEFINE shifted == down \cap Shifts # {}
           upper == shifted # caps
<1> USE DEF LShift, RShift, CapsLock, Up, Down, Left, PressByte
<1>1. CASE k \in Shifts \cup {CapsLock}
  <2>1. /\ ~Extended(k) /\ k % 256 \in {42, 54, 58} /\ k \notin {Up, Down, 28, 14, 15, 30}
        /\ ~is_release(k % 256) /\ k % 256 \notin {14, 15, 28}
    BY <1>1 DEF Shifts, Extended, is_release
  <2>2. Meaning(k) = "None"
    BY <1>1, <2>1, Zenon DEF Meaning
  <2>3. PlainAction(kb, k % 256) = "None"
    BY <2>1, Zenon DEF PlainAction
  <2> QED BY <2>1, <2>2, <2>3, Zenon DEF KeyAsks
<1>2. CASE k \in {Up, Down, Left}
  <2>1. Extended(k)
    BY <1>2 DEF Extended
  <2>2. ExtendedAction(k % 256) = Meaning(k)
    BY <1>2 DEF Meaning, ExtendedAction, Shifts
  <2> QED BY <2>1, <2>2, Zenon DEF KeyAsks
<1>3. CASE k \in {14, 15, 28}
  <2>1. ~Extended(k) /\ ~is_release(k % 256) /\ k % 256 = k
    BY <1>3 DEF Extended, is_release
  <2>2. PlainAction(kb, k % 256) = Meaning(k)
    BY <1>3, <2>1 DEF Meaning, PlainAction, Shifts
  <2> QED BY <2>1, <2>2, Zenon DEF KeyAsks
<1>4. CASE k = 30
  <2>1. /\ k \notin Shifts \cup {CapsLock, Left} /\ k # Up /\ k # Down
        /\ k # 28 /\ k # 14 /\ k # 15
    BY <1>4 DEF Shifts
  <2>2. Meaning(k) = Legend(k)[IF upper THEN 2 ELSE 1]
    BY <1>4, <2>1, Zenon DEF Meaning
  <2>3. Legend(k)[1] = "a" /\ Legend(k)[2] = "A"
    BY <1>4 DEF Legend
  <2>4. ~Extended(k) /\ ~is_release(k % 256) /\ k % 256 = 30 /\ 30 \notin {42, 54, 58, 14, 15, 28}
    BY <1>4 DEF Extended, is_release
  <2>5. KeyAsks(kb, k, PressByte(k)) = map_key(30, shifted, caps)
    BY <2>4, ZenonT(30) DEF KeyAsks, PlainAction
  <2>6. map_key(30, shifted, caps) = IF caps # shifted THEN "A" ELSE "a"
    BY LetterKeys, Zenon DEF map_key
  <2>7. (caps # shifted) <=> upper
    BY Zenon
  <2> HIDE DEF upper, shifted
  <2> QED BY <2>2, <2>3, <2>5, <2>6, <2>7
<1>5. CASE k \in {9, 72, 75}
  <2>1. /\ k \notin Shifts \cup {CapsLock, Left} /\ k # Up /\ k # Down
        /\ k # 28 /\ k # 14 /\ k # 15 /\ k # 30
    BY <1>5 DEF Shifts
  <2>2. Meaning(k) = Legend(k)[IF shifted THEN 2 ELSE 1]
    BY <2>1, Zenon DEF Meaning
  <2>3. /\ ~Extended(k) /\ ~is_release(k % 256) /\ k % 256 = k
        /\ k \notin {42, 54, 58, 14, 15, 28}
    BY <1>5 DEF Extended, is_release
  <2>4. KeyAsks(kb, k, PressByte(k)) = map_key(k, shifted, caps)
    BY <2>3, ZenonT(30) DEF KeyAsks, PlainAction
  <2>5. map_key(k, shifted, caps) = IF shifted THEN Shifted[k] ELSE Unshifted[k]
    BY <1>5, LetterKeys, UnshiftedKeys, Zenon DEF map_key
  <2>6. Legend(k)[1] = Unshifted[k] /\ Legend(k)[2] = Shifted[k]
    BY <1>5, UnshiftedKeys, ShiftedKeys DEF Legend
  <2> HIDE DEF shifted
  <2> QED BY <2>2, <2>4, <2>5, <2>6
<1> QED BY <1>1, <1>2, <1>3, <1>4, <1>5, KeysAssumption, ZenonT(30)

-----------------------------------------------------------------------------
(* The inductive invariant of the keyboard *)

\* How the decoder stands to the keys held, once everything sent is decoded: after a
\* whole shift key has followed a loss, no prefix is pending; when it has been
\* released as well, shift_pressed is not stuck; and while exact, shift and caps
\* lock are the keyboard's.
Agrees(end, shifting, locked, exact, mend) ==
  /\ mend # "lost" => ~end.extended_prefix
  /\ mend = "healed" /\ end.shift_pressed => shifting
  /\ exact => end.shift_pressed = shifting /\ end.caps_lock = locked

\* The bytes to decode: those queued, and those on the wire unless some may be lost.
Coming == IF heal = "lost" THEN SCANCODE_QUEUE ELSE SCANCODE_QUEUE \o wire

\* Decoding the bytes to come leads to a state that agrees with the keyboard, and on
\* the way every byte asks for what was meant.
KeyboardInv ==
  /\ down \subseteq Keys /\ caps \in BOOLEAN /\ plain \in BOOLEAN
  /\ wire \in Seq(Sent) /\ SCANCODE_QUEUE \in Seq(Sent)
  /\ heal \in {"lost", "shift pressed", "healed"}
  /\ plain => heal = "healed" /\ action = wanted /\ ~(Shifts \subseteq down)
  /\ \E end : /\ Leads(KEYBOARD_STATE, Coming, end, plain)
              /\ Agrees(end, down \cap Shifts # {}, caps, plain, heal)

\* Nothing is held, sent or pending at the start.
LEMMA KeyboardInitInv == KeyboardInit => KeyboardInv
<1> SUFFICES ASSUME KeyboardInit PROVE KeyboardInv
  OBVIOUS
<1> DEFINE kb == [shift_pressed |-> FALSE, caps_lock |-> FALSE, extended_prefix |-> FALSE]
<1>1. /\ down = {} /\ caps = FALSE /\ plain = TRUE /\ wire = <<>> /\ SCANCODE_QUEUE = <<>>
      /\ KEYBOARD_STATE = kb /\ heal = "healed" /\ action = wanted
  BY DEF KeyboardInit
<1>2. /\ kb \in KeyboardStates /\ kb.shift_pressed = FALSE /\ kb.caps_lock = FALSE
      /\ ~kb.extended_prefix
  BY Zenon DEF KeyboardStates
<1> HIDE DEF kb
<1>3. Leads(kb, <<>>, kb, plain)
  BY <1>2, LeadsNowhere, Zenon
<1>4. Coming = <<>> /\ wire \in Seq(Sent) /\ SCANCODE_QUEUE \in Seq(Sent)
  BY <1>1 DEF Coming
<1>5. (down \cap Shifts # {}) = FALSE /\ ~(Shifts \subseteq down)
  BY <1>1 DEF Shifts
<1>6. Agrees(kb, down \cap Shifts # {}, caps, plain, heal)
  BY <1>1, <1>2, <1>5, Zenon DEF Agrees
<1>7. down \subseteq Keys /\ caps \in BOOLEAN /\ plain \in BOOLEAN
  BY <1>1
<1>8. heal \in {"lost", "shift pressed", "healed"}
  BY <1>1
<1> QED BY <1>1, <1>3, <1>4, <1>5, <1>6, <1>7, <1>8, Zenon DEF KeyboardInv

\* process_scancode decodes the first byte of the queue.
LEMMA DecodeKeepsInv ==
  ASSUME KeyboardInv, process_scancode
  PROVE  KeyboardInv'
<1> DEFINE kb == KEYBOARD_STATE
           q == SCANCODE_QUEUE
           b == Head(q).byte
<1>1. q # <<>> /\ q \in Seq(Sent) /\ wire \in Seq(Sent)
  BY DEF process_scancode, KeyboardInv
<1>2. /\ q' = Tail(q) /\ wanted' = Head(q).wanted
      /\ UNCHANGED <<down, caps, wire, plain, heal>>
  BY DEF process_scancode
<1>3. KEYBOARD_STATE' = Decode(kb, b) /\ action' = Asks(kb, b)
  BY Zenon DEF process_scancode, Decode, Asks
<1>4. PICK end : /\ Leads(kb, Coming, end, plain)
                 /\ Agrees(end, down \cap Shifts # {}, caps, plain, heal)
  BY Zenon DEF KeyboardInv
<1>5. Tail(q) \in Seq(Sent)
  BY <1>1
<1>6. Coming \in Seq(Sent) /\ Coming # <<>> /\ Head(Coming) = Head(q) /\ Coming' = Tail(Coming)
  <2>1. CASE heal = "lost"
    BY <1>1, <1>2, <2>1, Zenon DEF Coming
  <2>2. CASE heal # "lost"
    <3>1. Coming = q \o wire /\ Coming' = Tail(q) \o wire
      BY <1>2, <2>2, Zenon DEF Coming
    <3>2. q \o wire \in Seq(Sent) /\ q \o wire # <<>> /\ Head(q \o wire) = Head(q)
      BY <1>1
    <3>3. Tail(q \o wire) = Tail(q) \o wire
      BY <1>1
    <3> QED BY <3>1, <3>2, <3>3, Zenon
  <2> QED BY <2>1, <2>2
<1>7. /\ Leads(Decode(kb, Head(Coming).byte), Tail(Coming), end, plain)
      /\ plain => Asks(kb, Head(Coming).byte) = Head(Coming).wanted
  BY <1>4, <1>6, LeadsRest, Zenon
<1>8. plain' => action' = wanted'
  BY <1>2, <1>3, <1>6, <1>7, Zenon
<1>9. Leads(KEYBOARD_STATE', Coming', end, plain')
  BY <1>2, <1>3, <1>6, <1>7, Zenon
<1>10. Agrees(end, down' \cap Shifts # {}, caps', plain', heal')
  BY <1>2, <1>4, Zenon
<1>11. q' \in Seq(Sent)
  BY <1>2, <1>5, Zenon
<1> HIDE DEF kb, b
<1> QED BY <1>2, <1>8, <1>9, <1>10, <1>11, Zenon DEF KeyboardInv

\* keyboard_interrupt takes a byte from the wire to the queue, or drops it.
LEMMA ArrivalKeepsInv ==
  ASSUME KeyboardInv, keyboard_interrupt
  PROVE  KeyboardInv'
<1> DEFINE q == SCANCODE_QUEUE
<1>1. /\ wire # <<>> /\ q \in Seq(Sent) /\ wire \in Seq(Sent) /\ wire' = Tail(wire)
      /\ UNCHANGED <<down, caps, KEYBOARD_STATE, action, wanted>>
  BY DEF keyboard_interrupt, KeyboardInv
<1>2. Tail(wire) \in Seq(Sent) /\ Head(wire) \in Sent
  BY <1>1
<1>3. PICK end : /\ Leads(KEYBOARD_STATE, Coming, end, plain)
                 /\ Agrees(end, down \cap Shifts # {}, caps, plain, heal)
  BY Zenon DEF KeyboardInv
<1>4. plain => heal = "healed"
  BY Zenon DEF KeyboardInv
<1>5. CASE q' = Append(q, Head(wire)) /\ UNCHANGED <<plain, heal>>
  <2>1. /\ Append(q, Head(wire)) \in Seq(Sent) /\ <<Head(wire)>> \in Seq(Sent)
        /\ Append(q, Head(wire)) = q \o <<Head(wire)>>
        /\ Append(q, Head(wire)) \o Tail(wire) = q \o wire
    BY <1>1, HeadMoves
  <2>2. CASE heal = "lost"
    <3> DEFINE e == Head(wire)
               next == Decode(end, e.byte)
    <3>1. Coming = q /\ Coming' = q \o <<e>>
      BY <1>5, <2>1, <2>2, Zenon DEF Coming
    <3>2. ~plain'
      BY <1>4, <1>5, <2>2
    <3>3. Leads(KEYBOARD_STATE, q, end, plain')
      BY <1>3, <1>5, <3>1, Zenon
    <3>4. end \in KeyboardStates
      BY <1>1, <3>3, LeadsType, Zenon
    <3>5. Leads(end, <<e>>, next, plain')
      BY <1>2, <3>2, <3>4, LeadsOne, Zenon
    <3>6. Leads(KEYBOARD_STATE', Coming', next, plain')
      BY <1>1, <2>1, <3>1, <3>3, <3>5, LeadsOn, Zenon
    <3>7. Agrees(next, down' \cap Shifts # {}, caps', plain', heal')
      BY <1>5, <2>2, <3>2 DEF Agrees
    <3> QED BY <1>1, <1>2, <1>5, <2>1, <3>6, <3>7, Zenon DEF KeyboardInv
  <2>3. CASE heal # "lost"
    <3>1. Coming' = Coming
      BY <1>1, <1>5, <2>1, <2>3, Zenon DEF Coming
    <3>2. Leads(KEYBOARD_STATE', Coming', end, plain')
      BY <1>1, <1>3, <1>5, <3>1, Zenon
    <3>3. Agrees(end, down' \cap Shifts # {}, caps', plain', heal')
      BY <1>1, <1>3, <1>5, Zenon
    <3> QED BY <1>1, <1>2, <1>5, <2>1, <3>2, <3>3, Zenon DEF KeyboardInv
  <2> QED BY <2>2, <2>3
<1>6. CASE plain' = FALSE /\ heal' = "lost" /\ q' = q
  <2>1. Coming' = q
    BY <1>6, Zenon DEF Coming
  <2>2. PICK half : Leads(KEYBOARD_STATE, q, half, plain)
    <3>1. CASE heal = "lost"
      BY <1>3, <3>1, Zenon DEF Coming
    <3>2. CASE heal # "lost"
      <4>1. Leads(KEYBOARD_STATE, q \o wire, end, plain)
        BY <1>3, <3>2, Zenon DEF Coming
      <4> QED BY <1>1, <4>1, LeadsHalfway, Zenon
    <3> QED BY <3>1, <3>2
  <2>3. ~plain'
    BY <1>6, Zenon
  <2>4. Leads(KEYBOARD_STATE', Coming', half, plain')
    BY <1>1, <2>1, <2>2, <2>3, LeadsLess, Zenon
  <2>5. Agrees(half, down' \cap Shifts # {}, caps', plain', heal')
    BY <1>6 DEF Agrees
  <2>6. plain' \in BOOLEAN /\ heal' \in {"lost", "shift pressed", "healed"}
    BY <1>6
  <2> QED BY <1>1, <1>2, <1>6, <2>3, <2>4, <2>5, <2>6, Zenon DEF KeyboardInv
<1> QED BY <1>5, <1>6, Zenon DEF keyboard_interrupt

\* A key event keeps the invariant if its bytes lead from a state that agrees with
\* the keyboard before it to one that agrees with the keyboard after it.  Nothing is
\* claimed of its bytes between a loss and the next shift key.
LEMMA EventKeepsInv ==
  ASSUME KeyboardInv, wire = <<>>, wire' \in Seq(Sent),
         UNCHANGED <<SCANCODE_QUEUE, KEYBOARD_STATE, action, wanted>>,
         down' \subseteq Keys, caps' \in BOOLEAN, plain' \in BOOLEAN,
         heal' \in {"lost", "shift pressed", "healed"},
         plain' => plain /\ heal' = "healed" /\ ~(Shifts \subseteq down'),
         heal' # "lost" =>
           \A end \in KeyboardStates :
             Agrees(end, down \cap Shifts # {}, caps, plain, heal) =>
               \E next : /\ Leads(end, wire', next, plain')
                         /\ Agrees(next, down' \cap Shifts # {}, caps', plain', heal')
  PROVE  KeyboardInv'
<1> DEFINE q == SCANCODE_QUEUE
<1>1. PICK end : /\ Leads(KEYBOARD_STATE, Coming, end, plain)
                 /\ Agrees(end, down \cap Shifts # {}, caps, plain, heal)
  BY Zenon DEF KeyboardInv
<1>2. q \in Seq(Sent) /\ Coming = q
  <2>1. q \in Seq(Sent)
    BY Zenon DEF KeyboardInv
  <2> QED BY <2>1, ConcatEmptySeq, Zenon DEF Coming
<1>3. Leads(KEYBOARD_STATE, q, end, plain')
  BY <1>1, <1>2, LeadsLess, Zenon
<1>4. end \in KeyboardStates
  BY <1>2, <1>3, LeadsType, Zenon
<1>5. plain => action = wanted
  BY Zenon DEF KeyboardInv
<1>6. PICK next : /\ Leads(KEYBOARD_STATE, Coming', next, plain')
                  /\ Agrees(next, down' \cap Shifts # {}, caps', plain', heal')
  <2>1. CASE heal' = "lost"
    <3>1. Coming' = q
      BY <2>1, Zenon DEF Coming
    <3>2. Agrees(end, down' \cap Shifts # {}, caps', plain', heal')
      BY <2>1 DEF Agrees
    <3> QED BY <1>3, <3>1, <3>2, Zenon
  <2>2. CASE heal' # "lost"
    <3>1. Coming' = q \o wire'
      BY <2>2, Zenon DEF Coming
    <3>2. PICK next : /\ Leads(end, wire', next, plain')
                      /\ Agrees(next, down' \cap Shifts # {}, caps', plain', heal')
      BY <1>1, <1>4, <2>2, Zenon
    <3>3. Leads(KEYBOARD_STATE, q \o wire', next, plain')
      BY <1>2, <1>3, <3>2, LeadsOn, Zenon
    <3> QED BY <3>1, <3>2, <3>3, Zenon
  <2> QED BY <2>1, <2>2
<1>7. Leads(KEYBOARD_STATE', Coming', next, plain') /\ q' \in Seq(Sent)
  BY <1>2, <1>6, Zenon
<1> QED BY <1>5, <1>6, <1>7, Zenon DEF KeyboardInv

\* The last byte of a shift key takes a pending prefix with it.
LEMMA ShiftMends ==
  ASSUME NEW kb \in KeyboardStates, NEW k \in Shifts, NEW exact, ~exact,
         NEW shifting, NEW locked
  PROVE  \E next : /\ Leads(kb, Send(<<PressByte(k)>>, "None"), next, exact)
                   /\ Agrees(next, shifting, locked, exact, "shift pressed")
<1> DEFINE c == PressByte(k)
           e == [byte |-> c, wanted |-> "None"]
           next == Decode(kb, c)
<1>0. c \in Nat /\ "None" \in Wishes
  BY DEF Shifts, LShift, RShift, Wishes, PressByte
<1>1. c # E0 /\ code_of(c) \in {42, 54} /\ c # 58
  BY DEF Shifts, LShift, RShift, E0, code_of, PressByte
<1>2. e \in Sent /\ e.byte = c /\ Send(<<c>>, "None") = <<e>>
  BY <1>0, SendOne, Labelled, Zenon
<1> HIDE DEF e
<1>3. Leads(kb, <<e>>, next, exact)
  BY <1>2, LeadsOne, Zenon
<1>4. ~next.extended_prefix
  <2>1. CASE kb.extended_prefix
    <3>1. next = [kb EXCEPT !.extended_prefix = FALSE]
      BY <1>1, <2>1, Zenon DEF Decode, AfterPrefix
    <3> QED BY <3>1, Zenon DEF KeyboardStates
  <2>2. CASE ~kb.extended_prefix
    <3>1. next = [kb EXCEPT !.shift_pressed = ~is_release(c)]
      BY <1>1, <2>2, Zenon DEF Decode, AfterPlain
    <3> QED BY <2>2, <3>1, Zenon DEF KeyboardStates
  <2> QED BY <2>1, <2>2
<1>5. Agrees(next, shifting, locked, exact, "shift pressed")
  <2>1. "shift pressed" # "healed"
    OBVIOUS
  <2> QED BY <1>4, <2>1, Zenon DEF Agrees
<1> QED BY <1>2, <1>3, <1>5, Zenon

\* The bytes of an event that begins with other bytes than the key's own.
LEMMA PartsOfEvent ==
  ASSUME NEW u \in Seq(Nat), NEW k \in Keys, NEW c \in Nat, NEW m \in Wishes
  PROVE  /\ Send(u \o Prefix(k) \o <<c>>, m) = Send(u, "None") \o Send(Own(k, c), m)
         /\ Send(u, "None") \in Seq(Sent) /\ Send(Own(k, c), m) \in Seq(Sent)
<1> DEFINE p == Prefix(k)
           own == Own(k, c)
<1>1. p \in Seq(Nat) /\ own \in Seq(Nat) /\ own # <<>>
  BY OwnBytes, Zenon
<1>2. own = p \o <<c>>
  BY Zenon DEF Own
<1>3. "None" \in Wishes
  BY DEF Wishes
<1> HIDE DEF p, own
<1>4. u \o p \o <<c>> = u \o own
  BY <1>1, <1>2
<1>5. Send(u \o own, m) = Send(u, "None") \o Send(own, m)
  BY <1>1, SendParts, Zenon
<1>6. Send(u, "None") \in Seq(Sent) /\ Send(own, m) \in Seq(Sent)
  BY <1>1, <1>3, SendType, Zenon
<1> QED BY <1>4, <1>5, <1>6, Zenon DEF p, own

\* A key is struck.
LEMMA PressKeepsInv ==
  ASSUME KeyboardInv, NEW k \in Keys, press(k)
  PROVE  KeyboardInv'
<1> DEFINE shifting == down \cap Shifts # {}
           c == PressByte(k)
           m == Meaning(k)
<1>1. PICK undo \in FakeRelease(k) : wire' = Send(undo \o Prefix(k) \o <<c>>, m)
  BY Zenon DEF press, PressByte
<1>2. /\ wire = <<>> /\ down' = down \cup {k} /\ caps' = (caps # (k = CapsLock))
      /\ plain' = (plain /\ (k \in Shifts => ~shifting))
      /\ heal' = IF k \in Shifts /\ heal = "lost" THEN "shift pressed" ELSE heal
      /\ UNCHANGED <<SCANCODE_QUEUE, KEYBOARD_STATE, action, wanted>>
  BY Zenon DEF press
<1>3. /\ down \subseteq Keys /\ caps \in BOOLEAN /\ plain \in BOOLEAN
      /\ heal \in {"lost", "shift pressed", "healed"}
      /\ plain => heal = "healed" /\ ~(Shifts \subseteq down)
  BY Zenon DEF KeyboardInv
<1>4. c \in Nat /\ c # E0 /\ m \in Wishes /\ (k \in Shifts => m = "None")
  BY KeyBytes, MeaningType, Zenon
<1>5. undo \in Seq(Nat) /\ (undo # <<>> => Extended(k))
  BY FakeBytes, Zenon
<1>6. /\ wire' = Send(undo, "None") \o Send(Own(k, c), m)
      /\ Send(undo, "None") \in Seq(Sent) /\ Send(Own(k, c), m) \in Seq(Sent)
  BY <1>1, <1>4, <1>5, PartsOfEvent, Zenon
<1>7. ASSUME k \in Shifts PROVE wire' = Send(<<c>>, "None")
  <2>1. ~Extended(k)
    BY <1>7 DEF Extended, Shifts, LShift, RShift
  <2>2. undo = <<>> /\ Prefix(k) = <<>>
    BY <1>5, <2>1, Zenon DEF Prefix
  <2> HIDE DEF c, m
  <2>3. undo \o Prefix(k) \o <<c>> = <<c>>
    BY <1>4, <2>2
  <2> QED BY <1>1, <1>4, <1>7, <2>3, Zenon
<1>8. wire' \in Seq(Sent)
  BY <1>6, ConcatProperties, Zenon
<1>9. /\ down' \subseteq Keys /\ caps' \in BOOLEAN /\ plain' \in BOOLEAN
      /\ heal' \in {"lost", "shift pressed", "healed"}
  <2>1. down' \subseteq Keys
    BY <1>2, <1>3
  <2>2. caps' \in BOOLEAN /\ plain' \in BOOLEAN
    BY <1>2, <1>3, Zenon
  <2>3. heal' \in {"lost", "shift pressed", "healed"}
    BY <1>2, <1>3, Zenon
  <2> QED BY <2>1, <2>2, <2>3
<1>10. plain' => plain /\ (k \in Shifts => ~shifting)
  BY <1>2, Zenon
<1>11. plain' => plain /\ heal' = "healed" /\ ~(Shifts \subseteq down')
  <2> SUFFICES ASSUME plain' PROVE plain /\ heal' = "healed" /\ ~(Shifts \subseteq down')
    BY Zenon
  <2>1. plain /\ heal = "healed" /\ ~(Shifts \subseteq down) /\ (k \in Shifts => ~shifting)
    BY <1>3, <1>10, Zenon
  <2>2. heal' = "healed"
    BY <1>2, <2>1
  <2>3. ~(Shifts \subseteq down')
    BY <1>2, <2>1 DEF Shifts, LShift, RShift
  <2> QED BY <2>1, <2>2, <2>3
<1>12. (down' \cap Shifts # {}) <=> (k \in Shifts \/ shifting)
  BY <1>2
<1>13. ASSUME heal' # "lost",
              NEW end \in KeyboardStates, Agrees(end, shifting, caps, plain, heal)
       PROVE  \E next : /\ Leads(end, wire', next, plain')
                        /\ Agrees(next, down' \cap Shifts # {}, caps', plain', heal')
  <2>1. CASE heal = "lost"
    <3>1. k \in Shifts /\ heal' = "shift pressed"
      BY <1>2, <1>13, <2>1
    <3>2. ~plain'
      BY <1>11, <3>1
    <3>3. PICK next : /\ Leads(end, Send(<<c>>, "None"), next, plain')
                      /\ Agrees(next, down' \cap Shifts # {}, caps', plain', "shift pressed")
      BY <3>1, <3>2, ShiftMends, Zenon
    <3>4. wire' = Send(<<c>>, "None")
      BY <1>7, <3>1, Zenon
    <3> QED BY <3>1, <3>3, <3>4, Zenon
  <2>2. CASE heal # "lost"
    <3> DEFINE next == AfterKey(end, k, c)
    <3>1. heal' = heal /\ ~end.extended_prefix
      BY <1>2, <1>13, <2>2, Zenon DEF Agrees
    <3>2. plain' => KeyAsks(end, k, c) = m
      BY <1>10, <1>13, MeaningDecoded, Zenon DEF Agrees
    <3>3. Leads(end, Send(undo, "None"), end, plain')
      BY <3>1, FakeShiftsIgnored, Zenon
    <3>4. Leads(end, Send(Own(k, c), m), next, plain')
      BY <1>4, <3>1, <3>2, Stroke, Zenon
    <3>5. Leads(end, wire', next, plain')
      BY <1>6, <3>3, <3>4, LeadsOn, Zenon
    <3>6. /\ next \in KeyboardStates /\ ~next.extended_prefix
          /\ next.shift_pressed <=> k \in Shifts \/ end.shift_pressed
          /\ k # CapsLock => next.caps_lock = end.caps_lock
          /\ k = CapsLock => next.caps_lock = ~end.caps_lock
      BY <3>1, PressDecoded, Zenon
    <3> HIDE DEF next
    <3>7. heal' = "healed" /\ next.shift_pressed => down' \cap Shifts # {}
      BY <1>12, <1>13, <3>1, <3>6, Zenon DEF Agrees
    <3>8. ASSUME plain'
          PROVE  next.shift_pressed = (down' \cap Shifts # {}) /\ next.caps_lock = caps'
      <4>1. end.shift_pressed = shifting /\ end.caps_lock = caps
        BY <1>10, <1>13, <3>8, Zenon DEF Agrees
      <4>2. next.shift_pressed \in BOOLEAN /\ next.caps_lock \in BOOLEAN
        BY <3>6, Zenon DEF KeyboardStates
      <4>3. next.shift_pressed <=> (down' \cap Shifts # {})
        BY <1>12, <3>6, <4>1, Zenon
      <4>4. next.caps_lock = caps'
        BY <1>2, <1>3, <3>6, <4>1, <4>2, Zenon
      <4> QED BY <4>2, <4>3, <4>4, Zenon
    <3>9. Agrees(next, down' \cap Shifts # {}, caps', plain', heal')
      BY <3>6, <3>7, <3>8, Zenon DEF Agrees
    <3> QED BY <3>5, <3>9, Zenon
  <2> QED BY <2>1, <2>2
<1> QED BY <1>2, <1>8, <1>9, <1>11, <1>13, EventKeepsInv, Zenon

\* A key that is held is sent again.
LEMMA TypematicKeepsInv ==
  ASSUME KeyboardInv, NEW k \in Keys, typematic(k)
  PROVE  KeyboardInv'
<1> DEFINE shifting == down \cap Shifts # {}
           c == PressByte(k)
           m == Meaning(k)
<1>1. wire' = Send(Own(k, c), m)
  BY Zenon DEF typematic, PressByte, Own
<1>2. /\ wire = <<>> /\ k \in down /\ plain' = (plain /\ k # CapsLock)
      /\ UNCHANGED <<down, caps, SCANCODE_QUEUE, KEYBOARD_STATE, action, wanted, heal>>
  BY Zenon DEF typematic
<1>3. /\ down \subseteq Keys /\ caps \in BOOLEAN /\ plain \in BOOLEAN
      /\ heal \in {"lost", "shift pressed", "healed"}
      /\ plain => heal = "healed" /\ ~(Shifts \subseteq down)
  BY Zenon DEF KeyboardInv
<1>4. c \in Nat /\ c # E0 /\ m \in Wishes
  BY KeyBytes, MeaningType, Zenon
<1>5. wire' \in Seq(Sent)
  BY <1>1, <1>4, OwnBytes, SendType, Zenon
<1>6. plain' \in BOOLEAN /\ (plain' => plain /\ k # CapsLock)
  BY <1>2, <1>3, Zenon
<1>7. plain' => plain /\ heal' = "healed" /\ ~(Shifts \subseteq down')
  BY <1>2, <1>3, <1>6, Zenon
<1>8. k \in Shifts => shifting
  BY <1>2
<1>9. ASSUME heal' # "lost",
             NEW end \in KeyboardStates, Agrees(end, shifting, caps, plain, heal)
      PROVE  \E next : /\ Leads(end, wire', next, plain')
                       /\ Agrees(next, down' \cap Shifts # {}, caps', plain', heal')
  <2> DEFINE next == AfterKey(end, k, c)
  <2>1. ~end.extended_prefix
    BY <1>2, <1>9, Zenon DEF Agrees
  <2>2. plain' => KeyAsks(end, k, c) = m
    BY <1>6, <1>9, MeaningDecoded, Zenon DEF Agrees
  <2>3. Leads(end, wire', next, plain')
    BY <1>1, <1>4, <2>1, <2>2, Stroke, Zenon
  <2>4. /\ next \in KeyboardStates /\ ~next.extended_prefix
        /\ next.shift_pressed <=> k \in Shifts \/ end.shift_pressed
        /\ k # CapsLock => next.caps_lock = end.caps_lock
    BY <2>1, PressDecoded, Zenon
  <2> HIDE DEF next
  <2>5. heal = "healed" /\ next.shift_pressed => shifting
    BY <1>8, <1>9, <2>4, Zenon DEF Agrees
  <2>6. ASSUME plain' PROVE next.shift_pressed = shifting /\ next.caps_lock = caps
    <3>1. end.shift_pressed = shifting /\ end.caps_lock = caps
      BY <1>6, <1>9, <2>6, Zenon DEF Agrees
    <3>2. next.shift_pressed \in BOOLEAN
      BY <2>4, Zenon DEF KeyboardStates
    <3>3. next.shift_pressed <=> shifting
      BY <1>8, <2>4, <3>1, Zenon
    <3>4. next.caps_lock = caps
      BY <1>6, <2>4, <2>6, <3>1, Zenon
    <3> QED BY <3>2, <3>3, <3>4, Zenon
  <2>7. Agrees(next, shifting, caps, plain', heal)
    BY <2>4, <2>5, <2>6, Zenon DEF Agrees
  <2> QED BY <1>2, <2>3, <2>7, Zenon
<1>10. /\ down' \subseteq Keys /\ caps' \in BOOLEAN
       /\ heal' \in {"lost", "shift pressed", "healed"}
  BY <1>2, <1>3, Zenon
<1> QED BY <1>2, <1>5, <1>6, <1>7, <1>9, <1>10, EventKeepsInv, Zenon

\* A key is released.
LEMMA ReleaseKeepsInv ==
  ASSUME KeyboardInv, NEW k \in Keys, release(k)
  PROVE  KeyboardInv'
<1> DEFINE shifting == down \cap Shifts # {}
           c == ReleaseByte(k)
           own == Own(k, c)
<1>1. PICK redo \in FakePress(k) : wire' = Send(own \o redo, "None")
  BY Zenon DEF release, ReleaseByte, Own
<1>2. /\ wire = <<>> /\ k \in down /\ down' = down \ {k}
      /\ heal' = IF k \in Shifts /\ heal = "shift pressed" THEN "healed" ELSE heal
      /\ UNCHANGED <<caps, SCANCODE_QUEUE, KEYBOARD_STATE, action, wanted, plain>>
  BY Zenon DEF release
<1>3. /\ down \subseteq Keys /\ caps \in BOOLEAN /\ plain \in BOOLEAN
      /\ heal \in {"lost", "shift pressed", "healed"}
      /\ plain => heal = "healed" /\ ~(Shifts \subseteq down)
  BY Zenon DEF KeyboardInv
<1>4. c \in Nat /\ c # E0 /\ \A kb : KeyAsks(kb, k, c) = "None"
  BY KeyBytes, Zenon
<1>5. own \in Seq(Nat) /\ redo \in Seq(Nat)
  BY <1>4, OwnBytes, FakeBytes, Zenon
<1>6. "None" \in Wishes
  BY DEF Wishes
<1>7. /\ wire' = Send(own, "None") \o Send(redo, "None")
      /\ Send(own, "None") \in Seq(Sent) /\ Send(redo, "None") \in Seq(Sent)
  <2> HIDE DEF own
  <2>1. Send(own, "None") \in Seq(Sent) /\ Send(redo, "None") \in Seq(Sent)
    BY <1>5, <1>6, SendType, Zenon
  <2>2. CASE redo = <<>>
    <3>1. own \o redo = own /\ Send(own, "None") \o <<>> = Send(own, "None")
      BY <1>5, <2>1, <2>2, ConcatEmptySeq, Zenon
    <3> QED BY <1>1, <2>1, <2>2, <3>1, SendNothing, Zenon
  <2>3. CASE redo # <<>>
    <3>1. Send(own \o redo, "None") = Send(own, "None") \o Send(redo, "None")
      BY <1>5, <1>6, <2>3, SendParts, Zenon
    <3> QED BY <1>1, <2>1, <3>1, Zenon
  <2> QED BY <2>2, <2>3, Zenon
<1>8. wire' \in Seq(Sent)
  BY <1>7, ConcatProperties, Zenon
<1>9. down' \subseteq Keys /\ caps' \in BOOLEAN /\ plain' \in BOOLEAN
  BY <1>2, <1>3, Zenon
<1>10. heal' \in {"lost", "shift pressed", "healed"} /\ (heal = "healed" => heal' = "healed")
  BY <1>2, <1>3, Zenon
<1>11. plain' => plain /\ heal' = "healed" /\ ~(Shifts \subseteq down')
  <2>1. ~(Shifts \subseteq down) => ~(Shifts \subseteq down')
    BY <1>2
  <2> QED BY <1>2, <1>3, <1>10, <2>1, Zenon
<1>12. k \notin Shifts => (down' \cap Shifts # {} <=> shifting)
  BY <1>2
<1>13. plain /\ k \in Shifts => down' \cap Shifts = {}
  BY <1>2, <1>3 DEF Shifts
<1>14. ASSUME heal' # "lost",
              NEW end \in KeyboardStates, Agrees(end, shifting, caps, plain, heal)
       PROVE  \E next : /\ Leads(end, wire', next, plain')
                        /\ Agrees(next, down' \cap Shifts # {}, caps', plain', heal')
  <2> DEFINE next == AfterKey(end, k, c)
  <2>1. heal # "lost" /\ (heal' = "healed" => heal = "healed" \/ k \in Shifts)
    BY <1>2, <1>14
  <2>2. ~end.extended_prefix
    BY <1>14, <2>1, Zenon DEF Agrees
  <2>3. Leads(end, Send(own, "None"), next, plain')
    BY <1>4, <1>6, <2>2, Stroke, Zenon
  <2>4. /\ next \in KeyboardStates /\ ~next.extended_prefix
        /\ next.shift_pressed <=> k \notin Shifts /\ end.shift_pressed
        /\ next.caps_lock = end.caps_lock
    BY <2>2, ReleaseDecoded, Zenon
  <2> HIDE DEF next
  <2>5. Leads(next, Send(redo, "None"), next, plain')
    BY <2>4, FakeShiftsIgnored, Zenon
  <2>6. Leads(end, wire', next, plain')
    BY <1>7, <2>3, <2>5, LeadsOn, Zenon
  <2>7. heal' = "healed" /\ next.shift_pressed => down' \cap Shifts # {}
    BY <1>12, <1>14, <2>1, <2>4, Zenon DEF Agrees
  <2>8. ASSUME plain'
        PROVE  next.shift_pressed = (down' \cap Shifts # {}) /\ next.caps_lock = caps'
    <3>1. end.shift_pressed = shifting /\ end.caps_lock = caps
      BY <1>11, <1>14, <2>8, Zenon DEF Agrees
    <3>2. next.shift_pressed \in BOOLEAN
      BY <2>4, Zenon DEF KeyboardStates
    <3>3. next.shift_pressed <=> (down' \cap Shifts # {})
      BY <1>11, <1>12, <1>13, <2>4, <2>8, <3>1, Zenon
    <3>4. next.caps_lock = caps'
      BY <1>2, <2>4, <3>1, Zenon
    <3> QED BY <3>2, <3>3, <3>4, Zenon
  <2>9. Agrees(next, down' \cap Shifts # {}, caps', plain', heal')
    BY <2>4, <2>7, <2>8, Zenon DEF Agrees
  <2> QED BY <2>6, <2>9, Zenon
<1> QED BY <1>2, <1>8, <1>9, <1>10, <1>11, <1>14, EventKeepsInv, Zenon

\* The invariant is inductive, for every capacity of the queue, every bound on the
\* keys held at once and every selection of the keys.
THEOREM KeyboardInductive == KeyboardSpec => []KeyboardInv
<1>1. KeyboardInv /\ [KeyboardNext]_keyboard_vars => KeyboardInv'
  <2> SUFFICES ASSUME KeyboardInv, [KeyboardNext]_keyboard_vars PROVE KeyboardInv'
    OBVIOUS
  <2>1. CASE process_scancode
    BY <2>1, DecodeKeepsInv
  <2>2. CASE keyboard_interrupt
    BY <2>2, ArrivalKeepsInv
  <2>3. ASSUME NEW k \in Keys, press(k) PROVE KeyboardInv'
    BY <2>3, PressKeepsInv
  <2>4. ASSUME NEW k \in Keys, typematic(k) PROVE KeyboardInv'
    BY <2>4, TypematicKeepsInv
  <2>5. ASSUME NEW k \in Keys, release(k) PROVE KeyboardInv'
    BY <2>5, ReleaseKeepsInv
  <2>6. CASE UNCHANGED keyboard_vars
    BY <2>6, Zenon DEF keyboard_vars, KeyboardInv, Coming
  <2> QED BY <2>1, <2>2, <2>3, <2>4, <2>5, <2>6, Zenon DEF KeyboardNext
<1> QED BY <1>1, KeyboardInitInv, PTL DEF KeyboardSpec

\* DecodesAsMeant: however far the shell lags behind, whatever is held, repeated or
\* wrapped in fake shifts, process_scancode does what the key stood for when it was
\* struck.
THEOREM KeysDecodeAsMeant == KeyboardSpec => []DecodesAsMeant
<1>1. KeyboardInv => DecodesAsMeant
  BY Zenon DEF KeyboardInv, DecodesAsMeant
<1> QED BY <1>1, KeyboardInductive, PTL

\* LossHeals: after bytes were dropped by a full queue, one shift key struck and
\* released leaves no prefix pending and no shift stuck.
THEOREM LossesHeal == KeyboardSpec => []LossHeals
<1>1. KeyboardInv => LossHeals
  <2> SUFFICES ASSUME KeyboardInv, wire = <<>>, SCANCODE_QUEUE = <<>>, heal = "healed"
               PROVE  /\ ~KEYBOARD_STATE.extended_prefix
                      /\ KEYBOARD_STATE.shift_pressed => down \cap Shifts # {}
    BY Zenon DEF LossHeals, Idle
  <2>1. PICK end : /\ Leads(KEYBOARD_STATE, Coming, end, plain)
                   /\ Agrees(end, down \cap Shifts # {}, caps, plain, heal)
    BY Zenon DEF KeyboardInv
  <2>2. Coming = <<>> /\ Len(<<>>) = 0
    BY DEF Coming
  <2>3. Leads(KEYBOARD_STATE, <<>>, end, plain)
    BY <2>1, <2>2, Zenon
  <2>4. end = KEYBOARD_STATE
    BY <2>2, <2>3, Zenon DEF Leads, Trail
  <2>5. heal # "lost"
    OBVIOUS
  <2> QED BY <2>1, <2>4, <2>5, Zenon DEF Agrees
<1> QED BY <1>1, KeyboardInductive, PTL
=============================================================================
