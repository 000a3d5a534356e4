----------------------------- MODULE UserMemory -----------------------------
(***************************************************************************)
(* The page tables of paging.rs, the MMU that walks them, and SYS_PRINT,   *)
(* the one system call that dereferences an address of the user program    *)
(* (syscall.rs).  The kernel checks a (pointer, length) pair with          *)
(* arithmetic on addresses, the MMU decides with the two page tables; the  *)
(* properties relate the two.                                              *)
(***************************************************************************)
EXTENDS AddressSpace

CONSTANTS
  ENTRIES_PER_TABLE, \* entries of a page table or directory
  USER_SPACE_START, USER_SPACE_END,
  MAX_PRINT_LEN      \* longest buffer SYS_PRINT takes

\* The layout of paging.rs: directory entry 0 is the kernel's, entry 1 is the
\* user program's, and a 32-bit address names one of the pages of a directory.
\* At least one entry is left above the user program's: if USER_SPACE_END were
\* 2^32, checked_add would refuse the buffers that end there.
ASSUME LayoutAssumption ==
  /\ ENTRIES_PER_TABLE \in Nat /\ ENTRIES_PER_TABLE >= 3
  /\ WORD = ENTRIES_PER_TABLE * ENTRIES_PER_TABLE * PAGE_SIZE
  /\ USER_SPACE_START = ENTRIES_PER_TABLE * PAGE_SIZE
  /\ USER_SPACE_END = USER_SPACE_START + ENTRIES_PER_TABLE * PAGE_SIZE
  /\ MAX_PRINT_LEN \in Nat

VARIABLES
  PAGE_TABLE_0, PAGE_TABLE_1, \* entries of the two tables
  PAGE_DIRECTORY,             \* its entries: the table it points to, flags
  paging_on,                  \* CR0.PG
  ebx, ecx,                   \* arguments of the last SYS_PRINT
  eax                         \* what it returned, "none" before the first

paging_vars == <<PAGE_TABLE_0, PAGE_TABLE_1, PAGE_DIRECTORY, paging_on, ebx, ecx, eax>>

Indices == 0..(ENTRIES_PER_TABLE - 1)

\* What fits in a register.
U32 == 0..(WORD - 1)

\* An entry: the frame (or the table) it points to and the flags the code sets.
Entry(to, present, user) == [to |-> to, present |-> present, user |-> user]

-----------------------------------------------------------------------------
(* The MMU. *)

\* The table a directory entry points to.
TableAt(to) == IF to = 0 THEN PAGE_TABLE_0 ELSE PAGE_TABLE_1

DirSlot(a) == a \div (ENTRIES_PER_TABLE * PAGE_SIZE)
TableSlot(a) == (a \div PAGE_SIZE) % ENTRIES_PER_TABLE

\* A ring 0 access to virtual address a does not fault.
Mapped(a) ==
  /\ a \in U32
  /\ paging_on =>
       LET pde == PAGE_DIRECTORY[DirSlot(a)]
       IN pde.present /\ TableAt(pde.to)[TableSlot(a)].present

\* A ring 3 access to a does not fault: both levels must carry the user flag.
UserAccessible(a) ==
  /\ Mapped(a)
  /\ paging_on
  /\ LET pde == PAGE_DIRECTORY[DirSlot(a)]
     IN pde.user /\ TableAt(pde.to)[TableSlot(a)].user

\* The physical address the access reaches.
Translate(a) ==
  IF paging_on
  THEN TableAt(PAGE_DIRECTORY[DirSlot(a)].to)[TableSlot(a)].to + (a % PAGE_SIZE)
  ELSE a

-----------------------------------------------------------------------------
(* paging.rs *)

PagingInit ==
  /\ PAGE_TABLE_0 = [i \in Indices |-> Entry(0, FALSE, FALSE)]
  /\ PAGE_TABLE_1 = [i \in Indices |-> Entry(0, FALSE, FALSE)]
  /\ PAGE_DIRECTORY = [i \in Indices |-> Entry(0, FALSE, FALSE)]
  /\ paging_on = FALSE
  /\ ebx = 0 /\ ecx = 0 /\ eax = "none"

init ==
  /\ ~paging_on
  /\ PAGE_TABLE_0' = [i \in Indices |-> Entry(i * PAGE_SIZE, TRUE, FALSE)]
  /\ PAGE_TABLE_1' = [i \in Indices |-> Entry(USER_SPACE_START + i * PAGE_SIZE, TRUE, TRUE)]
  /\ PAGE_DIRECTORY' = [i \in Indices |-> CASE i = 0 -> Entry(0, TRUE, FALSE)
                                          [] i = 1 -> Entry(1, TRUE, TRUE)
                                          [] OTHER -> Entry(0, FALSE, FALSE)]
  /\ paging_on' = TRUE
  /\ UNCHANGED <<ebx, ecx, eax>>

\* u32::checked_add returns None on a sum that does not fit.
Fits(n) == n < WORD

\* Slip: the sum wraps instead of being checked, and the end may be below the start.
user_range_contains_Wrapping(ptr, len) ==
  len # 0 /\ ptr >= USER_SPACE_START /\ (ptr + len) % WORD <= USER_SPACE_END

\* Slip: end taken for the last byte instead of the byte after it.
user_range_contains_Short(ptr, len) ==
  len # 0 /\ Fits(ptr + len) /\ ptr >= USER_SPACE_START /\ ptr + len < USER_SPACE_END

user_range_contains(ptr, len) ==
  /\ len # 0
  /\ Fits(ptr + len)
  /\ ptr >= USER_SPACE_START
  /\ ptr + len <= USER_SPACE_END
  /\ ptr + len > ptr

-----------------------------------------------------------------------------
(* syscall.rs *)

validate_user_buffer(ptr, len) ==
  IF len = 0 \/ len > MAX_PRINT_LEN THEN "ERR_INVALID_LENGTH"
  ELSE IF ~user_range_contains(ptr, len) THEN "ERR_INVALID_POINTER"
  ELSE "Ok"

\* SYS_PRINT of any buffer.  Whether the bytes are UTF-8 is up to the program.
sys_print ==
  /\ paging_on
  /\ \E ptr \in U32, len \in U32, utf8 \in BOOLEAN :
       /\ ebx' = ptr
       /\ ecx' = len
       /\ eax' = IF validate_user_buffer(ptr, len) # "Ok" THEN validate_user_buffer(ptr, len)
                 ELSE IF utf8 THEN "Success" ELSE "ERR_INVALID_UTF8"
  /\ UNCHANGED <<PAGE_TABLE_0, PAGE_TABLE_1, PAGE_DIRECTORY, paging_on>>

PagingNext == init \/ sys_print

PagingSpec == PagingInit /\ [][PagingNext]_paging_vars

-----------------------------------------------------------------------------
(* Properties *)

\* The bytes of the buffer of the last call.
Buffer == ebx..(ebx + ecx - 1)

\* The kernel read the buffer: from_utf8 ran over it.
BufferRead == eax \in {"Success", "ERR_INVALID_UTF8"}

\* The tables never take a value init does not give them, and the registers
\* stay in the range of a u32.
PagingTypeOK ==
  /\ paging_on \in BOOLEAN
  /\ ebx \in U32 /\ ecx \in U32
  /\ eax \in {"none", "Success", "ERR_INVALID_UTF8", "ERR_INVALID_LENGTH",
              "ERR_INVALID_POINTER"}
  /\ eax # "none" => paging_on

\* syscall_dispatcher reads, on behalf of the user program, only bytes the MMU
\* would have let the program read itself, and the read cannot page-fault in
\* ring 0 (which would panic the kernel).
PrintReadsUserMemory ==
  BufferRead => \A a \in Buffer : UserAccessible(a) /\ Translate(a) = a

\* user_range_contains refuses a buffer only if the program could not have read
\* some byte of it: the last byte below USER_SPACE_END is still accepted, and
\* a buffer whose end does not fit in 32 bits is refused.
RefusalIsJustified ==
  eax = "ERR_INVALID_POINTER" => \E a \in Buffer : ~UserAccessible(a)

\* Once paging::init ran, ring 3 reaches exactly USER_SPACE_START up to
\* USER_SPACE_END, and every page is mapped onto itself, so that no page of the
\* kernel is also reachable through the user's half.
KernelAndUserApart ==
  paging_on =>
    /\ \A a \in U32 :
         UserAccessible(a) <=> a \in USER_SPACE_START..(USER_SPACE_END - 1)
    /\ \A a \in U32 : Mapped(a) => Translate(a) = a
=============================================================================
