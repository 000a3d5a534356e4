------------------------------- MODULE Memory -------------------------------
(***************************************************************************)
(* The three memory components side by side: the kernel heap, the frame    *)
(* allocator and user memory.  They share no state, so that steps of two   *)
(* of them commute, and each property reads one component only.  It is     *)
(* therefore enough to let one component move in each behaviour while the  *)
(* others rest in an initial state.                                        *)
(***************************************************************************)
EXTENDS HeapAllocator, FrameAllocator, UserMemory

VARIABLE moving   \* the component that moves

memory_vars == <<moving, heap_vars, frames_vars, paging_vars>>

MemoryInit ==
  /\ moving \in {"heap", "frames", "paging"}
  /\ HeapInit /\ FramesInit /\ PagingInit
  /\ moving # "frames" => mmap = <<>>

MemoryNext ==
  /\ UNCHANGED moving
  /\ \/ moving = "heap" /\ HeapNext /\ UNCHANGED <<frames_vars, paging_vars>>
     \/ moving = "frames" /\ FramesNext /\ UNCHANGED <<heap_vars, paging_vars>>
     \/ moving = "paging" /\ PagingNext /\ UNCHANGED <<heap_vars, frames_vars>>

MemorySpec == MemoryInit /\ [][MemoryNext]_memory_vars
=============================================================================
