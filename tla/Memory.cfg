CONSTANTS
  WORD = 36
  PAGE_SIZE = 4
  HeapBase = 28
  HEAP_SIZE = 6
  Sizes = {1, 3, 35}
  Aligns = {1, 2, 4}
  LOW_MEMORY_RESERVED_END = 8
  KernelStart = 9
  KernelEnd = 14
  MaxRegions = 2
  Bases = {0, 5, 8, 11, 20, 29, 34, 36, 42}
  Lengths = {2, 6, 7, 12, 34}
  ENTRIES_PER_TABLE = 3
  USER_SPACE_START = 12
  USER_SPACE_END = 24
  MAX_PRINT_LEN = 6
SPECIFICATION MemorySpec
INVARIANTS
  BlocksSound
  FramesAreFresh
  NoneMeansExhausted
  PrintReadsUserMemory
  RefusalIsJustified
PROPERTIES
  RunsOut
CHECK_DEADLOCK FALSE
