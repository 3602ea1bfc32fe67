\* 16 KiB arena, 4 KiB pages: 3 pages; allocs and frees interleaved.
CONSTANTS
  ArenaSize = 16384
  PageSize = 4096
  SizeofAllocator = 40
  SizeofPage = 24
  Requests <- MC_SmallRequests
  MaxCalls = 8
  CallerFrees = TRUE
  NoCall = NoCall
SPECIFICATION Spec
INVARIANTS AllocatorConsistent ObjectsInArena
PROPERTIES AllocReturns
\* The callers stop calling after MaxCalls allocations.
CHECK_DEADLOCK FALSE
