\* The 1 MiB arena asked for more pages than its data region holds.
CONSTANTS
  ArenaSize = 1048576
  PageSize = 4096
  SizeofAllocator = 40
  SizeofPage = 24
  Requests <- MC_OversizeRequests
  MaxCalls = 1
  CallerFrees = FALSE
  NoCall = NoCall
SPECIFICATION Spec
INVARIANTS ObjectsInArena
CHECK_DEADLOCK FALSE
