SPECIFICATION MCSpec
CONSTANTS
  Tables = {a}
  Objects = {f}
  Oids = {1, 2}
  NULL = NULL
  MaxShardId = 1
  MaxNodeId = 2
  Processes <- MCProcesses
  Shared <- MCShared
  BufferSize = 6
  INVALID_PGPROCNO = 9
  Callers = {p1, p2}
  Calls <- MCCalls
  Half <- MCHalf
  BitAnd <- MCBitAnd
  BitOr <- MCBitOr
  Modulus = 16
  MaxFull = 70
  Inputs <- MCInputs
  Insertion = 3
  Ninther = 8
  Clients = {c1, c2}
  Youngest = 2
  MaxCreated = 4
  MaxDepth = 3
  MaxBlocks = 3
  MaxElements = 4
INVARIANTS IdsFresh HolderUpToDate WellFormed VisitsAll CountersAgree OrderKept InBounds ShallowRecursion SortedAtEnd HandlersNest CleanupOnce VisitsEach
PROPERTIES MetadataKept ImplementsQueue ImplementsWord LockFree SortEnds OldConverted
