SPECIFICATION KernelSpec
CONSTANTS
  HeapSize = 37
  HeaderSize = 3
  Alignment = 2
  HeapWord = 64
  Sizes = {0, 1, 3, 4, 7, 40, 63}
  MemoryMap <- Map
  LowMemoryReserve = 2
  FreeListCapacity = 5
  UserEntries = 1
  RootEntries = 2
  TableEntries = 2
  BootIndices = {1}
  UserPages <- TwoPages
  KernelPages <- KernelPage
  MaxProcesses = 3
  MaxThreads = 2
  Entries = {"service", "worker"}
  Returning = {"worker"}
  MaxDepth = 4
INVARIANT HeapSound
INVARIANT SpacesSeparate
INVARIANT AccountingExact
INVARIANT LockProtects
PROPERTY KillReleases
CHECK_DEADLOCK FALSE
