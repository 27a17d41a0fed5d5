SPECIFICATION DiskSpec
CONSTANTS
  zeros = zeros
  ones = ones
  BlockCount = 3
  PartitionStart = 0
  PartitionCount = 2
  CacheSize = 3
  Contents = {zeros, ones}
  LbaWord = 16
  Lbas = {0, 15}
  CacheCounts = {0, 1, 2}
  EntryCount = 2
  MaxPerDisk = 2
  PerSector = 1
  FirstUsable = 4
  LastUsable = 5
  GptWord = 16
  Starts = {3, 4, 15}
  GptCounts = {0, 1, 2}
  MaxFailures = 2
  PrimarySlots = 3
  MaxCandidates = 4
  MbrBlocks = 10
  MbrWord = 8
  MbrTables <- MCMbrTables
  MbrStarts = {0, 1, 9}
  MbrCounts = {0, 2, 9}
  MaxMbrEdits = 2
SYMMETRY ContentSymmetry
INVARIANT CacheSound
INVARIANT GptCrashSafe
INVARIANT TablesSound
CHECK_DEADLOCK FALSE
