SPECIFICATION PartsSpec
CONSTANTS
    Parts = {"transactions", "indexes", "runs", "exfat"}
    Names = {"a", "b"}
    Contents = {"small", "medium", "large"}
    Size <- MCSize
    ResidentMax = 1
    ClusterSize = 2
    RecordBits = 4
    RecordLimit = 3
    ClusterBits = 5
    ClusterLimit = 4
    RunsPerRecord = 1
    MaxUsn = 2
    SystemClusters = {2}
    MaxFailures = 1
    MaxOperations = 3
    EntryNames = {1, 2, 3, 4}
    DirectoryNames = {1}
    EntryLength <- MCEntryLength
    RootRoom = 5
    LeafRoom = 7
    AllocationLength = 1
    MaxLeaves = 3
    FreeRecords = {24, 25, 26, 27, 28}
    MaxChanges = 5
    ByteValues = 4
    MaxBytes = 3
    RecordRoom = 7
    ExtentRoom = 6
    MaxStreamRuns = 4
    LastCluster = 14
    ClusterBytes = 2
    RunShapes <- MCRunShapes
    MaxStreamWrites = 1
    UpCase <- MCUpCase
    SetSize <- MCSetSize
    ExfatPaths <- MCExfatPaths
    ExfatSizes = {0, 2}
    PerCluster = 3
    LastHeap = 11
    SystemHeap = {3}
    Formats <- MCFormats
    JournalRoom = 7
    MaxExfatFailures = 1
    MaxExfatOperations = 2
INVARIANT CrashSafe
INVARIANT OperationsAtomic
INVARIANT IndexSound
INVARIANT DirectoriesFormTree
INVARIANT StreamsReadBack
INVARIANT ExfatCrashSafe
INVARIANT ExfatAtomic
CHECK_DEADLOCK FALSE
