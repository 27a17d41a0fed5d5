SPECIFICATION PartsSpec
CONSTANTS
    Parts = {"exfat"}
    Names = {"a", "b"}
    Contents = {"small", "medium", "large"}
    Size <- MCSize
    ResidentMax = 1
    ClusterSize = 2
    RecordBits = 4
    RecordLimit = 3
    ClusterBits = 5
    ClusterLimit = 4
    RunsPerRecord = 1
    MaxUsn = 2
    SystemClusters = {2}
    MaxFailures = 1
    MaxOperations = 3
    EntryNames = {1, 2, 3, 4}
    DirectoryNames = {1}
    EntryLength <- MCEntryLength
    RootRoom = 5
    LeafRoom = 7
    AllocationLength = 1
    MaxLeaves = 3
    FreeRecords = {24, 25, 26, 27, 28}
    MaxChanges = 5
    ByteValues = 4
    MaxBytes = 3
    RecordRoom = 7
    ExtentRoom = 6
    MaxStreamRuns = 4
    LastCluster = 14
    ClusterBytes = 2
    RunShapes <- MCRunShapes
    MaxStreamWrites = 1
    UpCase <- MCUpCase
    SetSize <- MCSetSize
    ExfatPaths <- MCMovePaths
    ExfatSizes = {1}
    PerCluster = 3
    LastHeap = 8
    SystemHeap = {3}
    Formats <- MCEmptyFormats
    JournalRoom = 8
    MaxExfatFailures = 0
    MaxExfatOperations = 3
INVARIANT DirectoriesStayReachable
