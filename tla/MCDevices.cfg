SPECIFICATION DevicesSpec
CONSTANTS
    VirtioBlocks = 2
    Factor = 2
    VirtioData = {1, 2}
    IndexLimit = 3
    MaxCalls = 2
    MaxWaits = 1
    NvmeBlocks = 2
    PageBlocks = 1
    NvmeData = {1}
    QueueEntries = 3
    MaxNvmeCalls = 4
    MaxNvmeTimeouts = 1
    AhciSectors = 2
    BufferSectors = 1
    AhciData = {1, 2}
    MaxAhciCalls = 3
    MaxAhciTimeouts = 1
    TargetCount = 3
    Capacity <- MCCapacity
    SectorBlocks = 1
    StorData = {1}
    Versions <- MCVersions
    MaxAttempts = 3
    MaxStorCalls = 3
    MaxStorLate = 1
    MaxStorErrors = 2
    RingWords = 11
    HeaderWords = 2
    PacketShapes <- MCPacketShapes
    BufferWords = 2
    MaxPackets = 4
    Lan = {"gateway", "dns"}
    Web = "web"
    DhcpServers = {"s1", "s2"}
    TcpConnections = 2
    PortCount = 2
    RxBuffers = 2
    Parts = 1
    MaxNetCalls = 1
    MaxNetFaults = 1
    UsbBlocks = 2
    UsbPartBlocks = 1
    UsbData = {1}
    LinkIndex = 3
    MaxUsbCalls = 3
    MaxUsbFailures = 1
    QueueSize = 3
    MaxKeys = 3
INVARIANT AnswersTrue
INVARIANT StaysBehind
INVARIANT VmbusSound
INVARIANT RingsInStep
INVARIANT GetsOwnAnswer
INVARIANT AddressLeased
INVARIANT NetResourcesKept
CHECK_DEADLOCK FALSE
