SPECIFICATION VolumesSpec
CONSTANTS
  Devices <- MCDevices
  Parent <- MCParent
  Kind <- MCKind
  MaxMounts = 3
  MaxVolumes = 2
  HandleCount = 2
  Answers <- MCAnswers
  Generations = 3
  UserPoints <- MCUserPoints
  Files <- MCFiles
  Unplugged <- MCUnplugged
  AutoNames <- MCAutoNames
  Policies <- MCPolicies
  FileOf <- MCFileOf
  SparsePaths = {"/Q"}
  ImageFiles <- MCImageFiles
  VdiskSlots = 2
  MaxVdiskDevices = 2
  SectorValues = {1}
  MaxVdiskCalls = 5
INVARIANTS StorageSound HandlesSound
PROPERTY FailedRemountKeepsReadOnly
CHECK_DEADLOCK FALSE
