SPECIFICATION Spec
CONSTANTS
  MaxCluster = 7
  PerCluster = 2
  RootNames = {"a", "b"}
  SubNames = {"b"}
  LongNames = {"b"}
  Sizes = {0, 2}
  MaxOperations = 3
  MaxFailures = 1
INVARIANTS ChainsSound SpaceAccounted
PROPERTY ImplementsFileStore
