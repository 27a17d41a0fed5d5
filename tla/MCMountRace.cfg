SPECIFICATION Spec
CONSTANTS
  Threads = {1, 2}
  MaxGeneration = 3
INVARIANT BusyProtected
