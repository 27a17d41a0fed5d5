SPECIFICATION BootSpec
CONSTANTS
  MaxThreads = 4
  Entries = {"worker", "busy", "signal"}
  Returning = {"worker", "busy", "signal"}
  MaxDepth = 3
INVARIANT SelfTestsPass
CHECK_DEADLOCK FALSE
