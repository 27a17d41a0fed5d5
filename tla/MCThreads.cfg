SPECIFICATION ThreadsSpec
CONSTANTS
  Callers = {t1, t2}
  Capacity = 3
  MessageSize = 1
  Senders = {1}
  Pids = {1, 2}
  Lengths = {1, 2}
  Bytes = {1}
  MaxThreads = 4
  Entries = {"service", "worker"}
  Returning = {"worker"}
  MaxDepth = 4
  Count = 24
  Skipped = {2, 23}
INVARIANT IpcTypeOK
INVARIANT CountMatchesUsed
INVARIANT HeadAtMessage
INVARIANT SwitchesSound
INVARIANT StartupSound
PROPERTY ImplementsMailbox
PROPERTY LockReleased
PROPERTY ScanOrderKept
PROPERTY NobodyStarves
PROPERTY StartupAlwaysEnds
