CONSTANTS
  Base = 4
  IpLen = 4
  IcmpLen = 4
  Wrap = 64
  IntMax = 98
  MaxSize = 12
  Room = 11
  MaxId = 3
  QueueMax = 2
  Packets <- Echoes
SPECIFICATION Spec
INVARIANTS
  AllReachCallback
CHECK_DEADLOCK FALSE
