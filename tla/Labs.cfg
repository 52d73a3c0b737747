CONSTANTS
  c1 = c1  c2 = c2  c3 = c3
  Users = {0, 1, 2}
  Talkers = {c1, c2}
  Streams = 3
  Garbage = {1, 3}
  MaxLines = 2
  Callers = {c1, c2}
  OutStreams = 3
  Count = 3
  Visitors = {c1, c2, c3}
  Places = {0, 1, 2, 3, 4, 5}
  Absent = Absent
  Modulus = 4
  Known <- MCKnown
  Addrs = {0, 1, 3}
  MaxResults = 2
  Base = 4
  IpLen = 4
  IcmpLen = 4
  Wrap = 64
  IntMax = 98
  MaxSize = 12
  Room = 11
  MaxId = 3
  QueueMax = 2
  Packets <- Echoes
SPECIFICATION LabSpec
INVARIANTS
  LabsTypeOK
  NoWayBack
  EchoesInTurn
  OnlyFirstUngreeted
  SegmentsVerify
  SumFits
  ChecksumVerifies
PROPERTIES
  LinesAnswered
  ToldBoth
  Reported
  AcceptsReversed
  EveryFittingAccepted
CHECK_DEADLOCK FALSE
