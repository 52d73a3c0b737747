CONSTANTS
  p1 = p1
  p2 = p2
  p3 = p3
  Peers = {p1, p2, p3}
  NoPeer = NoPeer
  Welcome = Welcome
  Nul = Nul
  Junk = Junk
  Listener = 3
  Fd = {4, 5, 6}
  BufSize = 2
  MaxAvail = 1
  Window = 1
SPECIFICATION GatheringSpec
INVARIANTS
  ReadNeverWaits
CHECK_DEADLOCK FALSE
