CONSTANTS
  p1 = p1
  p2 = p2
  Peers = {p1, p2}
  NoPeer = NoPeer
  Welcome = Welcome
  Nul = Nul
  Junk = Junk
  Listener = 3
  Fd = {4, 5}
  BufSize = 3
  MaxAvail = 2
  Window = 1
SPECIFICATION Spec
INVARIANTS
  TextIsAuthors
CHECK_DEADLOCK FALSE
