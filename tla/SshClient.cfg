CONSTANTS
  PassLen = 3
  MaxQueue = 1
  NoLine = NoLine
  Null = Null
  Unset = Unset
  BufSize = 2
  MaxSize = 3
  Chars <- Letters
  TypedLines <- Typed
  Piped <- Files
  Args <- Lines
  Tokens <- Names
  PortOptions <- Ports
  AfterOption <- After
  Strtol <- Numbers
  UserOf <- Users
SPECIFICATION MCSpec
INVARIANTS
  TypeOK
  ConnectsAsAsked
  TerminalRestored
  PasswordIsLine
  DeliversData
PROPERTIES
  InterruptEnds
CHECK_DEADLOCK FALSE
