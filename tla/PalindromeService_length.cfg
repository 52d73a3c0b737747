CONSTANTS
  Zero = "0"
  Figures = {"1", "2"}
  Letters = {"a"}
  Blanks = {" "}
  Marks = {}
  c1 = c1
  c2 = c2
  Clients = {c1, c2}
  BufSize = 4
  Nul = Nul
  NoAnswer = NoAnswer
  MaxCopies = 1
  Lines <- SomeLines
SPECIFICATION Spec
INVARIANTS
  VerdictOfDatagram
CHECK_DEADLOCK FALSE
