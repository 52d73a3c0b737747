CONSTANTS
  Zero = "0"
  Figures = {"1", "2"}
  Letters = {"a"}
  Blanks = {" "}
  Marks = {"-"}
  MaxLen = 3
  Inputs <- Texts
  c1 = c1
  c2 = c2
  Clients = {c1, c2}
  BufSize = 4
  Nul = Nul
  NoAnswer = NoAnswer
  MaxCopies = 1
  Lines <- FewLines
SPECIFICATION MCSpec
INVARIANTS
  RefusesMarks
CHECK_DEADLOCK FALSE
