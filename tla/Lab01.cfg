CONSTANTS
  Zero = "0"
  Figures = {"1", "2"}
  Letters = {"a"}
  Blanks = {" "}
  Marks = {"-"}
  MaxLen = 5
  Inputs <- Texts
  c1 = c1  c2 = c2  c3 = c3  pic = pic  txt = txt
  Clients = {c1, c2}
  BufSize = 4
  Nul = Nul
  NoAnswer = NoAnswer
  MaxCopies = 1
  Lines <- FewLines
  Browsers = {c1, c2, c3}
  Numbers = {4, 5, 6}
  Stacks = 2
  Paths = {"one", "two", "a/b"}
  Nested = {"a/b"}
  Pictures = {pic, txt}
  Images = {pic}
  Naming <- MCNaming
  Tight = {"two"}
  PageRoom = 1
  MayAsk <- MCMayAsk
  None = None
SPECIFICATION LabSpec
INVARIANTS
  ReturnsVerdict
  Terminated
  LettersAlwaysRefused
  AnswersLastLine
  LabTypeOK
  OwnHandler
  StopsForCause
PROPERTIES
  WaitEnds
  Heard
CHECK_DEADLOCK FALSE
