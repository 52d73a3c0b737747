CONSTANTS
  t1 = t1
  t2 = t2
  t3 = t3
  Tools = {t1, t2, t3}
  ModTools = {t1, t2}
  Null = Null
  Builtin = {"INPUT", "filter"}
  Rules = {"r1", "r2"}
  MaxArgs = 0
  Tokens <- AllTokens
  Dashed <- Options
  Atoi <- Numbers
  Args <- EitherArgs
  Start <- Tables
SPECIFICATION MCSpec
PROPERTIES
  CommitsSerialize
CHECK_DEADLOCK FALSE
