\* The program's own setting: no request timeout, a server that may die
CONSTANTS
  Callers = {c1, c2}
  Shutdown = shutdown
  RetryMethods = FALSE
  MaxAttempts = 3
  HasTimeout = FALSE
  MayCrash = TRUE
  MayStop = FALSE
  MayRepeat = FALSE
  MayAsk = FALSE
  MayStall = FALSE
  MaxCalls = 2
  MaxOut = 1
SPECIFICATION ResponsiveSpec
PROPERTIES CallsReturn
CHECK_DEADLOCK FALSE
