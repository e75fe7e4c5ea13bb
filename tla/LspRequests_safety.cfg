\* Repeated and late answers, retries, timeouts and a crash
CONSTANTS
  Callers = {c1, c2}
  Shutdown = shutdown
  RetryMethods = TRUE
  MaxAttempts = 2
  HasTimeout = TRUE
  MayCrash = TRUE
  MayStop = FALSE
  MayRepeat = TRUE
  MayAsk = FALSE
  MayStall = FALSE
  MaxCalls = 2
  MaxOut = 1
SPECIFICATION Spec
SYMMETRY Symmetry
INVARIANTS TypeOK OneResult AnswersOwnCall CancelIsComplete
PROPERTIES RetryAfterModified FuturesSpec
CHECK_DEADLOCK FALSE
