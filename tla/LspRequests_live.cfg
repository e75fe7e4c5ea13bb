\* No timeouts: a server that answers, dies or hangs, a caller that may retry, and stop()
CONSTANTS
  Callers = {c1}
  Shutdown = shutdown
  RetryMethods = TRUE
  MaxAttempts = 2
  HasTimeout = FALSE
  MayCrash = TRUE
  MayStop = TRUE
  MayRepeat = FALSE
  MayAsk = TRUE
  MayStall = TRUE
  MaxCalls = 1
  MaxOut = 1
SPECIFICATION ResponsiveSpec
INVARIANTS NoLostWakeup PendingIsAwaited
PROPERTIES RegisteredIsResolved StopEnds
CHECK_DEADLOCK FALSE
