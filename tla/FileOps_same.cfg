\* A file moved to its own path
CONSTANTS
  Callers = {c1}
  Files = {a, b}
  Ops = {"move"}
  Overwrites = {FALSE, TRUE}
  SamePath = TRUE
  MayCrossDevice = FALSE
  MayCrash = FALSE
  MaxCalls = 2
SPECIFICATION Spec
PROPERTIES MoveKeepsSource
CHECK_DEADLOCK FALSE
