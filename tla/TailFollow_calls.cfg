\* Concurrent calls on a file that grows, is truncated, removed and created again
CONSTANTS
  Callers = {c1, c2}
  Inodes = {i1, i2}
  MaxBytes = 3
SPECIFICATION Spec
INVARIANTS TypeOK NothingMissed RepeatsAreRaced
CHECK_DEADLOCK FALSE
