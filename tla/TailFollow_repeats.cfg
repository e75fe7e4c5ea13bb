\* One caller and one writer
CONSTANTS
  Callers = {c1}
  Inodes = {i1}
  MaxBytes = 2
SPECIFICATION Spec
INVARIANTS NoRepeats
CHECK_DEADLOCK FALSE
