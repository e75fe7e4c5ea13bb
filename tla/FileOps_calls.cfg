\* Two calls at the same time, on two paths, and kills of the process
CONSTANTS
  Callers = {c1, c2}
  Files = {a, b}
  Ops = {"write", "append", "edit", "patch", "copy", "move", "delete", "touch", "mkdir", "rmdir", "rmtree"}
  Overwrites = {FALSE, TRUE}
  SamePath = FALSE
  MayCrossDevice = TRUE
  MayCrash = TRUE
  MaxCalls = 3
SYMMETRY Symmetry
SPECIFICATION Spec
INVARIANTS TypeOK BackupRecovers
PROPERTIES MoveKeepsSource NothingLostUnasked
CHECK_DEADLOCK FALSE
