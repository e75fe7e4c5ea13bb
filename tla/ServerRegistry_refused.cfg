\* initialize may be refused
CONSTANTS
  Threads = {t1, t2}
  Main = main
  Nobody = nobody
  Roots = {r1, r2}
  MayCrash = FALSE
  MayRefuse = TRUE
  MayShutdown = FALSE
  MayKill = FALSE
  MaxLaunches = 2
SPECIFICATION Spec
INVARIANTS OneProcessPerRoot
CHECK_DEADLOCK FALSE
