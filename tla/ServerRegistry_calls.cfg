\* Calls on two roots, servers that crash or refuse to start, the exit and a kill
CONSTANTS
  Threads = {t1, t2, t3}
  Main = main
  Nobody = nobody
  Roots = {r1, r2}
  MayCrash = TRUE
  MayRefuse = TRUE
  MayShutdown = TRUE
  MayKill = TRUE
  MaxLaunches = 2
SPECIFICATION FairSpec
INVARIANTS TypeOK OneStartedPerRoot SameServer ShutdownStopsStarted
PROPERTIES LockIsReleased NothingOutlives
CHECK_DEADLOCK FALSE
