CONSTANTS
  Starters = {s1, s2}
  Stoppers = {t1}
  Pids = {1, 2, 3, 4, 5}
  NoPid = NoPid
  Stale = Stale
  Faults = {}
  Guarded = TRUE
SPECIFICATION FairSpec
INVARIANTS StopLeavesNothing
PROPERTIES StartMeansGuarded OkMeansServing StartAfterStopWorks
CHECK_DEADLOCK FALSE
