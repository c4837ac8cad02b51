CONSTANTS
  Starters = {s1}
  Stoppers = {t1}
  Pids = {p1, p2, p3}
  NoPid = NoPid
  Stale = Stale
  Faults = {"interrupt"}
  Guarded = FALSE
SPECIFICATION Spec
INVARIANT StopLeavesNoDaemon
CHECK_DEADLOCK FALSE
