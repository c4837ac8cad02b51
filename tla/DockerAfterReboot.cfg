CONSTANTS
  Starters = {s1, s2}
  Stoppers = {t1}
  Pids = {p1, p2, p3, p4}
  NoPid = NoPid
  Stale = Stale
  Faults = {"reboot"}
  Guarded = FALSE
SPECIFICATION FairSpec
PROPERTY StartAfterRebootWorks
CHECK_DEADLOCK FALSE
