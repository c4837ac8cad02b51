CONSTANTS
  Starters = {s1}
  Stoppers = {t1}
  Pids = {p1, p2, p3, p4}
  NoPid = NoPid
  Stale = Stale
  Faults = {"overlap", "interrupt", "slow", "crash", "reboot", "refuse"}
  Guarded = FALSE
SPECIFICATION Spec
SYMMETRY Symmetry
INVARIANTS TypeOK StopSparesForeign
CHECK_DEADLOCK FALSE
