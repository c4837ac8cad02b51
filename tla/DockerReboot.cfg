CONSTANTS
  Starters = {s1, s2}
  Stoppers = {t1}
  Pids = {p1, p2, p3, p4}
  NoPid = NoPid
  Stale = Stale
  Faults = {"crash", "reboot", "refuse"}
  Guarded = FALSE
SPECIFICATION Spec
SYMMETRY Symmetry
INVARIANTS StopLeavesNothing NoOrphanServer OneOfEach
PROPERTIES ImplementsRuntimeLife
CHECK_DEADLOCK FALSE
