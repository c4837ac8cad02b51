CONSTANTS
  Cmds = {c1, c2, c3}
  Names = {n1}
  Pids = {p1, p2}
  Prior = Prior
  None = None
  Ops = {"import", "start", "destroy", "on", "autostart"}
  MaxKills = 1
SPECIFICATION Spec
SYMMETRY Symmetry
INVARIANTS TypeOK OneWholeImport NoTempLeft ConfigKept AutostartOkCovers
PROPERTIES StartedWithAddress ImplementsContainerLife
CHECK_DEADLOCK FALSE
