CONSTANTS
  Cmds = {c1, c2}
  Names = {n1}
  Pids = {p1}
  Prior = Prior
  None = None
  Ops = {"start", "destroy"}
  MaxKills = 0
SPECIFICATION Spec
INVARIANTS DestroyLeavesNothing
CHECK_DEADLOCK FALSE
