CONSTANTS
  Jobs = {j1}
  Watchdog = wd
  Uplinks = {rmnet1, rmnet10}
  NoUplink = NoUplink
  ShortName = rmnet1
  LongNames = {rmnet10}
  PolicyRules = TRUE
  RepairEvery = 2
  MaxEvents = 2
SPECIFICATION FairSpec
INVARIANT SwitchRepairedInOneCycle
CHECK_DEADLOCK FALSE
