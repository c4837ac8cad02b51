CONSTANTS
  Jobs = {j1}
  Watchdog = wd
  Uplinks = {wlan0, rmnet0}
  NoUplink = NoUplink
  ShortName = none
  LongNames = {}
  PolicyRules = TRUE
  RepairEvery = 2
  MaxEvents = 2
SPECIFICATION FairSpec
INVARIANT LxcStaysRouted
CHECK_DEADLOCK FALSE
