CONSTANTS
  Jobs = {j1}
  Watchdog = wd
  Uplinks = {wlan0, rmnet0}
  NoUplink = NoUplink
  ShortName = none
  LongNames = {}
  PolicyRules = TRUE
  RepairEvery = 3
  MaxEvents = 2
SPECIFICATION FairSpec
INVARIANTS TypeOK SwitchRepairedInOneCycle RepairedWithinInterval
PROPERTIES DockerRoutedInTheEnd ReconcilesOncePerInterval
CHECK_DEADLOCK FALSE
