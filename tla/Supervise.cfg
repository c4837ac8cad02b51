CONSTANTS
  Clients = {c1, c2}
  PidFiles = {f1}
  Pids = {p1, p2}
  MaxStarts = 2
  NoClient = NoClient
  NoPid = NoPid
SPECIFICATION FairSpec
INVARIANTS TypeOK ChildIsOurs OkIsRecorded RefusedChildTold
PROPERTIES ImplementsLaunchService EveryClientReturns SignalStopsServer ZombiesAreReaped
