CONSTANTS
  Calls = {c1, c2, k1}
  JsonCalls = {c1, c2}
  InputCalls = {c1}
  CheckCalls = {k1}
  PipeSize = 1
  Cap = 1
  Setters = {c1, c2}
  Readers = {c1}
  Users = {root, dev}
  Stranger = nobody
  GuestUsers = {dev}
  Inodes = {i1, i2, i3}
  NoFile = NoFile
  Overlap = FALSE
SPECIFICATION FairSpec
INVARIANTS TypeOK OkMeansDone ShadowWhole OkMeansStored
PROPERTIES EveryCallReturns ImplementsPasswordStore OnlyOwnEntry
CHECK_DEADLOCK FALSE
