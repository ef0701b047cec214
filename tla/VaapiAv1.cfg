SPECIFICATION FairSpec
CONSTANTS
  None = None
  Id = {i1, i2, i3}
  MaxJobs = 1
  Codec = "av1"
  Caps = {"main", "av1"}
  Size = {"tile", "thumb"}
  Request <- Av1Requests
INVARIANTS
  IInv
PROPERTIES
  CallReturns
