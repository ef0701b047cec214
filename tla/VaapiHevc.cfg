SPECIFICATION Spec
CONSTANTS
  None = None
  Id = {i1, i2, i3}
  MaxJobs = 2
  Codec = "hevc"
  Caps = {"main", "main10"}
  Size = {"tile", "thumb"}
  Request <- HevcRequests
INVARIANTS
  TypeOK
  LedgerExact
  TargetsOutliveContext
  SessionServesRequest
  ReadsOwnPicture
  MappedImageLives
  DisplayTerminatedLast
PROPERTIES
  SubmitDestroysBuffers
  ImplementsContract
