SPECIFICATION Spec
CONSTANTS
  None = None
  Id = {i1, i2, i3}
  MaxJobs = 1
  Codec = "hevc"
  Caps = {"main"}
  Size = {"tile", "thumb"}
  Request <- OneTile
PROPERTIES
  EveryBufferDestroyed
