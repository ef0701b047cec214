SPECIFICATION Spec
CONSTANTS
  None = None
  OutOfScope = OutOfScope
  Streams <- Checked
INVARIANTS AcceptsConforming HeadersExact DataOffsetExact TilesCoverPicture
CHECK_DEADLOCK FALSE
