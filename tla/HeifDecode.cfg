SPECIFICATION Spec
CONSTANTS
  None = None
  MaxArrays = 3
  MaxU16 = 8
  Files <- Checked
  Surfaces <- DriverImages
  Frames <- OtherFrames
INVARIANTS UnitsDelivered LiftedExact SoundSurfacesOnly FailureNamed
CHECK_DEADLOCK FALSE
