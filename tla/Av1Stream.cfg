SPECIFICATION Spec
CONSTANTS
  None = None
  Streams <- Checked
INVARIANTS StillExact OutOfScopeRefused
CHECK_DEADLOCK FALSE
