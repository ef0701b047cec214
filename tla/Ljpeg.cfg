SPECIFICATION Spec
CONSTANTS
  Streams <- AllStreams
  Fast = 2
  MaxLen = 4
  Slots = 2
  SampleWidth = 3
  None = None
INVARIANTS
  FastAgreesWithSlow
  InStep
  DecodesImage
\* A decode that has returned does nothing more.
CHECK_DEADLOCK FALSE
