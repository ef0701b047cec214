SPECIFICATION Spec
CONSTANTS
  None = None
  Error = Error
  Panic = Panic
  MaxU32 = 100000
  Sub = 48
  GainUnits = 4
  MAX_SUB_IFD_DEPTH = 2
  IccLength = 30
  ExifLength = 40
  XmpLength = 50
  Files <- MCFiles
  Processing <- MCProcessing
  Exports <- MCExports
  Encodes <- MCEncodes
  CameraDb <- MCCameraDb
  PartOf <- MCPartOf
  Power <- MCPower
  Filmic <- MCFilmic
  Likeness <- MCLikeness
INVARIANTS
  DecodesAsWritten
  TreeAttachesOnce
  RenderedExactly
  ExportReadsBack
  AvifItemsIntact
CHECK_DEADLOCK FALSE
