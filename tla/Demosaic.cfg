SPECIFICATION Spec
CONSTANTS
  None = None
  Error = Error
  Panic = Panic
  MaxU32 = 100000
  Sub = 48
  AreaWidth = 11
  AreaHeight = 10
  Margin = 3
  White = 100
  Origins <- SomeOrigins
  Scenes <- SomeScenes
  Methods = {"Amaze", "Lmmse", "Rcd", "Bilinear", "Markesteijn", "Markesteijn3Pass", "XTransFast"}
INVARIANTS
  GreyStaysGrey
  ColoursFoundInside
CHECK_DEADLOCK FALSE
