SPECIFICATION Spec
CONSTANTS
  ByteBits = 2
  Word = 4
  MinFast = 2
  Prefix = 3
  Stuffing = 0
  Restart = {1}
  EndOfImage = 2
  Data <- Long
INVARIANTS
  RegisterIsNextBits
  PeekIsNextBits
  ShortOnlyAtEnd
