SPECIFICATION FairSpec
CONSTANTS
  None = None
  Thread = {t1, t2}
  Nodes = 2
  Driver <- OneDriver
  MaxChanges = 1
INVARIANTS
  AnswersAgree
  DisplayHasOpenFile
  NothingHeldBetweenCalls
  DecoderMatchesAvailable
  DecoderOnCapableDriver
PROPERTIES
  CallsReturn
