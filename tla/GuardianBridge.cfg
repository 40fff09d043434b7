CONSTANTS
  Commands = {"loginPart", "login", "scan", "scanNames", "emergency"}
  CcuCodes = {"ok"}
  Patient = FALSE
  MaxWrites = 3
  MaxLine = 1
  MaxBoots = 1
  MaxMerges = 1
SPECIFICATION FairSpec
INVARIANTS
  TypeOK
  AnswerStillComing
PROPERTIES
  WaitKept
  WaitEnds
