CONSTANTS
  Commands = {"login", "scan"}
  CcuCodes = {"ok"}
  Patient = FALSE
  MaxWrites = 2
  MaxLine = 1
  MaxBoots = 1
  MaxMerges = 0
SPECIFICATION Spec
INVARIANT ReceivedEndsWait
