CONSTANTS
  Commands = {"login"}
  CcuCodes = {"ok"}
  Patient = TRUE
  MaxWrites = 1
  MaxLine = 1
  MaxBoots = 1
  MaxMerges = 0
SPECIFICATION Spec
INVARIANT ResultNotMasked
