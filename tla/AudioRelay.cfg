SPECIFICATION Spec
CONSTANTS
  Lengths = {16, 40, 64, 71}
  PartsPerBuffer = 2
  BufferNum = 2
  MaxRecordings = 3
INVARIANTS
  TypeOK
  InOrder
  NothingLost
  HeardWhole
  CleanStart
