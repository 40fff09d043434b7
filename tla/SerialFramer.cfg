CONSTANTS
  MaxBytes = 6
  MaxBurst = 4
  BufLen = 6
SPECIFICATION FairSpec
INVARIANTS
  TypeOK
  BufferOwned
  NoStrandedBytes
  PacketsInOrder
  NoByteLost
PROPERTIES
  RefinesAssembly
  HeldBytesLeave
