CONSTANTS
  RegCount = 2
  QueueLen = 2
  MaxRestarts = 1
SPECIFICATION FairSpec
INVARIANTS
  TypeOK
  OwnHandle
  RepeatNeverLost
  StartsAreSafe
PROPERTIES
  KeepsFiring
CHECK_DEADLOCK FALSE
