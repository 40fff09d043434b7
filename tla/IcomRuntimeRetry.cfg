CONSTANTS
  RegCount = 1
  QueueLen = 1
  MaxRestarts = 0
SPECIFICATION FairSpec
PROPERTIES
  RetryOpens
CHECK_DEADLOCK FALSE
