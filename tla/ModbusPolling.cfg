CONSTANTS
  Registers <- MCRegisters
  RegType <- MCRegType
  RegAddress <- MCRegAddress
  Tables <- MCTables
  Devices = {100, 255}
  CrcBytes = {1}
  NoiseBytes = {3}
  Slaves = {100}
  MaxPolls = 2
  MaxPieces = 1
  MaxFaults = 1
SPECIFICATION FairSpec
INVARIANTS
  TypeOK
  UnsetNeverStores
  GenuineAnswers
PROPERTIES
  UndisturbedCallReads
  PollEnds
