CONSTANTS
  Surroundings <- MCSurroundings
  Texts <- MCTexts
  Rows = 13
  MaxScans = 2
  MaxCommands = 3
  MaxIndex = 15
SPECIFICATION Spec
INVARIANTS TypeOK RowsRead MenuIsScan CountIsFound PartsArrive SelectedAsShown ScanUnderWay
CHECK_DEADLOCK FALSE
