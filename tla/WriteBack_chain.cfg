SPECIFICATION FairWriteSpec
CONSTANTS
  Cells <- AllCells
  Registries <- Watches
  MaxChanges = 3
INVARIANTS RestIsFresh NewRowsAreFilled
PROPERTIES Settles WriteBacksDrain
CHECK_DEADLOCK FALSE
