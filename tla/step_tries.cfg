CONSTANTS
  UnitList <- OneAndEleven
  SizeList <- TwoSizes
  MaxRetry = 3
  MaxConnections = 2
  FaultBudget = 2
  Start <- StartAt
  Step <- RaiseBy
SPECIFICATION Spec
INVARIANTS
  RaisedWhileClean
PROPERTIES
  TriesApart
  JobEnds
