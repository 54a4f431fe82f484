CONSTANTS
  NJobs = 1
  NUnits = 3
  NCollectors = 3
  NBench = 2
  FaultBudget = 3
SPECIFICATION Spec
INVARIANTS
  OwnServiceAlone
  CollectorsStopped
  SuccessMeansCounters
PROPERTIES
  ResourcesRemoved
