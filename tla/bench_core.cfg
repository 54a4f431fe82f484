CONSTANTS
  NScenarios = 2
  NAgents = 2
  MonitorsService = TRUE
  PromptLaunch = TRUE
  DropBudget = 2
SPECIFICATION Spec
INVARIANTS
  ExclusiveMaster
  FetchedIsComplete
  WaitCoversMaster
  CleanSession
PROPERTIES
  SessionEnds
  ImplementsPlan
