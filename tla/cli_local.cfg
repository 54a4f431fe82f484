CONSTANTS
    NServers = 3
    NAgents = 3
    NScenarios = 2
    LocalSignalr = TRUE
SPECIFICATION Spec
INVARIANTS
  MasterHasServers
PROPERTIES
  StartedAndStopped
