CONSTANTS
    j1 = j1
    j2 = j2
    Jobs = {j1, j2}
    Count = 2
    MaxRetry = 2
    FaultBudget = 3
    Group <- SharedGroup
SPECIFICATION Spec
INVARIANTS
  HostsExist
  CleanRetry
