CONSTANTS
  Values = {val}
  MaxDeferreds = 3
  MaxCallbacks = 2
  MaxOps = 4
  MaxRawOps = 5
  Options = {"memory", "unique", "stopOnFalse"}
  Top = 4
  Tags <- MCTags
  Types = {"click"}
  Selectors <- MCSelectors
  Binding = {2, 3}
  Fns = {fn1}
  MaxEvtOps = 3
  MaxDepth = 2
  MaxAnims = 3
  MaxFxOps = 5
  MaxPromises = 1
  MaxRequests = 2
  MaxAborts = 2
  Shapes <- MCShapes
  NodeNames <- MCNodeNames
  Queries <- MCQueries
  Lists <- MCLists
  MaxFinds = 2
  Panels = {1, 2, 3}
  MaxTold = 4
  Count = 3
  MaxPutOff = 2
  MaxCalls = 6
  Hasty = FALSE
SPECIFICATION Spec
CHECK_DEADLOCK FALSE
INVARIANTS
  DeferredsSettle
  HandlersInOrder
  QueueServed
  RequestsAnswered
  ElementsFound
  WidgetsSettled
