CONSTANTS
  ScenarioLists <- OneOrTwo
  TransportLists <- EachTransport
  GroupTypeList <- AllGroups
  SizeList <- AllSizes
  UnitChoices <- Units
  NServers = 3
SPECIFICATION Spec
INVARIANTS
  StepsApply
PROPERTIES
  RunAsAsked
