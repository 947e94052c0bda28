CONSTANTS
  Times <- MCTimes
  MaxCalls <- MCMaxCalls
  Undefined = Undefined
SPECIFICATION Spec
INVARIANT TypeOK
INVARIANT OverlappingEventsGetDistinctGroups
INVARIANT GroupIsLowestFree
PROPERTY GroupFindRefinesBag
CHECK_DEADLOCK FALSE
