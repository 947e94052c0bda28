CONSTANTS
  NumCmds = 3
  MaxTimePerChunk = 2
  ItemCosts = {1, 2}
  SleepTimes = {1, 3}
SPECIFICATION Spec
INVARIANT ClickSeesHydratedData
