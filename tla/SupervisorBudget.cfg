SPECIFICATION Spec
CONSTANTS
  Tasks       <- OneTask
  Reps        = 2
  MaxLLMCalls = 2
  Fuses       = {0, 2}
  Costs       = {2}
  MaxRequests = 2
CHECK_DEADLOCK FALSE
INVARIANT
  ExhaustionIsIncomplete
