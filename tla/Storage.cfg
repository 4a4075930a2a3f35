SPECIFICATION Spec
CONSTANTS
  NumKeys = 5
  TTL = 1
  Limit = 1
  CheckEvery = 1
  MaxTasks = 2
  PageSize = 2
  MaxOps = 5
  MaxNow = 1
  MaxFails = 1
  MaxRestarts = 1
INVARIANTS QuotaBounded 
CHECK_DEADLOCK FALSE
