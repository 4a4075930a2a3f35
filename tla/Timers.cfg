CONSTANTS
  Timers = {t1}
  Interval = 1
  Names = {n1}
  Keys = {k1, NoKey}
  NoKey = NoKey
  Limit = 1
  RetryDelay = 1
  MaxTime = 2
  MaxSchedules = 1
  MaxOps = 1
  MaxDisturbed = 1
SPECIFICATION FairSpec
CHECK_DEADLOCK FALSE
INVARIANTS  InFlightAtMostTwice
PROPERTIES  TasksRun TimersRun
