CONSTANTS
  ThreadMax = 3
  StackPages = 2
  Memory = {3, 4}
  Deadlines = 2
SPECIFICATION FairSpec
INVARIANT SchedulerExact
PROPERTY EveryoneRuns
CHECK_DEADLOCK FALSE
