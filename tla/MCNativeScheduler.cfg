CONSTANTS
  ProcessLimit = 2
  ThreadLimit = 2
  MaxInput = 1
  MaxKeys = 1
  Ticks = 1
  a1 = a1
  s1 = s1
  s2 = s2
  timer = timer
  Address <- MCAddress
  Item <- MCItem
  Socket <- MCSocket
  WaitLists <- MixedLists
  Installed <- Mixed
SPECIFICATION FairSpec
INVARIANT HaltIsSafe
PROPERTIES RoundMissesNobody LaunchReportsNewest EveryoneGoesOn
CHECK_DEADLOCK FALSE
