CONSTANTS
  ThreadLimit = 3
  Record = {"record1", "record2"}
  NoRecord = "none"
SPECIFICATION FairSpec
INVARIANTS MutualExclusion NoLostWakeup RecordsOwned OnceBarrier
PROPERTY OnceReturns
