CONSTANTS
  Limit = 3
  TypeCount = 2
  GenMax = 2
  RefMax = 7
  Resource = {r1, r2}
  NoResource = NoResource
  NoHandle = NoHandle
SPECIFICATION Spec
INVARIANTS TypeOK ReferencesExact ResourcesOwned ClosedStaysStale
PROPERTY RefinesCapability
CHECK_DEADLOCK FALSE
