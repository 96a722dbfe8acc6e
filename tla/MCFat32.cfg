CONSTANTS
  a = a
  b = b
  Names <- MCNames
  FilePaths <- MCFilePaths
  DirPaths <- MCDirPaths
  MaxCluster = 4
  Slots = 3
  SectorBytes = 1
  MaxFileBytes = 2
  MaxList = 2
  MaxDirs = 4
  MaxDepth = 3
  MaxHandles = 1
  NoHandle = NoHandle
  NoOperation = NoOperation
  Refused = Refused
  NoGoal = NoGoal
SPECIFICATION Spec
INVARIANTS SettledVolume LiveChainsKept HandleEntryLive
PROPERTIES RefinesFileTree
