\* Two process slots; each program uses some of the calls, and frames run out
\* when both processes grow.
CONSTANTS
  Processes = 2
  FrameCount = 8
  MemoryLimit = 5
  AnonPages = 3
  SurfacePages = 2
  StackPages = 1
  HandleLimit = 3
  ThreadLimit = 2
  FileLimit = 2
  SocketLimit = 1
  MaxWindows = 2
  Programs = {{"network", "file"}, {"thread", "memory"}, {"window", "handle"}}
SPECIFICATION Spec
INVARIANTS ResourcesAccounted TeardownComplete
