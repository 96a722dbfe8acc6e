SPECIFICATION Spec
CONSTANTS
    SpaceSlots = 3
    MaxFaults = 2
    MaxProcesses = 3
    Rounds = 2
    FaultIndex = 2
    FaultRound = 2
    MaxLines = 2
    Line = {"a", "b"}
INVARIANTS KernelMapExact UserMemoryHeld EverythingGivenBack LinesReturned
CHECK_DEADLOCK FALSE
