SPECIFICATION Spec
CONSTANTS
    Plans <- MCPlans
    StageNumber <- MCStageNumber
    KnownCapabilities <- boot_capability
    PhaseCount = 8
    StageCapacity = 57
    StageLimit = 57
    CapabilityCapacity = 23
    Irreversible <- irreversible_requirement
    Reset = {}
    MaxFailures = 2
INVARIANTS PlannedInOrder MachineReady PublishedIsHonest SelfTestVerdicts
CHECK_DEADLOCK FALSE
