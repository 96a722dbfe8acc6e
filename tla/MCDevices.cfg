SPECIFICATION Spec
CONSTANTS
    NetDevice = net
    RngDevice = rng
    XhciDevice = xhci
    NvmeDevice = nvme
    AudioDevice = audio
    CardDevice = card
    Function = {net, rng, xhci, nvme, audio, card}
    Nobody = nobody
    ClaimCapacity = 3
    MappingCapacity = 6
    AllocationCapacity = 11
    DynamicVectors = 3
    MaxFaults = 2
INVARIANTS BindingsStand NoStrayDma NothingLeaks
CHECK_DEADLOCK FALSE
