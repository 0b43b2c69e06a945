CONSTANTS
    alice = alice
    gpu = gpu
    cloud = cloud
    NoPrompt = NoPrompt
    Jobs = {1}
    Users = {alice}
    Lanes = {gpu}
    GpuLanes = {gpu}
    CloudLanes = {}
    OwnerOf <- OneOwner
    LaneOf <- OneLane
    Slots <- OneSlot
    MaxActivePerUser = 0
    MaxAttempts = 3
    Schedulers = {s1}
    Reconcilers = {r1}
    SlowDispatch = FALSE
    DispatchFaults = 1
    AttemptBound = 4

SPECIFICATION FairSpec

PROPERTIES
    EveryJobEnds

CHECK_DEADLOCK FALSE
