CONSTANTS
    alice = alice
    gpu = gpu
    cloud = cloud
    NoPrompt = NoPrompt
    Jobs = {1}
    Users = {alice}
    Lanes = {cloud}
    GpuLanes = {}
    CloudLanes = {cloud}
    OwnerOf <- OneOwner
    LaneOf <- CloudOnly
    Slots <- OneSlot
    MaxActivePerUser = 0
    MaxAttempts = 2
    Schedulers = {s1}
    Reconcilers = {r1}
    SlowDispatch = FALSE
    DispatchFaults = 0
    AttemptBound = 4

SPECIFICATION Spec

INVARIANTS
    FailureIsGenuine

CHECK_DEADLOCK FALSE
