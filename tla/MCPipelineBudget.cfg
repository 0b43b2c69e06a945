CONSTANTS
    alice = alice
    gpu = gpu
    cloud = cloud
    NoPrompt = NoPrompt
    Jobs = {1}
    Users = {alice}
    Lanes = {gpu}
    GpuLanes = {}
    CloudLanes = {}
    OwnerOf <- OneOwner
    LaneOf <- OneLane
    Slots <- OneSlot
    MaxActivePerUser = 0
    MaxAttempts = 2
    Schedulers = {s1}
    Reconcilers = {r1}
    SlowDispatch = FALSE
    DispatchFaults = 2
    AttemptBound = 4

SPECIFICATION Spec

INVARIANTS
    AttemptsWithinBudget

CHECK_DEADLOCK FALSE
