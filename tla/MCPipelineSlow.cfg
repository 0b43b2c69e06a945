CONSTANTS
    alice = alice
    gpu = gpu
    cloud = cloud
    NoPrompt = NoPrompt
    Jobs = {1}
    Users = {alice}
    Lanes = {gpu, cloud}
    GpuLanes = {}
    CloudLanes = {cloud}
    OwnerOf <- OneOwner
    LaneOf <- OneLane
    Slots <- OneSlot
    MaxActivePerUser = 1
    MaxAttempts = 2
    Schedulers = {s1, s2}
    Reconcilers = {r1}
    SlowDispatch = TRUE
    DispatchFaults = 1
    AttemptBound = 4

SPECIFICATION Spec

INVARIANTS
    SucceededIsGenuine
    FailedOnlyAtBudget
    ActiveIsRecoverable

PROPERTIES
    ImplementsQueue

SYMMETRY Interchangeable

CHECK_DEADLOCK FALSE
