CONSTANTS
    alice = alice
    gpu = gpu
    cloud = cloud
    NoPrompt = NoPrompt
    Jobs = {1, 2}
    Users = {alice}
    Lanes = {gpu}
    GpuLanes = {}
    CloudLanes = {}
    OwnerOf <- OneOwner
    LaneOf <- OneLane
    Slots <- OneSlot
    MaxActivePerUser = 0
    MaxAttempts = 2
    Schedulers = {s1}
    Reconcilers = {r1}
    SlowDispatch = FALSE
    DispatchFaults = 1
    AttemptBound = 3

SPECIFICATION Spec

INVARIANTS
    TypeOK
    DispatchOwnsAttempt
    PromptOfAttempt
    SlotsHold
    FailureIsGenuine

CHECK_DEADLOCK FALSE
