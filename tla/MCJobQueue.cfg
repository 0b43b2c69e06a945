\* Two jobs of one user on one backend, at most two retries counted per job.
CONSTANTS
    alice = alice
    gpu = gpu
    NoPrompt = NoPrompt
    Jobs = {1, 2}
    Users = {alice}
    Lanes = {gpu}
    OwnerOf <- MCOwnerOf
    LaneOf <- MCLaneOf
    Prompts = {p1, p2}
    MaxActivePerUser = 1
    RetryBound = 2

SPECIFICATION ParitySpec

INVARIANTS
    ParityTypeOK
    AttemptsCounted
    MemoryAgrees
    NoStalePromptWhileRunning

PROPERTIES
    TerminalIsFinal
    ClaimOpensNewAttempt
    ClaimRespectsUserCap
    ImplementsLifecycle

SYMMETRY Interchangeable

\* Every job may have ended.
CHECK_DEADLOCK FALSE
