CONSTANTS
    Requests = {r1, r2, r3}
    Tokens = {1, 2}
    MaxInflight = 1
    RateLimit = 1
    KeyKinds = {"refresh"}
    FaultBound = 1

SPECIFICATION Spec

INVARIANTS
    TypeOK
    InflightBounded
    CapacityNotLost
    LogoutAllReaches
    SessionsAccounted

SYMMETRY Interchangeable

\* A refresh waits for ever once every token of the instance is used.
CHECK_DEADLOCK FALSE
