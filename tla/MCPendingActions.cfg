CONSTANTS
    alice = alice
    talk = talk
    a1 = a1
    k1 = k1
    k2 = k2
    k3 = k3
    p1 = p1
    Handlers = {h1, h2}
    Keys = {k1, k2, k3}
    Payloads = {p1, p2}
    NoPayload = NoPayload
    OwnerOf <- MCOwnerOf
    ConversationOf <- MCConversationOf
    NoConversation = NoConversation
    QueuedCap = 1
    GlobalCap = 2
    Actions = {a1}
    KeyOf <- MCKeyOf
    PayloadOf <- MCPayloadOf
    NoAction = NoAction

SPECIFICATION ConfirmSpec

INVARIANTS
    ConfirmTypeOK
    AnswerIsTheRequest
    OvershootBounded
    OnlyConfirmedHaveJobs
    AnswersAreTrue
    StuckOnlyIfInterrupted

PROPERTIES
    AdmittedOnce
    ConfirmImplementsAdmission

SYMMETRY Interchangeable

\* The load may stop.
CHECK_DEADLOCK FALSE
