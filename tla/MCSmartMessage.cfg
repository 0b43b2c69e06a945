CONSTANTS
    talk = talk
    Handlers = {h1, h2}
    Messages = {m1, m2}
    Anonymous = {m2}
    NoMessage = NoMessage
    ConversationOf <- MCConversationOf
    NoConversation = NoConversation
    Prompts = {p1}
    NoPrompt = NoPrompt
    QueuedCap = 1
    GlobalCap = 0
    ReplyBound = 1

SPECIFICATION Spec

INVARIANTS
    TypeOK
    NoMessageRefused
    NumberedInOrder
    LockHolderWrites

PROPERTIES
    ImplementsAdmission

SYMMETRY Interchangeable

\* Clients may stop sending.
CHECK_DEADLOCK FALSE
