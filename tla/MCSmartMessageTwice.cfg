CONSTANTS
    talk = talk
    Handlers = {h1, h2}
    Messages = {m1}
    Anonymous = {}
    NoMessage = NoMessage
    ConversationOf <- MCConversationOf
    NoConversation = NoConversation
    Prompts = {p1}
    NoPrompt = NoPrompt
    QueuedCap = 0
    GlobalCap = 0
    ReplyBound = 1

SPECIFICATION Spec

INVARIANTS
    OneJobPerMessage

\* Clients may stop sending.
CHECK_DEADLOCK FALSE
