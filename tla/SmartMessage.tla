----------------------------- MODULE SmartMessage -----------------------------
(***************************************************************************)
(* A chat message that may become a generation job: smart_message          *)
(* (api/v1/chat_router.py) and agent_message (api/v1/agent_router.py)      *)
(* store the user's message with _append_message (api/v1/conversations.py) *)
(* and run process_routed_message, which asks a language model what the    *)
(* message is and then replies or admits a job (Admission).                *)
(*                                                                         *)
(* A message is known by the client_message_id its client repeats when it  *)
(* sends the same message again, which it may do while the first request   *)
(* is still being served.  One sent without is a message of its own each   *)
(* time.  The model's verdict is a choice of each call.                    *)
(***************************************************************************)
EXTENDS Naturals, FiniteSets, FiniteSetsExt

CONSTANTS
    Handlers,           \* requests in flight at a time
    Messages,           \* what users send; those with a client_message_id, again and again
    Anonymous,          \* those without
    NoMessage,          \* client_message_id IS NULL, as for the replies
    ConversationOf, NoConversation,
    Prompts, NoPrompt,  \* RouteDecision.normalized_prompt
    QueuedCap, GlobalCap,
    ReplyBound          \* bound: replies that are stored in the instance

ASSUME SmartMessageAssumption ==
    /\ Anonymous \subseteq Messages
    /\ NoMessage \notin Messages
    /\ DOMAIN ConversationOf = Messages
    /\ NoConversation \notin {ConversationOf[m] : m \in Messages}
    /\ NoPrompt \notin Prompts
    /\ IsFiniteSet(Handlers)
    /\ QueuedCap \in Nat /\ GlobalCap \in Nat
    /\ ReplyBound \in Nat

VARIABLES
    sent,           \* the messages of Anonymous that were received
    message,        \* chat_messages
    lock,           \* per conversation: who holds its row FOR UPDATE
    chat,           \* per handler: the message it serves
    row, request    \* Admission's variables

vars == <<sent, message, lock, chat, row, request>>

Conversations == {ConversationOf[m] : m \in Messages}

(* router-general-image-<id> for image_basic, router-paid-image-<id> for
   poster_infographic. *)
Kinds == {"general", "paid"}
Keys  == Kinds \X Messages

A == INSTANCE Admission WITH
        Payloads       <- Prompts,
        NoPayload      <- NoPrompt,
        OwnerOf        <- [k \in Keys |-> "customer"],
        ConversationOf <- [k \in Keys |-> ConversationOf[k[2]]]

admissionVars == <<row, request>>

Roles == {"user", "assistant"}

Message ==
    [conversation : Conversations, sequence_no : Nat, role : Roles,
     client : Messages \cup {NoMessage}]

Idle    == [pc |-> "idle"]
Unheld  == [held |-> FALSE]
By(h)   == [held |-> TRUE, by |-> h]

Serving == [pc : {"lookup", "route", "reply", "admit", "conflict"}, msg : Messages]
Locking == [pc : {"lock"}, msg : Messages, role : Roles]
Writing == [pc : {"write"}, msg : Messages, role : Roles, sequence_no : Nat]

(* The type invariant. *)
TypeOK ==
    /\ A!TypeOK
    /\ sent \subseteq Anonymous
    /\ message \subseteq Message
    /\ lock \in [Conversations -> {Unheld} \cup {By(h) : h \in Handlers}]
    /\ chat \in [Handlers -> {Idle} \cup Serving \cup Locking \cup Writing]

Init ==
    /\ A!Init
    /\ sent = {}
    /\ message = {}
    /\ lock = [c \in Conversations |-> Unheld]
    /\ chat = [h \in Handlers |-> Idle]

-----------------------------------------------------------------------------
At(h, pc) == chat[h].pc = pc

Go(h, pc) == chat' = [chat EXCEPT ![h] = [pc |-> pc, msg |-> @.msg]]

In(c) == {m \in message : m.conversation = c}

ClientId(m) == IF m \in Anonymous THEN NoMessage ELSE m

Known(m) ==
    /\ ClientId(m) # NoMessage
    /\ \E x \in message : x.conversation = ConversationOf[m] /\ x.client = ClientId(m)

NextSequence(c) == Max({0} \cup {m.sequence_no : m \in In(c)}) + 1

Receive(h, m) ==
    /\ At(h, "idle")
    /\ m \notin sent
    /\ sent' = sent \cup ({m} \cap Anonymous)
    /\ chat' = [chat EXCEPT ![h] = [pc |-> "lookup", msg |-> m]]
    /\ UNCHANGED <<message, lock, admissionVars>>

BeginAppend(h, role) ==
    chat' = [chat EXCEPT ![h] = [pc |-> "lock", msg |-> @.msg, role |-> role]]

(* _append_message: a message that is already stored is returned as it is. *)
LookUp(h) ==
    /\ At(h, "lookup")
    /\ IF Known(chat[h].msg) THEN Go(h, "route") ELSE BeginAppend(h, "user")
    /\ UNCHANGED <<sent, message, lock, admissionVars>>

(* Mutant: SELECT without FOR UPDATE. *)
LockUnheld(h) ==
    /\ At(h, "lock")
    /\ chat' = [chat EXCEPT ![h] =
                  [pc |-> "write", msg |-> @.msg, role |-> @.role,
                   sequence_no |-> NextSequence(ConversationOf[@.msg])]]
    /\ UNCHANGED <<sent, message, lock, admissionVars>>

(* The conversation's row is locked before its highest number is read. *)
Lock(h) ==
    LET c == ConversationOf[chat[h].msg]
    IN  /\ At(h, "lock")
        /\ lock[c] = Unheld
        /\ lock' = [lock EXCEPT ![c] = By(h)]
        /\ chat' = [chat EXCEPT ![h] =
                      [pc |-> "write", msg |-> @.msg, role |-> @.role,
                       sequence_no |-> NextSequence(c)]]
        /\ UNCHANGED <<sent, message, admissionVars>>

Release(h) == lock' = [c \in Conversations |-> IF lock[c] = By(h) THEN Unheld ELSE lock[c]]

(* Mutant: no unique index on client_message_id. *)
WriteUnindexed(h) ==
    LET m    == chat[h].msg
        user == chat[h].role = "user"
    IN  /\ At(h, "write")
        /\ message' = message \cup
              {[conversation |-> ConversationOf[m], sequence_no |-> chat[h].sequence_no,
                role |-> chat[h].role, client |-> IF user THEN ClientId(m) ELSE NoMessage]}
        /\ IF user THEN Go(h, "route") ELSE chat' = [chat EXCEPT ![h] = Idle]
        /\ Release(h)
        /\ UNCHANGED <<sent, admissionVars>>

(* INSERT and COMMIT, or IntegrityError, ROLLBACK and another look: the
   conflict of a user's message that is there now is no error. *)
Write(h) ==
    LET m    == chat[h].msg
        c    == ConversationOf[m]
        user == chat[h].role = "user"
        new  == [conversation |-> c, sequence_no |-> chat[h].sequence_no,
                 role |-> chat[h].role, client |-> IF user THEN ClientId(m) ELSE NoMessage]
        taken == new.sequence_no \in {x.sequence_no : x \in In(c)}
    IN  /\ At(h, "write")
        /\ IF taken \/ (user /\ Known(m))
           THEN /\ IF user /\ Known(m) THEN Go(h, "route") ELSE Go(h, "conflict")
                /\ UNCHANGED message
           ELSE /\ message' = message \cup {new}
                /\ IF user THEN Go(h, "route") ELSE chat' = [chat EXCEPT ![h] = Idle]
        /\ Release(h)
        /\ UNCHANGED <<sent, admissionVars>>

Replies ==
    Cardinality({m \in message : m.role = "assistant"})
    + Cardinality({h \in Handlers :
          At(h, "reply") \/ (chat[h].pc \in {"lock", "write"} /\ chat[h].role = "assistant")})

(* route_intent and decide_next_step lead to a reply or to a job. *)
RouteToReply(h) ==
    /\ At(h, "route")
    /\ Replies < ReplyBound
    /\ Go(h, "reply")
    /\ UNCHANGED <<sent, message, lock, admissionVars>>

(* Mutant: a message that was sent again is not looked for. *)
RouteToJobUnchecked(h, kind, prompt) ==
    /\ At(h, "route")
    /\ Go(h, "admit")
    /\ request' = [request EXCEPT ![h] =
                     [pc |-> "global", key |-> <<kind, chat[h].msg>>, payload |-> prompt]]
    /\ UNCHANGED <<sent, message, lock, row>>

RouteToJob(h, kind, prompt) ==
    /\ At(h, "route")
    /\ Go(h, "admit")
    /\ A!Begin(h, <<kind, chat[h].msg>>, prompt)
    /\ UNCHANGED <<sent, message, lock>>

(* gemini.complete, or the clarification's question. *)
Reply(h) ==
    /\ At(h, "reply")
    /\ BeginAppend(h, "assistant")
    /\ UNCHANGED <<sent, message, lock, admissionVars>>

Admit(h) ==
    /\ \/ A!Find(h)
       \/ A!CountGlobal(h)
       \/ A!CountBacklog(h)
       \/ A!Insert(h)
    /\ UNCHANGED <<sent, message, lock, chat>>

AnswerJob(h) ==
    /\ At(h, "admit")
    /\ A!Finish(h)
    /\ chat' = [chat EXCEPT ![h] = Idle]
    /\ UNCHANGED <<sent, message, lock>>

(* Mutant: the session is not closed, and its transaction stays open. *)
FailHoldingLock(h) ==
    /\ At(h, "write")
    /\ chat' = [chat EXCEPT ![h] = Idle]
    /\ UNCHANGED <<sent, message, lock, admissionVars>>

(* An await raises, a conflict does, the client is gone or the process stops.  The
   session of the request ends with it, and its open transaction is rolled back. *)
Fail(h) ==
    /\ ~At(h, "idle")
    /\ chat' = [chat EXCEPT ![h] = Idle]
    /\ Release(h)
    /\ CASE A!At(h, "idle")     -> UNCHANGED admissionVars
         [] A!At(h, "answered") -> A!Finish(h)
         [] OTHER               -> A!Fail(h)
    /\ UNCHANGED <<sent, message>>

Pipeline(k) ==
    /\ A!JobLeaves(k) \/ A!JobReturns(k)
    /\ UNCHANGED <<sent, message, lock, chat>>

Next ==
    \/ \E h \in Handlers :
          \/ \E m \in Messages : Receive(h, m)
          \/ LookUp(h) \/ Lock(h) \/ Write(h) \/ Reply(h)
          \/ RouteToReply(h)
          \/ \E kind \in Kinds, p \in Prompts : RouteToJob(h, kind, p)
          \/ Admit(h) \/ AnswerJob(h) \/ Fail(h)
    \/ \E k \in Keys : Pipeline(k)

Spec == Init /\ [][Next]_vars

-----------------------------------------------------------------------------
(* Properties. *)

(* conversations.py:201-230: the row lock serializes the allocation of
   sequence numbers, so the UNIQUE constraint on them refuses nobody; and
   who loses the race for a client_message_id is served with the row that
   won it. *)
NoMessageRefused == \A h \in Handlers : ~At(h, "conflict")

(* conversations.py:188-189: the numbers of a conversation have no gap and no
   repetition, though requests fail between reading a number and storing the
   message; and a message that was sent again is stored once. *)
NumberedInOrder ==
    \A c \in Conversations :
        /\ {m.sequence_no : m \in In(c)} = 1..Cardinality(In(c))
        /\ \A x, y \in In(c) : x.client = y.client /\ x.client # NoMessage => x = y

(* A message makes jobs only through admission, so what holds of that does. *)
ImplementsAdmission == A!Spec

(* conversations.py:201-205: whoever holds a conversation is about to store a
   message in it and waits for nobody, so those who wait for the lock get it:
   no failure leaves it behind, and no call to a model is made under it. *)
LockHolderWrites ==
    \A c \in Conversations, h \in Handlers :
        lock[c] = By(h) <=> At(h, "write") /\ ConversationOf[chat[h].msg] = c

-----------------------------------------------------------------------------
(* What comments say and the code does not do. *)

(* chat_router.py:591-594: a client that sends the same message again gets
   the job of the first time, never a second one. *)
OneJobPerMessage ==
    \A m \in Messages : Cardinality({kind \in Kinds : A!Stored(<<kind, m>>)}) <= 1

=============================================================================
