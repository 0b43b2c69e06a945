-------------------------- MODULE SmartMessageProofs --------------------------
(***************************************************************************)
(* What holds of the messages of a conversation, and of the jobs they ask  *)
(* for, for any number of requests, messages, conversations and prompts,   *)
(* and whatever the model answers.                                         *)
(***************************************************************************)
EXTENDS SmartMessage, FiniteSetTheorems, TLAPS

-----------------------------------------------------------------------------
(* The inductive invariant. *)
Chats == {Idle} \cup Serving \cup Locking \cup Writing

Shape ==
    /\ sent \subseteq Anonymous
    /\ message \subseteq Message /\ IsFiniteSet(message)
    /\ lock \in [Conversations -> {Unheld} \cup {By(h) : h \in Handlers}]
    /\ chat \in [Handlers -> Chats]

Size(c) == Cardinality(In(c))

(* Who writes read its number under the lock it still holds, so the number
   is still the next one. *)
WritesNext ==
    \A h \in Handlers :
        At(h, "write") => chat[h].sequence_no = Size(ConversationOf[chat[h].msg]) + 1

ChatInv == Shape /\ LockHolderWrites /\ WritesNext /\ NumberedInOrder /\ NoMessageRefused

-----------------------------------------------------------------------------
(* The place a handler has reached tells what it keeps. *)
LEMMA ChatAt ==
    ASSUME Shape, NEW h \in Handlers
    PROVE  /\ chat[h] \in Chats
           /\ At(h, "idle") <=> chat[h] = Idle
           /\ chat[h].pc \in {"lookup", "route", "reply", "admit", "conflict"} <=> chat[h] \in Serving
           /\ At(h, "lock") <=> chat[h] \in Locking
           /\ At(h, "write") <=> chat[h] \in Writing
           /\ ~At(h, "idle") => /\ chat[h].msg \in Messages
                                /\ ConversationOf[chat[h].msg] \in Conversations
  <1>1. chat[h] \in Chats
    BY DEF Shape
  <1>2. /\ \A x \in Serving : x.pc \in {"lookup", "route", "reply", "admit", "conflict"}
                              /\ x.msg \in Messages
        /\ \A x \in Locking : x.pc = "lock" /\ x.msg \in Messages
        /\ \A x \in Writing : x.pc = "write" /\ x.msg \in Messages
        /\ Idle.pc = "idle"
    BY DEF Serving, Locking, Writing, Idle
  <1>3. QED
    BY <1>1, <1>2 DEF Chats, At, Conversations

LEMMA Places ==
    ASSUME NEW m \in Messages, NEW role \in Roles, NEW n \in Nat
    PROVE  /\ \A pc \in {"lookup", "route", "reply", "admit", "conflict"} :
                 [pc |-> pc, msg |-> m] \in Chats
           /\ [pc |-> "lock", msg |-> m, role |-> role] \in Chats
           /\ [pc |-> "write", msg |-> m, role |-> role, sequence_no |-> n] \in Chats
           /\ Idle \in Chats /\ Idle.pc = "idle"
  BY DEF Chats, Serving, Locking, Writing, Idle

LEMMA HoldersDiffer ==
    /\ \A h, g \in Handlers : By(h) = By(g) => h = g
    /\ \A h \in Handlers : By(h) # Unheld
  <1>1. \A h \in Handlers : By(h).held = TRUE /\ By(h).by = h
    BY DEF By
  <1>2. Unheld.held = FALSE
    BY DEF Unheld
  <1>3. QED
    BY <1>1, <1>2

LEMMA SizeIsNat ==
    ASSUME Shape, NEW c
    PROVE  IsFiniteSet(In(c)) /\ Size(c) \in Nat
  <1>1. In(c) \in SUBSET message
    BY DEF In
  <1>2. QED
    BY <1>1, FS_Subset, FS_CardinalityType DEF Shape, Size

(* The next number is one more than there are messages. *)
LEMMA NextNumber ==
    ASSUME Shape, NumberedInOrder, NEW c \in Conversations
    PROVE  NextSequence(c) = Size(c) + 1
  <1>1. PICK n \in Nat : n = Size(c)
    BY SizeIsNat
  <1>2. {m.sequence_no : m \in In(c)} = 1..n
    BY <1>1 DEF NumberedInOrder, Size
  <1>3. Max({0} \cup 1..n) = n
    <2>1. n \in {0} \cup 1..n /\ \A y \in {0} \cup 1..n : y \in Nat /\ n >= y
      OBVIOUS
    <2>2. \A x \in {0} \cup 1..n : (\A y \in {0} \cup 1..n : x >= y) => x = n
      BY <2>1
    <2>3. QED
      BY <2>1, <2>2 DEF Max
  <1>4. QED
    BY <1>1, <1>2, <1>3 DEF NextSequence

-----------------------------------------------------------------------------
(* The steps that store nothing. *)
Becomes(h, new) == chat' = [chat EXCEPT ![h] = new]

LEMMA ChatBecomes ==
    ASSUME Shape, NEW h \in Handlers, NEW new \in Chats, Becomes(h, new)
    PROVE  /\ chat' \in [Handlers -> Chats]
           /\ chat'[h] = new
           /\ \A g \in Handlers \ {h} : chat'[g] = chat[g]
  BY DEF Shape, Becomes

(* A handler that does not hold the lock goes on. *)
LEMMA GoesOn ==
    ASSUME ChatInv, NEW h \in Handlers, NEW new \in Chats, Becomes(h, new),
           new.pc \notin {"write", "conflict"}, ~At(h, "write"), UNCHANGED <<message, lock>>,
           sent' \subseteq Anonymous
    PROVE  ChatInv'
  <1>1. /\ chat' \in [Handlers -> Chats] /\ chat'[h] = new
        /\ \A g \in Handlers \ {h} : chat'[g] = chat[g]
    BY ChatBecomes DEF ChatInv
  <1>2. Shape'
    BY <1>1 DEF ChatInv, Shape
  <1>3. \A c : In(c)' = In(c) /\ Size(c)' = Size(c)
    BY DEF In, Size
  <1>4. ~At(h, "write")' /\ ~At(h, "conflict")'
        /\ \A g \in Handlers \ {h} : /\ At(g, "write")' <=> At(g, "write")
                                     /\ At(g, "conflict")' <=> At(g, "conflict")
    BY <1>1 DEF At
  <1>5. LockHolderWrites'
    BY <1>1, <1>4 DEF ChatInv, LockHolderWrites
  <1>6. WritesNext'
    BY <1>1, <1>3, <1>4 DEF ChatInv, WritesNext
  <1>7. NumberedInOrder' /\ NoMessageRefused'
    BY <1>3, <1>4 DEF ChatInv, NumberedInOrder, NoMessageRefused, In
  <1>8. QED
    BY <1>2, <1>5, <1>6, <1>7 DEF ChatInv

(* A transaction ends, and with it the lock, if it had one. *)
LEMMA LetsGo ==
    ASSUME ChatInv, NEW h \in Handlers, NEW new \in Chats, Becomes(h, new),
           new.pc \notin {"write", "conflict"}, Release(h), UNCHANGED <<sent, message>>
    PROVE  ChatInv'
  <1>1. /\ chat' \in [Handlers -> Chats] /\ chat'[h] = new
        /\ \A g \in Handlers \ {h} : chat'[g] = chat[g]
    BY ChatBecomes DEF ChatInv
  <1>2. /\ lock \in [Conversations -> {Unheld} \cup {By(g) : g \in Handlers}]
        /\ lock' = [c \in Conversations |-> IF lock[c] = By(h) THEN Unheld ELSE lock[c]]
    BY DEF ChatInv, Shape, Release
  <1>3. Shape'
    BY <1>1, <1>2 DEF ChatInv, Shape
  <1>4. \A c : In(c)' = In(c) /\ Size(c)' = Size(c)
    BY DEF In, Size
  <1>5. ~At(h, "write")' /\ ~At(h, "conflict")'
        /\ \A g \in Handlers \ {h} : /\ At(g, "write")' <=> At(g, "write")
                                     /\ At(g, "conflict")' <=> At(g, "conflict")
    BY <1>1 DEF At
  <1>6. LockHolderWrites'
    <2>1. \A c \in Conversations : /\ lock'[c] # By(h)
                                   /\ \A g \in Handlers \ {h} : lock'[c] = By(g) <=> lock[c] = By(g)
      BY <1>2, HoldersDiffer
    <2>2. QED
      BY <1>1, <1>5, <2>1 DEF ChatInv, LockHolderWrites
  <1>7. WritesNext'
    BY <1>1, <1>4, <1>5 DEF ChatInv, WritesNext
  <1>8. NumberedInOrder' /\ NoMessageRefused'
    BY <1>4, <1>5 DEF ChatInv, NumberedInOrder, NoMessageRefused, In
  <1>9. QED
    BY <1>3, <1>6, <1>7, <1>8 DEF ChatInv


-----------------------------------------------------------------------------
(* The steps that take the lock and use it. *)
LEMMA LockStep ==
    ASSUME ChatInv, NEW h \in Handlers, Lock(h)
    PROVE  ChatInv'
  <1>1. Shape /\ LockHolderWrites /\ WritesNext /\ NumberedInOrder /\ NoMessageRefused
    BY DEF ChatInv
  <1>2. chat[h] \in Locking
    BY <1>1, ChatAt DEF Lock
  <1>3. PICK m \in Messages, role \in Roles, c \in Conversations, n \in Nat :
           m = chat[h].msg /\ role = chat[h].role /\ c = ConversationOf[m] /\ n = Size(c)
    <2>1. chat[h].msg \in Messages /\ chat[h].role \in Roles
      BY <1>2 DEF Locking
    <2>2. ConversationOf[chat[h].msg] \in Conversations
      BY <2>1 DEF Conversations
    <2>3. QED
      BY <1>1, <2>1, <2>2, SizeIsNat
  <1> DEFINE new == [pc |-> "write", msg |-> m, role |-> role, sequence_no |-> n + 1]
  <1>4. NextSequence(c) = n + 1
    BY <1>1, <1>3, NextNumber
  <1>5. /\ lock[c] = Unheld /\ lock' = [lock EXCEPT ![c] = By(h)] /\ UNCHANGED <<sent, message>>
        /\ Becomes(h, new)
    BY <1>3, <1>4 DEF Lock, Becomes
  <1>6. new \in Chats /\ new.pc = "write" /\ new.msg = m /\ new.sequence_no = n + 1
    <2>1. n + 1 \in Nat
      OBVIOUS
    <2>2. QED
      BY <2>1, Places
  <1> HIDE DEF new
  <1>7. /\ chat' \in [Handlers -> Chats] /\ chat'[h] = new
        /\ \A g \in Handlers \ {h} : chat'[g] = chat[g]
    BY <1>1, <1>5, <1>6, ChatBecomes
  <1>8. Shape'
    BY <1>1, <1>5, <1>7 DEF Shape
  <1>9. \A x : In(x)' = In(x) /\ Size(x)' = Size(x)
    BY <1>5 DEF In, Size
  <1>10. At(h, "write")' /\ ~At(h, "conflict")'
         /\ \A g \in Handlers \ {h} : /\ At(g, "write")' <=> At(g, "write")
                                      /\ At(g, "conflict")' <=> At(g, "conflict")
    BY <1>6, <1>7 DEF At
  <1>11. LockHolderWrites'
    <2> SUFFICES ASSUME NEW x \in Conversations, NEW g \in Handlers
                 PROVE  lock'[x] = By(g) <=> At(g, "write")' /\ ConversationOf[chat'[g].msg] = x
      BY DEF LockHolderWrites
    <2>1. lock'[c] = By(h) /\ (x # c => lock'[x] = lock[x])
      BY <1>1, <1>5 DEF Shape
    <2>2. lock[x] = By(g) <=> At(g, "write") /\ ConversationOf[chat[g].msg] = x
      BY <1>1 DEF LockHolderWrites
    <2>3. CASE g = h
      <3>1. ~At(h, "write")
        BY DEF Lock, At
      <3>2. lock[x] # By(h)
        BY <2>2, <2>3, <3>1
      <3>3. QED
        BY <1>3, <1>6, <1>7, <1>10, <2>1, <2>3, <3>2
    <2>4. CASE g # h /\ x # c
      BY <1>7, <1>10, <2>1, <2>2, <2>4
    <2>5. CASE g # h /\ x = c
      BY <1>5, <1>7, <1>10, <2>1, <2>2, <2>5, HoldersDiffer
    <2>6. QED
      BY <2>3, <2>4, <2>5
  <1>12. WritesNext'
    <2> SUFFICES ASSUME NEW g \in Handlers, At(g, "write")'
                 PROVE  (chat[g].sequence_no = Size(ConversationOf[chat[g].msg]) + 1)'
      BY DEF WritesNext
    <2>1. CASE g = h
      BY <1>3, <1>6, <1>7, <1>9, <2>1
    <2>2. CASE g # h
      BY <1>1, <1>7, <1>9, <1>10, <2>2 DEF WritesNext
    <2>3. QED
      BY <2>1, <2>2
  <1>13. NumberedInOrder' /\ NoMessageRefused'
    BY <1>1, <1>9, <1>10 DEF NumberedInOrder, NoMessageRefused, In
  <1>14. QED
    BY <1>8, <1>11, <1>12, <1>13 DEF ChatInv

(* A message is added with the next number of its conversation; nobody else
   writes there. *)
LEMMA Stores ==
    ASSUME ChatInv, NEW h \in Handlers, NEW c \in Conversations, NEW n \in Nat, NEW stored \in Message,
           At(h, "write"), ConversationOf[chat[h].msg] = c, n = Size(c),
           stored.conversation = c, stored.sequence_no = n + 1,
           \A x \in In(c) : stored.client = x.client => stored.client = NoMessage,
           message' = message \cup {stored}, sent' = sent,
           NEW new \in Chats, new.pc \notin {"write", "conflict"}, Becomes(h, new), Release(h)
    PROVE  ChatInv'
  <1>1. Shape /\ LockHolderWrites /\ WritesNext /\ NumberedInOrder /\ NoMessageRefused
    BY DEF ChatInv
  <1>2. /\ chat' \in [Handlers -> Chats] /\ chat'[h] = new
        /\ \A g \in Handlers \ {h} : chat'[g] = chat[g]
    BY <1>1, ChatBecomes
  <1>3. /\ lock \in [Conversations -> {Unheld} \cup {By(g) : g \in Handlers}]
        /\ lock' = [x \in Conversations |-> IF lock[x] = By(h) THEN Unheld ELSE lock[x]]
    BY <1>1 DEF Shape, Release
  <1>4. Shape'
    <2>1. IsFiniteSet(message')
      BY <1>1, FS_AddElement DEF Shape
    <2>2. QED
      BY <1>1, <1>2, <1>3, <2>1 DEF Shape
  <1>5. ~At(h, "write")' /\ ~At(h, "conflict")'
        /\ \A g \in Handlers \ {h} : /\ At(g, "write")' <=> At(g, "write")
                                     /\ At(g, "conflict")' <=> At(g, "conflict")
    BY <1>2 DEF At
  <1>6. LockHolderWrites'
    <2>1. \A x \in Conversations : /\ lock'[x] # By(h)
                                   /\ \A g \in Handlers \ {h} : lock'[x] = By(g) <=> lock[x] = By(g)
      BY <1>3, HoldersDiffer
    <2>2. QED
      BY <1>1, <1>2, <1>5, <2>1 DEF LockHolderWrites
  <1>7. /\ In(c)' = In(c) \cup {stored}
        /\ \A x \in Conversations \ {c} : In(x)' = In(x) /\ Size(x)' = Size(x)
    BY DEF In, Size
  <1>8. stored \notin In(c) /\ Size(c)' = n + 1
    <2>1. {m.sequence_no : m \in In(c)} = 1..n
      BY <1>1 DEF NumberedInOrder, Size
    <2>2. \A m \in In(c) : m.sequence_no \in 1..n
      BY <2>1
    <2>3. stored \notin In(c)
      BY <2>2
    <2>4. Cardinality(In(c) \cup {stored}) = Cardinality(In(c)) + 1
      BY <1>1, <2>3, SizeIsNat, FS_AddElement
    <2>5. QED
      BY <1>7, <2>3, <2>4 DEF Size
  <1>9. WritesNext'
    <2> SUFFICES ASSUME NEW g \in Handlers, At(g, "write")'
                 PROVE  (chat[g].sequence_no = Size(ConversationOf[chat[g].msg]) + 1)'
      BY DEF WritesNext
    <2>1. g # h /\ chat'[g] = chat[g] /\ At(g, "write")
      BY <1>2, <1>5
    <2>2. ConversationOf[chat[g].msg] \in Conversations
      BY <1>1, <2>1, ChatAt DEF At
    <2>3. ConversationOf[chat[g].msg] # c
      BY <1>1, <2>1, HoldersDiffer DEF LockHolderWrites
    <2>4. QED
      BY <1>1, <1>7, <2>1, <2>2, <2>3 DEF WritesNext
  <1>10. NumberedInOrder'
    <2> SUFFICES ASSUME NEW x \in Conversations
                 PROVE  /\ {m.sequence_no : m \in In(x)'} = 1..Size(x)'
                        /\ \A y, z \in In(x)' :
                              y.client = z.client /\ y.client # NoMessage => y = z
      BY DEF NumberedInOrder, Size
    <2>1. /\ {m.sequence_no : m \in In(x)} = 1..Size(x)
          /\ \A y, z \in In(x) : y.client = z.client /\ y.client # NoMessage => y = z
      BY <1>1 DEF NumberedInOrder, Size
    <2>2. CASE x # c
      BY <1>7, <2>1, <2>2
    <2>3. CASE x = c
      <3>1. {m.sequence_no : m \in In(c)} = 1..n
        BY <2>1, <2>3
      <3>2. {m.sequence_no : m \in In(c) \cup {stored}} = (1..n) \cup {n + 1}
        BY <3>1
      <3>3. (1..n) \cup {n + 1} = 1..(n + 1)
        OBVIOUS
      <3>4. \A y, z \in In(c)' : y.client = z.client /\ y.client # NoMessage => y = z
        BY <1>7, <2>1, <2>3
      <3>5. QED
        BY <1>7, <1>8, <2>3, <3>2, <3>3, <3>4
    <2>4. QED
      BY <2>2, <2>3
  <1>11. NoMessageRefused'
    BY <1>1, <1>5 DEF NoMessageRefused
  <1>12. QED
    BY <1>1, <1>4, <1>6, <1>9, <1>10, <1>11 DEF ChatInv

LEMMA WriteStep ==
    ASSUME ChatInv, NEW h \in Handlers, Write(h)
    PROVE  ChatInv'
  <1>1. Shape /\ LockHolderWrites /\ WritesNext /\ NumberedInOrder /\ NoMessageRefused
    BY DEF ChatInv
  <1>2. At(h, "write") /\ chat[h] \in Writing /\ Release(h) /\ sent' = sent
    BY <1>1, ChatAt DEF Write
  <1>3. PICK m \in Messages, role \in Roles, c \in Conversations, n \in Nat :
           /\ m = chat[h].msg /\ role = chat[h].role /\ c = ConversationOf[m] /\ n = Size(c)
           /\ chat[h].sequence_no = n + 1
    <2>1. chat[h].msg \in Messages /\ chat[h].role \in Roles
      BY <1>2 DEF Writing
    <2>2. ConversationOf[chat[h].msg] \in Conversations
      BY <2>1 DEF Conversations
    <2>3. QED
      BY <1>1, <1>2, <2>1, <2>2, SizeIsNat DEF WritesNext
  <1> DEFINE stored == [conversation |-> c, sequence_no |-> n + 1, role |-> role,
                        client |-> IF role = "user" THEN ClientId(m) ELSE NoMessage]
             route == [pc |-> "route", msg |-> m]
  <1>4. stored \in Message /\ stored.conversation = c /\ stored.sequence_no = n + 1
        /\ stored.client = IF role = "user" THEN ClientId(m) ELSE NoMessage
    BY DEF Message, ClientId
  <1>5. n + 1 \notin {x.sequence_no : x \in In(c)}
    <2>1. {x.sequence_no : x \in In(c)} = 1..n
      BY <1>1, <1>3 DEF NumberedInOrder, Size
    <2>2. QED
      BY <2>1
  <1>6. route \in Chats /\ route.pc = "route" /\ Idle \in Chats /\ Idle.pc = "idle"
    BY Places DEF Roles
  <1>7. \/ /\ role = "user" /\ Known(m) /\ Becomes(h, route) /\ message' = message
        \/ /\ role # "user" \/ ~Known(m)
           /\ message' = message \cup {stored}
           /\ Becomes(h, route) \/ Becomes(h, Idle)
    BY <1>3, <1>5 DEF Write, Go, Becomes
  <1> HIDE DEF stored, route
  <1>8. CASE role = "user" /\ Known(m) /\ Becomes(h, route) /\ message' = message
    BY <1>2, <1>6, <1>8, LetsGo
  <1>9. CASE /\ role # "user" \/ ~Known(m)
             /\ message' = message \cup {stored}
             /\ Becomes(h, route) \/ Becomes(h, Idle)
    <2>1. \A x \in In(c) : stored.client = x.client => stored.client = NoMessage
      BY <1>3, <1>4, <1>9 DEF Known, In
    <2>2. ASSUME NEW new \in {route, Idle}, Becomes(h, new)
          PROVE  ChatInv'
      <3>1. new \in Chats /\ new.pc \notin {"write", "conflict"}
        BY <1>6, <2>2
      <3>2. QED
        BY <1>2, <1>3, <1>4, <1>9, <2>1, <2>2, <3>1, Stores
    <2>3. QED
      BY <1>9, <2>2
  <1>10. QED
    BY <1>7, <1>8, <1>9

-----------------------------------------------------------------------------
(* Every step. *)
LEMMA QuietStep ==
    ASSUME ChatInv, NEW h \in Handlers,
           \/ \E m \in Messages : Receive(h, m)
           \/ LookUp(h) \/ Reply(h) \/ RouteToReply(h)
           \/ \E kind \in Kinds, p \in Prompts : RouteToJob(h, kind, p)
           \/ AnswerJob(h)
    PROVE  ChatInv'
  <1>1. Shape
    BY DEF ChatInv
  <1>2. ASSUME NEW new \in Chats, Becomes(h, new), new.pc \notin {"write", "conflict"},
               ~At(h, "write"), UNCHANGED <<message, lock>>, sent' \subseteq Anonymous
        PROVE  ChatInv'
    BY <1>2, GoesOn
  <1>3. ASSUME NEW m \in Messages, Receive(h, m)
        PROVE  ChatInv'
    <2> DEFINE new == [pc |-> "lookup", msg |-> m]
    <2>1. new \in Chats /\ new.pc = "lookup"
      BY Places DEF Roles
    <2>2. Becomes(h, new) /\ ~At(h, "write") /\ UNCHANGED <<message, lock>> /\ sent' \subseteq Anonymous
      BY <1>1, <1>3 DEF Receive, Becomes, At, Shape
    <2> HIDE DEF new
    <2>3. QED
      BY <1>2, <2>1, <2>2
  <1>4. CASE AnswerJob(h)
    <2>1. Idle \in Chats /\ Idle.pc = "idle"
      BY DEF Chats, Idle
    <2>2. Becomes(h, Idle) /\ ~At(h, "write") /\ UNCHANGED <<message, lock>> /\ sent' \subseteq Anonymous
      BY <1>1, <1>4 DEF AnswerJob, Becomes, At, Shape
    <2>3. QED
      BY <1>2, <2>1, <2>2
  <1>5. ASSUME \/ LookUp(h) \/ Reply(h) \/ RouteToReply(h)
               \/ \E kind \in Kinds, p \in Prompts : RouteToJob(h, kind, p)
        PROVE  ChatInv'
    <2>1. chat[h].pc \in {"lookup", "route", "reply"}
      BY <1>5 DEF LookUp, Reply, RouteToReply, RouteToJob, At
    <2>2. PICK m \in Messages : m = chat[h].msg
      BY <1>1, <2>1, ChatAt DEF At
    <2>3. PICK new : /\ Becomes(h, new)
                     /\ \/ new \in {[pc |-> pc, msg |-> m] : pc \in {"route", "reply", "admit"}}
                        \/ new \in {[pc |-> "lock", msg |-> m, role |-> role] : role \in Roles}
      BY <1>5, <2>2 DEF LookUp, Reply, RouteToReply, RouteToJob, BeginAppend, Go, Becomes, Roles
    <2>4. new \in Chats /\ new.pc \notin {"write", "conflict"}
      <3>1. CASE new \in {[pc |-> pc, msg |-> m] : pc \in {"route", "reply", "admit"}}
        <4>1. PICK pc \in {"route", "reply", "admit"} : new = [pc |-> pc, msg |-> m]
          BY <3>1
        <4>2. new.pc = pc
          BY <4>1
        <4>3. QED
          BY <4>1, <4>2, Places DEF Roles
      <3>2. CASE new \in {[pc |-> "lock", msg |-> m, role |-> role] : role \in Roles}
        <4>1. PICK role \in Roles : new = [pc |-> "lock", msg |-> m, role |-> role]
          BY <3>2
        <4>2. new.pc = "lock" /\ 0 \in Nat
          BY <4>1
        <4>3. QED
          BY <4>1, <4>2, Places
      <3>3. QED
        BY <2>3, <3>1, <3>2
    <2>5. ~At(h, "write") /\ UNCHANGED <<message, lock>> /\ sent' \subseteq Anonymous
      BY <1>1, <1>5, <2>1 DEF LookUp, Reply, RouteToReply, RouteToJob, At, Shape
    <2>6. QED
      BY <1>2, <2>3, <2>4, <2>5
  <1>6. QED
    BY <1>3, <1>4, <1>5

LEMMA FailStep ==
    ASSUME ChatInv, NEW h \in Handlers, Fail(h)
    PROVE  ChatInv'
  <1>1. Idle \in Chats /\ Idle.pc = "idle"
    BY DEF Chats, Idle
  <1>2. Becomes(h, Idle) /\ Release(h) /\ UNCHANGED <<sent, message>>
    BY DEF Fail, Becomes
  <1>3. QED
    BY <1>1, <1>2, LetsGo

LEMMA ChatStep == ASSUME ChatInv, [Next]_vars PROVE ChatInv'
  <1>1. CASE UNCHANGED <<sent, message, lock, chat>>
    <2>1. ChatInv' <=> ChatInv
      BY <1>1 DEF ChatInv, Shape, LockHolderWrites, WritesNext, NumberedInOrder, NoMessageRefused,
                  Size, In, At
    <2>2. QED
      BY <2>1
  <1>2. ASSUME NEW h \in Handlers, Admit(h) PROVE ChatInv'
    BY <1>1, <1>2 DEF Admit
  <1>3. ASSUME NEW k \in Keys, Pipeline(k) PROVE ChatInv'
    BY <1>1, <1>3 DEF Pipeline
  <1>4. CASE UNCHANGED vars
    BY <1>1, <1>4 DEF vars
  <1>5. QED
    BY <1>2, <1>3, <1>4, QuietStep, LockStep, WriteStep, FailStep DEF Next

LEMMA ChatInit == Init => ChatInv
  <1> SUFFICES ASSUME Init PROVE ChatInv
    OBVIOUS
  <1>1. /\ sent = {} /\ message = {} /\ lock = [c \in Conversations |-> Unheld]
        /\ chat = [h \in Handlers |-> Idle]
    BY DEF Init
  <1>2. Shape
    BY <1>1, FS_EmptySet DEF Shape, Chats
  <1>3. \A h \in Handlers : At(h, "idle")
    BY <1>1 DEF At, Idle
  <1>4. LockHolderWrites
    BY <1>1, <1>3, HoldersDiffer DEF LockHolderWrites, At
  <1>5. WritesNext /\ NoMessageRefused
    BY <1>3 DEF WritesNext, NoMessageRefused, At
  <1>6. \A c : In(c) = {} /\ Cardinality({}) = 0
    BY <1>1, FS_EmptySet DEF In
  <1>7. NumberedInOrder
    <2>1. 1..0 = {}
      OBVIOUS
    <2>2. QED
      BY <1>6, <2>1 DEF NumberedInOrder
  <1>8. QED
    BY <1>2, <1>4, <1>5, <1>7 DEF ChatInv

LEMMA ChatInvAlways == Spec => []ChatInv
  BY ChatInit, ChatStep, PTL DEF Spec

-----------------------------------------------------------------------------
(* Admission. *)
LEMMA StepIsAdmission ==
    ASSUME Shape, [Next]_vars
    PROVE  [A!Next]_(A!vars)
  <1>1. UNCHANGED admissionVars => UNCHANGED A!vars
    BY DEF A!vars, admissionVars
  <1>2. ASSUME NEW h \in Handlers, NEW kind \in Kinds, NEW p \in Prompts, RouteToJob(h, kind, p)
        PROVE  A!Next
    <2>1. chat[h].msg \in Messages
      BY <1>2, ChatAt DEF RouteToJob, At
    <2>2. <<kind, chat[h].msg>> \in Keys
      BY <2>1 DEF Keys
    <2>3. QED
      BY <1>2, <2>2 DEF RouteToJob, A!Next
  <1>3. ASSUME NEW h \in Handlers, Admit(h) \/ AnswerJob(h)
        PROVE  A!Next
    BY <1>3 DEF Admit, AnswerJob, A!Next
  <1>4. ASSUME NEW h \in Handlers, Fail(h)
        PROVE  A!Next \/ UNCHANGED admissionVars
    BY <1>4 DEF Fail, A!Next
  <1>5. ASSUME NEW k \in Keys, Pipeline(k)
        PROVE  A!Next
    BY <1>5 DEF Pipeline, A!Next
  <1>6. ASSUME NEW h \in Handlers,
               \/ \E m \in Messages : Receive(h, m)
               \/ LookUp(h) \/ Lock(h) \/ Write(h) \/ Reply(h) \/ RouteToReply(h)
        PROVE  UNCHANGED admissionVars
    BY <1>6 DEF Receive, LookUp, Lock, Write, Reply, RouteToReply
  <1>7. Next => A!Next \/ UNCHANGED admissionVars
    BY <1>2, <1>3, <1>4, <1>5, <1>6 DEF Next
  <1>8. UNCHANGED vars => UNCHANGED admissionVars
    BY DEF vars, admissionVars
  <1>9. QED
    BY <1>1, <1>7, <1>8

-----------------------------------------------------------------------------
(* The theorems. *)

(* conversations.py:201-230, _append_message: the UNIQUE constraints refuse no
   message, because the number was read under the lock the insert ends. *)
THEOREM NoMessageIsRefused == Spec => []NoMessageRefused
  <1>1. ChatInv => NoMessageRefused
    BY DEF ChatInv
  <1>2. QED
    BY <1>1, ChatInvAlways, PTL

(* conversations.py:188-189: the numbers of every conversation run from one
   without a gap, and a message sent again is stored once. *)
THEOREM MessagesAreNumberedInOrder == Spec => []NumberedInOrder
  <1>1. ChatInv => NumberedInOrder
    BY DEF ChatInv
  <1>2. QED
    BY <1>1, ChatInvAlways, PTL

(* conversations.py:201-205: a conversation is held exactly by a request that
   is about to store a message in it, whatever failed before. *)
THEOREM LockHoldersWrite == Spec => []LockHolderWrites
  <1>1. ChatInv => LockHolderWrites
    BY DEF ChatInv
  <1>2. QED
    BY <1>1, ChatInvAlways, PTL

(* chat_router.py: a chat message asks for a job as any other request does;
   what is proved of admission holds of it. *)
THEOREM SmartMessageImplementsAdmission == Spec => ImplementsAdmission
  <1>1. Init => A!Init
    BY DEF Init
  <1>2. ChatInv /\ [Next]_vars => [A!Next]_(A!vars)
    BY StepIsAdmission DEF ChatInv
  <1>3. QED
    BY <1>1, <1>2, ChatInvAlways, PTL DEF Spec, A!Spec, ImplementsAdmission

(* The theorems about admission, of the keys and prompts of messages. *)
AP == INSTANCE AdmissionProofs WITH
         Payloads       <- Prompts,
         NoPayload      <- NoPrompt,
         OwnerOf        <- [k \in Keys |-> "customer"],
         ConversationOf <- [k \in Keys |-> ConversationOf[k[2]]]

(* What the two instances say is the same, definition by definition. *)
LEMMA SameTypes ==
    /\ A!TypeOK <=> AP!TypeOK
    /\ A!Init <=> AP!Init
  BY DEF A!TypeOK, AP!TypeOK, A!Rows, AP!Rows, A!Pending, AP!Pending, A!Answered, AP!Answered,
         A!Answers, AP!Answers, A!Absent, AP!Absent, A!Idle, AP!Idle, A!Init, AP!Init

LEMMA SameCardinality == ASSUME NEW S PROVE A!Cardinality(S) = AP!Cardinality(S)
  BY DEF A!Cardinality, AP!Cardinality

LEMMA SameNext == A!Next <=> AP!Next
  <1>1. \A h, k, p : A!Begin(h, k, p) <=> AP!Begin(h, k, p)
    BY DEF A!Begin, AP!Begin, A!At, AP!At
  <1>2. \A h : A!Find(h) <=> AP!Find(h)
    BY DEF A!Find, AP!Find, A!At, AP!At, A!CheckIdempotency, AP!CheckIdempotency, A!Go, AP!Go,
           A!Answer, AP!Answer, A!Stored, AP!Stored
  <1>3. \A S : A!Backlog(S) = AP!Backlog(S)
    BY SameCardinality DEF A!Backlog, AP!Backlog, A!Waiting, AP!Waiting
  <1>4. \A h : A!CountGlobal(h) <=> AP!CountGlobal(h)
    BY <1>3 DEF A!CountGlobal, AP!CountGlobal, A!At, AP!At, A!Below, AP!Below, A!Go, AP!Go,
                A!Answer, AP!Answer
  <1>5. \A h : A!CountBacklog(h) <=> AP!CountBacklog(h)
    BY <1>3 DEF A!CountBacklog, AP!CountBacklog, A!At, AP!At, A!Below, AP!Below, A!Go, AP!Go,
                A!Answer, AP!Answer, A!CountedWith, AP!CountedWith
  <1>6. \A h : A!Insert(h) <=> AP!Insert(h)
    BY DEF A!Insert, AP!Insert, A!At, AP!At, A!Stored, AP!Stored, A!Answer, AP!Answer
  <1>7. \A h : /\ A!Fail(h) <=> AP!Fail(h)
               /\ A!Finish(h) <=> AP!Finish(h)
    BY DEF A!Fail, AP!Fail, A!Finish, AP!Finish, A!At, AP!At, A!Idle, AP!Idle
  <1>8. \A k : /\ A!JobLeaves(k) <=> AP!JobLeaves(k)
               /\ A!JobReturns(k) <=> AP!JobReturns(k)
    BY DEF A!JobLeaves, AP!JobLeaves, A!JobReturns, AP!JobReturns, A!Waiting, AP!Waiting
  <1>9. QED
    BY <1>1, <1>2, <1>4, <1>5, <1>6, <1>7, <1>8 DEF A!Next, AP!Next

(* Admission's assumption holds of the keys of the messages. *)
LEMMA Assumed == AP!AdmissionAssumption
  BY SmartMessageAssumption DEF AP!AdmissionAssumption, AP!IsFiniteSet, IsFiniteSet

LEMMA SameVars == A!vars = AP!vars /\ A!vars' = AP!vars'
  BY DEF A!vars, AP!vars

LEMMA AdmissionTypeStep ==
    ASSUME A!TypeOK, [A!Next]_(A!vars)
    PROVE  A!TypeOK'
  <1>1. AP!TypeOK /\ [AP!Next]_(AP!vars)
    BY SameTypes, SameNext, SameVars
  <1>2. AP!TypeOK'
    BY <1>1, AP!NextType, Assumed
  <1>3. A!TypeOK' <=> AP!TypeOK'
    BY SameTypes, PTL
  <1>4. QED
    BY <1>2, <1>3

(* The type invariant: what a message asks admission for keeps the types
   admission relies on. *)
THEOREM SmartMessageTypeCorrect == Spec => []TypeOK
  <1>1. Init => A!TypeOK
    BY AP!InitType, Assumed, SameTypes DEF Init
  <1>2. ChatInv /\ A!TypeOK /\ [Next]_vars => A!TypeOK'
    BY StepIsAdmission, AdmissionTypeStep DEF ChatInv
  <1>3. ChatInv /\ A!TypeOK => TypeOK
    BY DEF ChatInv, Shape, TypeOK, Chats
  <1>4. QED
    BY <1>1, <1>2, <1>3, ChatInvAlways, PTL DEF Spec


LEMMA SameClaims ==
    /\ A!AnswerIsTheRequest <=> AP!AnswerIsTheRequest
    /\ A!OvershootBounded <=> AP!OvershootBounded
  <1>1. A!AnswerIsTheRequest <=> AP!AnswerIsTheRequest
    BY DEF A!AnswerIsTheRequest, AP!AnswerIsTheRequest, A!At, AP!At
  <1>2. \A S : /\ A!NeverClaimed(S) = AP!NeverClaimed(S)
               /\ A!Inserting(S) = AP!Inserting(S)
               /\ A!Counted(S) = AP!Counted(S)
    BY SameCardinality DEF A!NeverClaimed, AP!NeverClaimed, A!Inserting, AP!Inserting, A!Counted,
                           AP!Counted, A!At, AP!At
  <1>3. \A k : A!CountedWith(k) = AP!CountedWith(k)
    BY DEF A!CountedWith, AP!CountedWith
  <1>4. A!OvershootBounded <=> AP!OvershootBounded
    BY <1>2, <1>3, SameCardinality DEF A!OvershootBounded, AP!OvershootBounded
  <1>5. QED
    BY <1>1, <1>4

(* chat_router.py and admission.py: who sends a chat message and is told of a
   job is told of one with its own prompt, and messages exceed the caps by
   less than the requests in flight, as AdmissionProofs shows of admission. *)
THEOREM MessagesAreAdmittedAsRequests == Spec => [](A!AnswerIsTheRequest /\ A!OvershootBounded)
  <1>1. Init => AP!Init
    BY SameTypes DEF Init
  <1>2. ChatInv /\ [Next]_vars => [AP!Next]_(AP!vars)
    BY StepIsAdmission, SameNext, SameVars DEF ChatInv
  <1>3. Spec => AP!Spec
    BY <1>1, <1>2, ChatInvAlways, PTL DEF Spec, AP!Spec
  <1>4. AP!Spec => []AP!AnswerIsTheRequest /\ []AP!OvershootBounded
    BY AP!AnswersAreOfTheRequest, AP!OvershootIsBounded, Assumed, PTL
  <1>5. AP!AnswerIsTheRequest /\ AP!OvershootBounded => A!AnswerIsTheRequest /\ A!OvershootBounded
    BY SameClaims
  <1>6. QED
    BY <1>3, <1>4, <1>5, PTL
=============================================================================
