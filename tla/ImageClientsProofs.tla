-------------------------- MODULE ImageClientsProofs --------------------------
(***************************************************************************)
(* What holds of the image clients for any number of processes, of ComfyUI *)
(* servers and of images.                                                  *)
(***************************************************************************)
EXTENDS ImageClients, TLAPS

-----------------------------------------------------------------------------
(* Types. *)

Client == [cloud : BOOLEAN, next : Workers,
           resolved : [Workers -> [Images -> Known]], results : [Images -> Known]]
Call   == [pc : {"posting", "accepted"}, by : Processes, worker : Workers]
             \cup [pc : {"generating"}, by : Processes] \cup [pc : {"none", "over"}]
States == {"none", "pending", "running", "done", "blank", "error", "lost"}
Poll   == [pc : {"fetching", "missed"}, image : Images]
             \cup [pc : {"answered"}, image : Images, state : Outcomes \cup {"running", "unknown"}]
             \cup {NoCall}

LEMMA TypeIs ==
    TypeOK <=> /\ client \in [Processes -> Client]
               /\ call \in [Images -> Call]
               /\ id \in [Images -> Ids \cup {NoId}]
               /\ server \in [Workers -> [Images -> States]]
               /\ made \in [Images -> Known]
               /\ poll \in [Processes -> Poll]
               /\ told \in [Processes -> [Images -> Known]]
               /\ said \in [Images -> SUBSET Outcomes]
  BY DEF TypeOK, Client, Call, States, Poll

LEMMA WorkersType ==
    /\ 0 \in Workers
    /\ \A w \in Workers : (w + 1) % NumWorkers \in Workers
  BY ImageAssumption DEF Workers

LEMMA FreshType == \A cloud \in BOOLEAN : Fresh(cloud) \in Client
  BY WorkersType DEF Fresh, Client, Known

(* The place of a call, the tag of an id and the place of a poll tell which
   record each is. *)
LEMMA CallAt ==
    ASSUME TypeOK, NEW i \in Images
    PROVE  /\ call[i].pc \in {"posting", "accepted"} =>
                call[i] \in [pc : {"posting", "accepted"}, by : Processes, worker : Workers]
           /\ call[i].pc = "generating" => call[i].by \in Processes
           /\ call[i] = NoCall => call[i].pc = "none"
  <1>1. call[i] \in Call
    BY TypeIs
  <1> QED
    BY <1>1 DEF Call, NoCall

LEMMA IdAt ==
    ASSUME TypeOK, NEW i \in Images
    PROVE  /\ id[i].tag \in {"prompt", "local"} => id[i].worker \in Workers
           /\ id[i] # NoId <=> id[i].tag \in {"prompt", "local", "gemini", "notconfigured"}
  <1>1. id[i] \in Ids \cup {NoId}
    BY TypeIs
  <1> QED
    BY <1>1 DEF Ids, NoId

LEMMA PollAt ==
    ASSUME TypeOK, NEW q \in Processes
    PROVE  /\ poll[q].pc \in {"fetching", "missed"} => poll[q].image \in Images
           /\ poll[q].pc \in {"none", "fetching", "missed", "answered"}
  <1>1. poll[q] \in Poll
    BY TypeIs
  <1> QED
    BY <1>1 DEF Poll, NoCall

LEMMA AnswerType ==
    ASSUME TypeOK, NEW q \in Processes, NEW i \in Images,
           NEW s \in Outcomes \cup {"running", "unknown"}, Answer(q, i, s)
    PROVE  /\ poll' \in [Processes -> Poll]
           /\ told' \in [Processes -> [Images -> Known]]
           /\ said' \in [Images -> SUBSET Outcomes]
  <1>1. [pc |-> "answered", image |-> i, state |-> s] \in Poll
    BY DEF Poll
  <1>2. poll' \in [Processes -> Poll]
    BY <1>1, TypeIs DEF Answer
  <1>3. told' \in [Processes -> [Images -> Known]]
    BY TypeIs DEF Answer, Known
  <1>4. said' \in [Images -> SUBSET Outcomes]
    BY TypeIs DEF Answer
  <1> QED
    BY <1>2, <1>3, <1>4

LEMMA SettleType ==
    ASSUME TypeOK, NEW q \in Processes, NEW i \in Images, id[i].tag = "prompt",
           NEW s \in Outcomes, Settle(q, i, s)
    PROVE  client' \in [Processes -> Client]
  <1>1. client[q] \in Client /\ id[i].worker \in Workers
    BY TypeIs, IdAt
  <1>2. [client[q] EXCEPT !.resolved[id[i].worker][i] = s] \in Client
    BY <1>1 DEF Client, Known
  <1> QED
    BY <1>2, TypeIs DEF Settle

LEMMA OutcomeType ==
    ASSUME TypeOK, NEW q \in Processes, NEW i \in Images, id[i] # NoId
    PROVE  /\ Outcome(q, i) \in Known
           /\ Outcome(q, i) = "none" =>
                /\ id[i].tag = "prompt"
                /\ client[q].resolved[id[i].worker][i] = "none"
  <1>1. client[q] \in Client /\ id[i].tag \in {"prompt", "local", "gemini", "notconfigured"}
    BY TypeIs, IdAt
  <1>2. client[q].results[i] \in Known
    BY <1>1 DEF Client
  <1>3. id[i].tag = "prompt" => client[q].resolved[id[i].worker][i] \in Known
    BY <1>1, IdAt DEF Client
  <1> QED
    BY <1>1, <1>2, <1>3 DEF Outcome, Known, Outcomes

(* A get_status that awaits an answer is about a prompt without an outcome
   in this process. *)
AwaitedIsOpen ==
    \A q \in Processes :
        poll[q].pc \in {"fetching", "missed"} =>
            LET i == poll[q].image
            IN  id[i].tag = "prompt" /\ client[q].resolved[id[i].worker][i] = "none"

LEMMA TypeStep ==
    ASSUME TypeOK, AwaitedIsOpen, [Next]_vars
    PROVE  TypeOK'
  <1> DEFINE ClientType == client \in [Processes -> Client]
             CallType   == call \in [Images -> Call]
             IdType     == id \in [Images -> Ids \cup {NoId}]
             ServerType == server \in [Workers -> [Images -> States]]
             MadeType   == made \in [Images -> Known]
             PollType   == poll \in [Processes -> Poll]
                           /\ told \in [Processes -> [Images -> Known]]
                           /\ said \in [Images -> SUBSET Outcomes]
             AllTypes   == ClientType /\ CallType /\ IdType /\ ServerType /\ MadeType /\ PollType
  <1>1. AllTypes
    BY TypeIs
  <1> SUFFICES AllTypes'
    BY TypeIs DEF TypeOK, Client, Call, States, Poll
  <1> USE DEF Polling
  <1>2. ASSUME NEW i \in Images, NEW r \in Ids, Return(i, r)
        PROVE  CallType' /\ IdType'
    BY <1>1, <1>2 DEF Return, Call
  <1>3. [tag |-> "gemini"] \in Ids /\ [tag |-> "notconfigured"] \in Ids
        /\ \A w \in Workers : [tag |-> "local", worker |-> w] \in Ids /\ [tag |-> "prompt", worker |-> w] \in Ids
    BY DEF Ids
  <1>4. ASSUME NEW p \in Processes, NEW i \in Images, SubmitUnconfigured(p, i)
        PROVE  AllTypes'
    BY <1>1, <1>2, <1>3, <1>4 DEF SubmitUnconfigured
  <1>5. ASSUME NEW p \in Processes, NEW i \in Images, NEW s \in Known,
               client' = [client EXCEPT ![p].results[i] = s]
        PROVE  ClientType'
    <2>1. [client[p] EXCEPT !.results[i] = s] \in Client
      BY <1>1 DEF Client
    <2> QED
      BY <1>1, <1>5, <2>1
  <1>6. ASSUME NEW p \in Processes, NEW i \in Images, SubmitCloud(p, i)
        PROVE  AllTypes'
    <2>1. CASE i \in Blank
      BY <1>1, <1>2, <1>3, <1>5, <1>6, <2>1 DEF SubmitCloud, Known, Outcomes
    <2>2. CASE i \notin Blank
      BY <1>1, <1>6, <2>2 DEF SubmitCloud, Call
    <2> QED
      BY <2>1, <2>2
  <1>7. ASSUME NEW i \in Images, Generated(i)
        PROVE  AllTypes'
    <2>1. call[i].by \in Processes
      BY <1>7, CallAt DEF Generated
    <2>2. PICK s \in Outcomes : client' = [client EXCEPT ![call[i].by].results[i] = s]
                               /\ made' = [made EXCEPT ![i] = s]
      BY <1>7 DEF Generated
    <2>3. ClientType' /\ MadeType'
      BY <1>1, <1>5, <2>1, <2>2 DEF Known
    <2> QED
      BY <1>1, <1>2, <1>3, <1>7, <2>3 DEF Generated
  <1>8. ASSUME NEW p \in Processes, NEW i \in Images, SubmitPrompt(p, i)
        PROVE  AllTypes'
    <2>1. client[p].next \in Workers /\ (client[p].next + 1) % NumWorkers \in Workers
      BY <1>1, WorkersType DEF Client
    <2>2. [client[p] EXCEPT !.next = (client[p].next + 1) % NumWorkers] \in Client
      BY <1>1, <2>1 DEF Client
    <2>3. ClientType'
      BY <1>1, <1>8, <2>2 DEF SubmitPrompt
    <2>4. CASE i \in Blank
      BY <1>1, <1>2, <1>3, <1>8, <2>1, <2>3, <2>4 DEF SubmitPrompt
    <2>5. CASE i \notin Blank
      <3>1. [pc |-> "posting", by |-> p, worker |-> client[p].next] \in Call
        BY <2>1 DEF Call
      <3> QED
        BY <1>1, <1>8, <2>3, <2>5, <3>1 DEF SubmitPrompt
    <2> QED
      BY <2>4, <2>5
  <1>22. ASSUME NEW p \in Processes, NEW i \in Images, SubmitRaises(p, i)
         PROVE  AllTypes'
    <2>1. client[p].next \in Workers /\ (client[p].next + 1) % NumWorkers \in Workers
      BY <1>1, WorkersType DEF Client
    <2>2. [client[p] EXCEPT !.next = (client[p].next + 1) % NumWorkers] \in Client
      BY <1>1, <2>1 DEF Client
    <2>3. ClientType'
      BY <1>1, <1>22, <2>2 DEF SubmitRaises
    <2> QED
      BY <1>1, <1>22, <2>3 DEF SubmitRaises, Call
  <1>9. ASSUME NEW i \in Images, Accept(i)
        PROVE  AllTypes'
    <2>1. call[i] \in [pc : {"posting", "accepted"}, by : Processes, worker : Workers]
      BY <1>9, CallAt DEF Accept
    <2>2. CallType'
      BY <1>1, <1>9, <2>1 DEF Accept, Call
    <2>3. ServerType'
      BY <1>1, <1>9, <2>1 DEF Accept, States
    <2> QED
      BY <1>1, <1>9, <2>2, <2>3 DEF Accept
  <1>10. ASSUME NEW i \in Images, ReturnPrompt(i) \/ SubmitFails(i)
         PROVE  AllTypes'
    <2>1. call[i].worker \in Workers
      BY <1>10, CallAt DEF ReturnPrompt, SubmitFails
    <2>2. CallType' /\ IdType'
      BY <1>2, <1>3, <1>10, <2>1 DEF ReturnPrompt, SubmitFails
    <2>3. UNCHANGED <<client, server, made, poll, told, said>>
      BY <1>10 DEF ReturnPrompt, SubmitFails
    <2> QED
      BY <1>1, <2>2, <2>3
  <1>11. ASSUME NEW w \in Workers, NEW i \in Images, Starts(w, i) \/ Finishes(w, i)
         PROVE  AllTypes'
    <2>1. \E s \in States : server' = [server EXCEPT ![w][i] = s]
      BY <1>11 DEF Starts, Finishes, States
    <2>2. ServerType'
      BY <1>1, <2>1
    <2>3. UNCHANGED <<client, call, id, made, poll, told, said>>
      BY <1>11 DEF Starts, Finishes, ServerOnly
    <2> QED
      BY <1>1, <2>2, <2>3
  <1>12. ASSUME NEW w \in Workers, ServerRestarts(w)
         PROVE  AllTypes'
    BY <1>1, <1>12 DEF ServerRestarts, ServerOnly, States
  <1>13. ASSUME NEW q \in Processes, NEW i \in Images, NEW s \in Outcomes \cup {"running", "unknown"},
                Answer(q, i, s)
         PROVE  PollType'
    BY <1>13, AnswerType
  <1>14. ASSUME NEW q \in Processes, NEW i \in Images, NEW s \in Outcomes, id[i].tag = "prompt",
                Settle(q, i, s)
         PROVE  ClientType' /\ PollType'
    BY <1>14, AnswerType, SettleType DEF Settle
  <1>15. ASSUME NEW q \in Processes, NEW i \in Images, PollKnown(q, i)
         PROVE  AllTypes'
    <2>1. Outcome(q, i) \in Outcomes
      BY <1>15, OutcomeType DEF PollKnown, Known
    <2> QED
      BY <1>1, <1>13, <1>15, <2>1 DEF PollKnown
  <1>16. ASSUME NEW q \in Processes, NEW i \in Images, PollHistory(q, i)
         PROVE  AllTypes'
    <2>1. id[i].tag = "prompt"
      BY <1>16, OutcomeType DEF PollHistory
    <2>2. [pc |-> "fetching", image |-> i] \in Poll /\ [pc |-> "missed", image |-> i] \in Poll
      BY DEF Poll
    <2>3. ClientType' /\ PollType'
      <3>1. CASE Settle(q, i, "failed")
        BY <1>14, <2>1, <3>1 DEF Outcomes
      <3>2. CASE UNCHANGED <<client, told, said>> /\ \E r \in Poll : poll' = [poll EXCEPT ![q] = r]
        BY <1>1, <3>2
      <3> QED
        BY <1>16, <2>2, <3>1, <3>2 DEF PollHistory
    <2> QED
      BY <1>1, <1>16, <2>3 DEF PollHistory
  <1>17. ASSUME NEW q \in Processes, FetchOutputs(q)
         PROVE  AllTypes'
    <2>1. poll[q].image \in Images /\ id[poll[q].image].tag = "prompt"
      BY <1>17, PollAt DEF FetchOutputs, AwaitedIsOpen
    <2> QED
      BY <1>1, <1>14, <1>17, <2>1 DEF FetchOutputs, Outcomes
  <1>18. ASSUME NEW q \in Processes, ReadQueue(q)
         PROVE  AllTypes'
    <2>1. poll[q].image \in Images
      BY <1>18, PollAt DEF ReadQueue
    <2> QED
      BY <1>1, <1>13, <1>18, <2>1 DEF ReadQueue
  <1>19. ASSUME NEW q \in Processes, NEW i \in Images, PollFails(q, i)
         PROVE  AllTypes'
    BY <1>1, <1>13, <1>19 DEF PollFails
  <1>20. ASSUME NEW p \in Processes, Restart(p)
         PROVE  AllTypes'
    BY <1>1, <1>20, FreshType DEF Restart, Call, Poll, Known
  <1>21. CASE UNCHANGED vars
    BY <1>1, <1>21 DEF vars
  <1> QED
    BY <1>4, <1>6, <1>7, <1>8, <1>9, <1>10, <1>11, <1>12, <1>15, <1>16, <1>17, <1>18, <1>19,
       <1>20, <1>21, <1>22 DEF Next

LEMMA TypeInit == Init => TypeOK
  <1> SUFFICES ASSUME Init
               PROVE  TypeOK
    OBVIOUS
  <1>1. client \in [Processes -> Client]
    BY FreshType DEF Init
  <1> QED
    BY <1>1, TypeIs DEF Init, Call, NoCall, Known, States, Poll

-----------------------------------------------------------------------------
(* What a step does. *)

SameClients == \A q \in Processes : /\ client'[q].resolved = client[q].resolved
                                    /\ client'[q].cloud = client[q].cloud

(* A submit of image i goes on: only i changes. *)
OthersStay(i) ==
    /\ call[i].pc # "over"
    /\ UNCHANGED <<poll, told, said>>
    /\ SameClients
    /\ \A j \in Images \ {i} :
          /\ call'[j] = call[j] /\ id'[j] = id[j] /\ made'[j] = made[j]
          /\ \A q \in Processes : client'[q].results[j] = client[q].results[j]

(* The request goes out, or building it raised. *)
Sends(i) ==
    /\ UNCHANGED <<id, made, server>>
    /\ call'[i].pc \in {"posting", "generating", "over"}
    /\ \A q \in Processes : client'[q].results[i] = client[q].results[i]

Arrives(i) ==
    /\ UNCHANGED <<id, made, client>>
    /\ call[i].worker \in Workers
    /\ call'[i].pc = "accepted" /\ call'[i].worker = call[i].worker
    /\ server' = [server EXCEPT ![call[i].worker][i] = "pending"]

Returns(i) ==
    /\ UNCHANGED server
    /\ call'[i].pc = "over"
    /\ id'[i].tag = "prompt" => call[i].pc = "accepted" /\ id'[i].worker = call[i].worker
    /\ id'[i] # NoId
    /\ \A q \in Processes : client'[q].results[i] \in {client[q].results[i], made'[i]}

Submits(i) == OthersStay(i) /\ (Sends(i) \/ Arrives(i) \/ Returns(i))

LEMMA SubmitEffect ==
    ASSUME TypeOK, NEW i \in Images,
           \/ \E p \in Processes : \/ SubmitUnconfigured(p, i) \/ SubmitCloud(p, i)
                                   \/ SubmitPrompt(p, i) \/ SubmitRaises(p, i)
           \/ Generated(i) \/ Accept(i) \/ ReturnPrompt(i) \/ SubmitFails(i)
    PROVE  Submits(i)
  <1>1. /\ client \in [Processes -> Client] /\ call \in [Images -> Call]
        /\ id \in [Images -> Ids \cup {NoId}] /\ made \in [Images -> Known]
    BY TypeIs
  <1> USE DEF Polling
  <1>2. ASSUME NEW r \in Ids, Return(i, r)
        PROVE  /\ call'[i].pc = "over" /\ id'[i] = r /\ r # NoId
               /\ \A j \in Images \ {i} : call'[j] = call[j] /\ id'[j] = id[j]
    BY <1>1, <1>2 DEF Return, Ids, NoId
  <1>3. /\ [tag |-> "gemini"] \in Ids /\ [tag |-> "notconfigured"] \in Ids
        /\ \A w \in Workers : [tag |-> "local", worker |-> w] \in Ids /\ [tag |-> "prompt", worker |-> w] \in Ids
    BY DEF Ids
  <1>4. ASSUME NEW p \in Processes, NEW s \in Outcomes,
               client' = [client EXCEPT ![p].results[i] = s], made' = [made EXCEPT ![i] = s]
        PROVE  /\ SameClients
               /\ \A q \in Processes : client'[q].results[i] \in {client[q].results[i], made'[i]}
               /\ \A j \in Images \ {i} :
                     /\ made'[j] = made[j]
                     /\ \A q \in Processes : client'[q].results[j] = client[q].results[j]
    <2>1. made'[i] = s /\ \A j \in Images \ {i} : made'[j] = made[j]
      BY <1>1, <1>4
    <2>2. ASSUME NEW q \in Processes
          PROVE  /\ client'[q].resolved = client[q].resolved /\ client'[q].cloud = client[q].cloud
                 /\ client'[q].results[i] \in {client[q].results[i], s}
                 /\ \A j \in Images \ {i} : client'[q].results[j] = client[q].results[j]
      <3>1. client[q] \in Client
        BY <1>1
      <3> QED
        BY <1>1, <1>4, <3>1 DEF Client
    <2> QED
      BY <2>1, <2>2 DEF SameClients
  <1>5. ASSUME NEW p \in Processes, SubmitUnconfigured(p, i)
        PROVE  Submits(i)
    BY <1>2, <1>3, <1>5 DEF SubmitUnconfigured, Submits, OthersStay, SameClients, Returns, NoCall
  <1>6. ASSUME NEW p \in Processes, SubmitCloud(p, i)
        PROVE  Submits(i)
    <2>1. CASE i \in Blank
      <3>1. Return(i, [tag |-> "gemini"]) /\ call[i] = NoCall /\ UNCHANGED <<server, poll, told, said>>
            /\ client' = [client EXCEPT ![p].results[i] = "failed"] /\ made' = [made EXCEPT ![i] = "failed"]
        BY <1>6, <2>1 DEF SubmitCloud
      <3>2. /\ SameClients
            /\ \A q \in Processes : client'[q].results[i] \in {client[q].results[i], made'[i]}
            /\ \A j \in Images \ {i} :
                  /\ made'[j] = made[j]
                  /\ \A q \in Processes : client'[q].results[j] = client[q].results[j]
        BY <1>4, <3>1 DEF Outcomes
      <3>3. call'[i].pc = "over" /\ id'[i] = [tag |-> "gemini"] /\ id'[i] # NoId
            /\ \A j \in Images \ {i} : call'[j] = call[j] /\ id'[j] = id[j]
        BY <1>2, <1>3, <3>1
      <3> QED
        BY <3>1, <3>2, <3>3 DEF Submits, OthersStay, Returns, NoCall
    <2>2. CASE i \notin Blank
      BY <1>1, <1>6, <2>2 DEF SubmitCloud, Submits, OthersStay, SameClients, Sends, NoCall
    <2> QED
      BY <2>1, <2>2
  <1>7. ASSUME Generated(i)
        PROVE  Submits(i)
    <2>1. call[i].by \in Processes /\ call[i].pc # "over"
      BY <1>7, CallAt DEF Generated
    <2>2. PICK s \in Outcomes : client' = [client EXCEPT ![call[i].by].results[i] = s]
                               /\ made' = [made EXCEPT ![i] = s]
      BY <1>7 DEF Generated
    <2>3. Return(i, [tag |-> "gemini"]) /\ UNCHANGED <<server, poll, told, said>>
      BY <1>7 DEF Generated
    <2>4. /\ SameClients
          /\ \A q \in Processes : client'[q].results[i] \in {client[q].results[i], made'[i]}
          /\ \A j \in Images \ {i} :
                /\ made'[j] = made[j]
                /\ \A q \in Processes : client'[q].results[j] = client[q].results[j]
      BY <1>4, <2>1, <2>2
    <2>5. call'[i].pc = "over" /\ id'[i] = [tag |-> "gemini"] /\ id'[i] # NoId
          /\ \A j \in Images \ {i} : call'[j] = call[j] /\ id'[j] = id[j]
      BY <1>2, <1>3, <2>3
    <2> QED
      BY <2>1, <2>3, <2>4, <2>5 DEF Submits, OthersStay, Returns
  <1>8. ASSUME NEW p \in Processes, SubmitPrompt(p, i)
        PROVE  Submits(i)
    <2>1. client[p].next \in Workers
      BY <1>1 DEF Client
    <2>2. \A q \in Processes : /\ client'[q].resolved = client[q].resolved
                              /\ client'[q].cloud = client[q].cloud
                              /\ client'[q].results = client[q].results
      BY <1>1, <1>8 DEF SubmitPrompt, Client
    <2>3. call[i].pc # "over" /\ UNCHANGED <<server, made, poll, told, said>>
      BY <1>8 DEF SubmitPrompt, NoCall
    <2>4. CASE i \in Blank
      <3>1. Return(i, [tag |-> "local", worker |-> client[p].next])
        BY <1>8, <2>4 DEF SubmitPrompt
      <3>0. [tag |-> "local", worker |-> client[p].next] \in Ids
        BY <2>1 DEF Ids
      <3>2. call'[i].pc = "over" /\ id'[i] = [tag |-> "local", worker |-> client[p].next] /\ id'[i] # NoId
            /\ \A j \in Images \ {i} : call'[j] = call[j] /\ id'[j] = id[j]
        BY <1>2, <3>0, <3>1
      <3> QED
        BY <2>2, <2>3, <3>2 DEF Submits, OthersStay, SameClients, Returns
    <2>5. CASE i \notin Blank
      <3>1. call' = [call EXCEPT ![i] = [pc |-> "posting", by |-> p, worker |-> client[p].next]]
            /\ UNCHANGED id
        BY <1>8, <2>5 DEF SubmitPrompt
      <3> QED
        BY <1>1, <2>2, <2>3, <3>1 DEF Submits, OthersStay, SameClients, Sends
    <2> QED
      BY <2>4, <2>5
  <1>11. ASSUME NEW p \in Processes, SubmitRaises(p, i)
         PROVE  Submits(i)
    <2>1. \A q \in Processes : /\ client'[q].resolved = client[q].resolved
                              /\ client'[q].cloud = client[q].cloud
                              /\ client'[q].results = client[q].results
      BY <1>1, <1>11 DEF SubmitRaises, Client
    <2>2. call[i].pc # "over" /\ UNCHANGED <<id, server, made, poll, told, said>>
          /\ call' = [call EXCEPT ![i] = [pc |-> "over"]]
      BY <1>11 DEF SubmitRaises, NoCall
    <2> QED
      BY <1>1, <2>1, <2>2 DEF Submits, OthersStay, SameClients, Sends
  <1>9. ASSUME Accept(i)
        PROVE  Submits(i)
    <2>1. call[i] \in [pc : {"posting", "accepted"}, by : Processes, worker : Workers]
      BY <1>9, CallAt DEF Accept
    <2>2. call'[i].pc = "accepted" /\ call'[i].worker = call[i].worker /\ call[i].pc # "over"
          /\ \A j \in Images \ {i} : call'[j] = call[j]
      BY <1>1, <1>9, <2>1 DEF Accept
    <2> QED
      BY <1>9, <2>1, <2>2 DEF Accept, Submits, OthersStay, SameClients, Arrives
  <1>10. ASSUME ReturnPrompt(i) \/ SubmitFails(i)
         PROVE  Submits(i)
    <2>1. call[i].worker \in Workers /\ call[i].pc # "over"
      BY <1>10, CallAt DEF ReturnPrompt, SubmitFails
    <2>2. UNCHANGED <<client, server, made, poll, told, said>>
      BY <1>10 DEF ReturnPrompt, SubmitFails
    <2>3. CASE Return(i, [tag |-> "prompt", worker |-> call[i].worker]) /\ call[i].pc = "accepted"
      <3>0. [tag |-> "prompt", worker |-> call[i].worker] \in Ids
        BY <2>1 DEF Ids
      <3>1. call'[i].pc = "over" /\ id'[i] = [tag |-> "prompt", worker |-> call[i].worker] /\ id'[i] # NoId
            /\ \A j \in Images \ {i} : call'[j] = call[j] /\ id'[j] = id[j]
        BY <1>2, <3>0, <2>3
      <3> QED
        BY <2>1, <2>2, <2>3, <3>1 DEF Submits, OthersStay, SameClients, Returns
    <2>4. CASE Return(i, [tag |-> "local", worker |-> call[i].worker])
      <3>0. [tag |-> "local", worker |-> call[i].worker] \in Ids
        BY <2>1 DEF Ids
      <3>1. call'[i].pc = "over" /\ id'[i] = [tag |-> "local", worker |-> call[i].worker] /\ id'[i] # NoId
            /\ \A j \in Images \ {i} : call'[j] = call[j] /\ id'[j] = id[j]
        BY <1>2, <3>0, <2>4
      <3> QED
        BY <2>1, <2>2, <3>1 DEF Submits, OthersStay, SameClients, Returns
    <2> QED
      BY <1>10, <2>3, <2>4 DEF ReturnPrompt, SubmitFails
  <1> QED
    BY <1>5, <1>6, <1>7, <1>8, <1>9, <1>10, <1>11

(* The servers' own steps: what ended stays as it ended, or is forgotten. *)
ServerMoves ==
    /\ UNCHANGED <<client, call, id, made, poll, told, said>>
    /\ \A w \in Workers, i \in Images :
          /\ server[w][i] = "none" <=> server'[w][i] = "none"
          /\ server[w][i] \in {"done", "lost"} => server'[w][i] \in {"done", "lost"}
          /\ server[w][i] \in {"error", "blank", "lost"} => server'[w][i] \in {"error", "blank", "lost"}

LEMMA ServerEffect ==
    ASSUME TypeOK,
           \/ \E w \in Workers, i \in Images : Starts(w, i) \/ Finishes(w, i)
           \/ \E w \in Workers : ServerRestarts(w)
    PROVE  ServerMoves
  <1>1. server \in [Workers -> [Images -> States]]
    BY TypeIs
  <1>2. ASSUME NEW w \in Workers, NEW i \in Images, Starts(w, i) \/ Finishes(w, i)
        PROVE  ServerMoves
    <2>1. server[w][i] \in {"pending", "running"}
          /\ \E s \in {"running", "done", "blank", "error"} : server' = [server EXCEPT ![w][i] = s]
      BY <1>2 DEF Starts, Finishes
    <2>2. UNCHANGED <<client, call, id, made, poll, told, said>>
      BY <1>2 DEF Starts, Finishes, ServerOnly, Polling
    <2>3. \A v \in Workers, j \in Images :
             \/ server'[v][j] = server[v][j]
             \/ server[v][j] \in {"pending", "running"}
                /\ server'[v][j] \in {"running", "done", "blank", "error"}
      BY <1>1, <2>1
    <2> QED
      BY <2>2, <2>3 DEF ServerMoves
  <1>3. ASSUME NEW w \in Workers, ServerRestarts(w)
        PROVE  ServerMoves
    <2>1. UNCHANGED <<client, call, id, made, poll, told, said>>
      BY <1>3 DEF ServerRestarts, ServerOnly, Polling
    <2>2. \A v \in Workers, j \in Images :
             \/ server'[v][j] = server[v][j]
             \/ server[v][j] # "none" /\ server'[v][j] = "lost"
      BY <1>1, <1>3 DEF ServerRestarts
    <2> QED
      BY <2>1, <2>2 DEF ServerMoves
  <1> QED
    BY <1>2, <1>3

(* A get_status of process q about image i: it tells what it knows, learns an
   outcome, waits for the next answer of the server, or settles nothing. *)
Tells(q, i) ==
    /\ id[i] # NoId /\ Outcome(q, i) \in Outcomes
    /\ Answer(q, i, Outcome(q, i))
    /\ UNCHANGED client

Open(q, i) == id[i].tag = "prompt" /\ client[q].resolved[id[i].worker][i] = "none"

Learns(q, i) ==
    \E s \in Outcomes :
        /\ \/ s = "succeeded" /\ poll[q].pc = "fetching" /\ poll[q].image = i
           \/ s = "failed" /\ Entry(i) \in {"error", "blank"}
        /\ Open(q, i)
        /\ Settle(q, i, s)

Awaits(q, i) ==
    /\ Open(q, i)
    /\ \E pc \in {"fetching", "missed"} :
          /\ poll' = [poll EXCEPT ![q] = [pc |-> pc, image |-> i]]
          /\ pc = "fetching" => Entry(i) = "done"
    /\ UNCHANGED <<client, told, said>>

Hedges(q, i) ==
    \E s \in {"running", "unknown"} :
        /\ s = "unknown" => Entry(i) \notin {"pending", "running"}
        /\ Open(q, i)
        /\ Answer(q, i, s)
        /\ UNCHANGED client

Polls(q, i) ==
    /\ UNCHANGED <<call, id, server, made>>
    /\ Tells(q, i) \/ Learns(q, i) \/ Awaits(q, i) \/ Hedges(q, i)

LEMMA PollEffect ==
    ASSUME TypeOK, AwaitedIsOpen, NEW q \in Processes,
           \/ FetchOutputs(q) \/ ReadQueue(q)
           \/ \E i \in Images : PollKnown(q, i) \/ PollHistory(q, i) \/ PollFails(q, i)
    PROVE  \E i \in Images : Polls(q, i)
  <1>1. poll[q].pc \in {"fetching", "missed"} => poll[q].image \in Images /\ Open(q, poll[q].image)
    BY PollAt DEF AwaitedIsOpen, Open
  <1>2. ASSUME NEW i \in Images, id[i] # NoId, Outcome(q, i) = "none"
        PROVE  Open(q, i)
    BY <1>2, OutcomeType DEF Open
  <1>3. ASSUME NEW i \in Images, PollKnown(q, i)
        PROVE  Polls(q, i)
    <2>1. Outcome(q, i) \in Outcomes
      BY <1>3, OutcomeType DEF PollKnown, Known
    <2> QED
      BY <1>3, <2>1 DEF PollKnown, Polls, Tells
  <1>4. ASSUME NEW i \in Images, PollHistory(q, i)
        PROVE  Polls(q, i)
    <2>1. Open(q, i) /\ UNCHANGED <<call, id, server, made>>
      BY <1>2, <1>4 DEF PollHistory
    <2>2. CASE Entry(i) \in {"error", "blank"}
      BY <1>4, <2>1, <2>2 DEF PollHistory, Polls, Learns, Outcomes
    <2>3. CASE Entry(i) \notin {"error", "blank"}
      <3>1. \E pc \in {"fetching", "missed"} :
               /\ poll' = [poll EXCEPT ![q] = [pc |-> pc, image |-> i]]
               /\ pc = "fetching" => Entry(i) = "done"
        BY <1>4, <2>3 DEF PollHistory
      <3>2. UNCHANGED <<client, told, said>>
        BY <1>4, <2>3 DEF PollHistory
      <3> QED
        BY <2>1, <3>1, <3>2 DEF Polls, Awaits
    <2> QED
      BY <2>2, <2>3
  <1>5. ASSUME FetchOutputs(q)
        PROVE  \E i \in Images : Polls(q, i)
    BY <1>1, <1>5 DEF FetchOutputs, Polls, Learns, Outcomes
  <1>6. ASSUME ReadQueue(q)
        PROVE  \E i \in Images : Polls(q, i)
    BY <1>1, <1>6 DEF ReadQueue, Polls, Hedges
  <1>7. ASSUME NEW i \in Images, PollFails(q, i)
        PROVE  Polls(q, i)
    BY <1>1, <1>2, <1>7 DEF PollFails, Polls, Hedges
  <1> QED
    BY <1>3, <1>4, <1>5, <1>6, <1>7

LEMMA StepKind ==
    ASSUME TypeOK, AwaitedIsOpen, [Next]_vars
    PROVE  \/ \E i \in Images : Submits(i)
           \/ ServerMoves
           \/ \E q \in Processes, i \in Images : Polls(q, i)
           \/ \E p \in Processes : Restart(p)
           \/ UNCHANGED vars
  BY SubmitEffect, ServerEffect, PollEffect DEF Next

-----------------------------------------------------------------------------
(* One image. *)

(* An id is given once, at the end of the call, to a prompt its server has
   heard of; nothing is said of an image without one. *)
ImageInv(i) ==
    /\ id[i] # NoId => call[i].pc = "over"
    /\ call[i].pc = "accepted" => server[call[i].worker][i] # "none"
    /\ id[i].tag = "prompt" => Entry(i) # "none"
    /\ id[i] = NoId => /\ said[i] = {}
                       /\ \A q \in Processes : told[q][i] = "none"
                       /\ \A q \in Processes, w \in Workers : client[q].resolved[w][i] = "none"
    /\ \A q \in Processes : client[q].results[i] # "none" =>
          call[i].pc = "over" /\ made[i] = client[q].results[i]

(* What an image has, it keeps. *)
LEMMA IdStays ==
    ASSUME TypeOK, AwaitedIsOpen, [Next]_vars, NEW i \in Images, ImageInv(i), id[i] # NoId
    PROVE  id'[i] = id[i] /\ made'[i] = made[i] /\ call'[i] = call[i]
  <1>1. call[i].pc = "over"
    BY DEF ImageInv
  <1>2. ASSUME NEW j \in Images, Submits(j)
        PROVE  id'[i] = id[i] /\ made'[i] = made[i] /\ call'[i] = call[i]
    BY <1>1, <1>2 DEF Submits, OthersStay
  <1>3. ASSUME NEW p \in Processes, Restart(p)
        PROVE  id'[i] = id[i] /\ made'[i] = made[i] /\ call'[i] = call[i]
    BY <1>1, <1>3 DEF Restart
  <1> QED
    BY <1>2, <1>3, StepKind DEF ServerMoves, Polls, vars

LEMMA RestartEffect ==
    ASSUME TypeOK, NEW p \in Processes, Restart(p)
    PROVE  /\ UNCHANGED <<id, server, made, said>>
           /\ \A q \in Processes \ {p} : client'[q] = client[q] /\ told'[q] = told[q] /\ poll'[q] = poll[q]
           /\ \E cloud \in BOOLEAN : client'[p] = Fresh(cloud)
           /\ told'[p] = [i \in Images |-> "none"]
           /\ poll'[p] = NoCall
           /\ \A i \in Images : call'[i] \in {call[i], [pc |-> "over"]}
  <1>1. client \in [Processes -> Client] /\ told \in [Processes -> [Images -> Known]]
        /\ poll \in [Processes -> Poll]
    BY TypeIs
  <1> QED
    BY <1>1 DEF Restart

(* Answering changes what is said of one image and told by one process. *)
LEMMA AnswerEffect ==
    ASSUME TypeOK, NEW q \in Processes, NEW i \in Images, NEW s, Answer(q, i, s)
    PROVE  /\ poll'[q] = [pc |-> "answered", image |-> i, state |-> s]
           /\ \A r \in Processes \ {q} : poll'[r] = poll[r] /\ told'[r] = told[r]
           /\ \A j \in Images \ {i} : said'[j] = said[j] /\ told'[q][j] = told[q][j]
           /\ s \in Outcomes => told'[q][i] = s /\ said'[i] = said[i] \cup {s}
           /\ s \notin Outcomes => told'[q][i] = told[q][i] /\ said'[i] = said[i]
  <1>1. told \in [Processes -> [Images -> Known]] /\ poll \in [Processes -> Poll]
        /\ said \in [Images -> SUBSET Outcomes]
    BY TypeIs
  <1> QED
    BY <1>1 DEF Answer

LEMMA SettleEffect ==
    ASSUME TypeOK, NEW q \in Processes, NEW i \in Images, NEW s \in Outcomes, Open(q, i), Settle(q, i, s)
    PROVE  /\ Answer(q, i, s)
           /\ id[i].worker \in Workers
           /\ \A r \in Processes \ {q} : client'[r] = client[r]
           /\ client'[q].cloud = client[q].cloud /\ client'[q].results = client[q].results
           /\ client'[q].resolved[id[i].worker][i] = s
           /\ \A w \in Workers, j \in Images :
                 j # i => client'[q].resolved[w][j] = client[q].resolved[w][j]
  <1>1. client \in [Processes -> Client] /\ client[q] \in Client /\ id[i].worker \in Workers
    BY TypeIs, IdAt DEF Open
  <1>2. client' = [client EXCEPT ![q] = [client[q] EXCEPT !.resolved =
                     [client[q].resolved EXCEPT ![id[i].worker] =
                        [client[q].resolved[id[i].worker] EXCEPT ![i] = s]]]]
    BY <1>1 DEF Settle, Client
  <1>3. client'[q] = [client[q] EXCEPT !.resolved =
                     [client[q].resolved EXCEPT ![id[i].worker] =
                        [client[q].resolved[id[i].worker] EXCEPT ![i] = s]]]
    BY <1>1, <1>2
  <1> QED
    BY <1>1, <1>2, <1>3 DEF Settle, Client

(* It moves the poll of its own process only. *)
LEMMA PollsOf ==
    ASSUME TypeOK, NEW q \in Processes, NEW j \in Images, Polls(q, j)
    PROVE  /\ \A r \in Processes \ {q} : poll'[r] = poll[r]
           /\ poll'[q].pc \in {"fetching", "missed", "answered"}
           /\ poll'[q].image = j
           /\ poll'[q].pc = "answered" \/ Awaits(q, j)
  <1>1. poll \in [Processes -> Poll]
    BY TypeIs
  <1>2. ASSUME NEW s, Answer(q, j, s)
        PROVE  /\ \A r \in Processes \ {q} : poll'[r] = poll[r]
               /\ poll'[q].pc = "answered" /\ poll'[q].image = j
    <2>1. poll' = [poll EXCEPT ![q] = [pc |-> "answered", image |-> j, state |-> s]]
      BY <1>2 DEF Answer
    <2> QED
      BY <1>1, <2>1
  <1>3. CASE Awaits(q, j)
    <2>1. PICK pc \in {"fetching", "missed"} :
             poll' = [poll EXCEPT ![q] = [pc |-> pc, image |-> j]]
      BY <1>3 DEF Awaits
    <2> QED
      BY <1>1, <1>3, <2>1
  <1>4. CASE Learns(q, j)
    <2>1. PICK s \in Outcomes : Settle(q, j, s)
      BY <1>4 DEF Learns
    <2> QED
      BY <1>2, <2>1 DEF Settle
  <1>5. CASE Tells(q, j)
    BY <1>2, <1>5 DEF Tells
  <1>6. CASE Hedges(q, j)
    <2>1. PICK s \in {"running", "unknown"} : Answer(q, j, s)
      BY <1>6 DEF Hedges
    <2> QED
      BY <1>2, <2>1
  <1> QED
    BY <1>3, <1>4, <1>5, <1>6 DEF Polls

(* A get_status of image j is of no consequence to image i. *)
LEMMA OtherImages ==
    ASSUME TypeOK, NEW q \in Processes, NEW j \in Images, Polls(q, j),
           NEW i \in Images, i # j
    PROVE  /\ said'[i] = said[i] /\ \A r \in Processes : told'[r][i] = told[r][i]
           /\ \A r \in Processes, w \in Workers : client'[r].resolved[w][i] = client[r].resolved[w][i]
  <1>1. ASSUME NEW s, Answer(q, j, s)
        PROVE  said'[i] = said[i] /\ \A r \in Processes : told'[r][i] = told[r][i]
    <2>1. /\ \A r \in Processes \ {q} : told'[r] = told[r]
          /\ \A k \in Images \ {j} : said'[k] = said[k] /\ told'[q][k] = told[q][k]
      BY <1>1, AnswerEffect
    <2> QED
      BY <2>1
  <1>2. ASSUME NEW s \in Outcomes, Open(q, j), Settle(q, j, s)
        PROVE  /\ said'[i] = said[i] /\ \A r \in Processes : told'[r][i] = told[r][i]
               /\ \A r \in Processes, w \in Workers :
                     client'[r].resolved[w][i] = client[r].resolved[w][i]
    <2>1. /\ Answer(q, j, s)
          /\ \A r \in Processes \ {q} : client'[r] = client[r]
          /\ \A w \in Workers, k \in Images :
                 k # j => client'[q].resolved[w][k] = client[q].resolved[w][k]
      BY <1>2, SettleEffect
    <2> QED
      BY <1>1, <2>1
  <1>3. CASE Tells(q, j)
    BY <1>1, <1>3 DEF Tells
  <1>4. CASE Learns(q, j)
    <2>1. PICK s \in Outcomes : Open(q, j) /\ Settle(q, j, s)
      BY <1>4 DEF Learns
    <2> QED
      BY <1>2, <2>1
  <1>5. CASE Awaits(q, j)
    BY <1>5 DEF Awaits
  <1>6. CASE Hedges(q, j)
    BY <1>1, <1>6 DEF Hedges
  <1> QED
    BY <1>3, <1>4, <1>5, <1>6 DEF Polls

LEMMA ImageStep ==
    ASSUME TypeOK, AwaitedIsOpen, [Next]_vars, NEW i \in Images, ImageInv(i)
    PROVE  ImageInv(i)'
  <1>1. ASSUME NEW j \in Images, Submits(j)
        PROVE  ImageInv(i)'
    <2>1. CASE i # j
      <3>1. call'[i] = call[i] /\ id'[i] = id[i] /\ made'[i] = made[i] /\ UNCHANGED <<told, said>>
            /\ \A q \in Processes : /\ client'[q].results[i] = client[q].results[i]
                                    /\ client'[q].resolved = client[q].resolved
        BY <1>1, <2>1 DEF Submits, OthersStay, SameClients
      <3>2. \A w \in Workers : server'[w][i] = server[w][i]
        <4>1. server \in [Workers -> [Images -> States]]
          BY TypeIs
        <4> QED
          BY <1>1, <2>1, <4>1 DEF Submits, Sends, Arrives, Returns
      <3>3. (id[i].tag = "prompt" => id[i].worker \in Workers)
            /\ (call[i].pc = "accepted" => call[i].worker \in Workers)
        BY IdAt, CallAt
      <3> QED
        BY <3>1, <3>2, <3>3 DEF ImageInv, Entry
    <2>2. CASE i = j
      <3>1. call[i].pc # "over" /\ id[i] = NoId /\ UNCHANGED <<told, said>> /\ SameClients
            /\ \A q \in Processes : client[q].results[i] = "none"
        BY <1>1, <2>2 DEF Submits, OthersStay, ImageInv
      <3>2. CASE Sends(i)
        BY <3>1, <3>2, IdAt DEF Sends, SameClients, ImageInv
      <3>3. CASE Arrives(i)
        <4>1. server'[call[i].worker][i] = "pending"
          <5>1. server \in [Workers -> [Images -> States]]
            BY TypeIs
          <5> QED
            BY <3>3, <5>1 DEF Arrives
        <4> QED
          BY <3>1, <3>3, <4>1, IdAt DEF Arrives, SameClients, ImageInv
      <3>4. CASE Returns(i)
        BY <3>1, <3>4 DEF Returns, SameClients, ImageInv, Entry
      <3> QED
        BY <1>1, <2>2, <3>2, <3>3, <3>4 DEF Submits
    <2> QED
      BY <2>1, <2>2
  <1>2. CASE ServerMoves
    <2>1. (id[i].tag = "prompt" => id[i].worker \in Workers)
          /\ (call[i].pc = "accepted" => call[i].worker \in Workers)
      BY IdAt, CallAt
    <2> QED
      BY <1>2, <2>1 DEF ServerMoves, ImageInv, Entry
  <1>3. ASSUME NEW q \in Processes, NEW j \in Images, Polls(q, j)
        PROVE  ImageInv(i)'
    <2>1. UNCHANGED <<call, id, server, made>> /\ (Tells(q, j) \/ Learns(q, j) \/ Awaits(q, j) \/ Hedges(q, j))
      BY <1>3 DEF Polls
    <2>2. id[j] # NoId
      BY <2>1, IdAt DEF Tells, Learns, Awaits, Hedges, Open
    <2>3. \A r \in Processes : client'[r].results = client[r].results
      BY <2>1, SettleEffect DEF Tells, Learns, Awaits, Hedges
    <2>4. ASSUME i # j
          PROVE  /\ said'[i] = said[i] /\ \A r \in Processes : told'[r][i] = told[r][i]
                 /\ \A r \in Processes, w \in Workers : client'[r].resolved[w][i] = client[r].resolved[w][i]
      BY <1>3, <2>4, OtherImages
    <2> QED
      BY <2>1, <2>2, <2>3, <2>4 DEF ImageInv, Entry
  <1>4. ASSUME NEW p \in Processes, Restart(p)
        PROVE  ImageInv(i)'
    <2>1. call'[i].pc = "over" \/ call'[i] = call[i]
      BY <1>4, RestartEffect
    <2>2. \A cloud \in BOOLEAN : /\ Fresh(cloud).results[i] = "none"
                                 /\ \A w \in Workers : Fresh(cloud).resolved[w][i] = "none"
      BY DEF Fresh
    <2>3. \A q \in Processes :
             \/ client'[q] = client[q] /\ told'[q] = told[q]
             \/ /\ told'[q][i] = "none" /\ client'[q].results[i] = "none"
                /\ \A w \in Workers : client'[q].resolved[w][i] = "none"
      BY <1>4, <2>2, RestartEffect
    <2> QED
      BY <1>4, <2>1, <2>3, RestartEffect DEF ImageInv, Entry
  <1>5. CASE UNCHANGED vars
    BY <1>5 DEF vars, ImageInv, Entry
  <1> QED
    BY <1>1, <1>2, <1>3, <1>4, <1>5, StepKind

-----------------------------------------------------------------------------
(* What a step means to an image that has its id. *)

(* Process q's knowledge of image i stays, or is lost when q restarts. *)
Same(q, i) ==
    /\ told'[q][i] = told[q][i]
    /\ client'[q].cloud = client[q].cloud
    /\ client'[q].results[i] = client[q].results[i]
    /\ \A w \in Workers : client'[q].resolved[w][i] = client[q].resolved[w][i]
    /\ poll'[q] = poll[q] \/ (poll'[q].pc \in {"fetching", "missed", "answered"} /\ poll'[q].image # i)

Forgot(q, i) ==
    /\ told'[q][i] = "none"
    /\ \A w \in Workers : client'[q].resolved[w][i] = "none"
    /\ poll'[q].pc = "none"

(* What ended at the server stays as it ended, or is forgotten. *)
EndedStays(i) ==
    \A w \in Workers :
        /\ server[w][i] \in {"done", "lost"} => server'[w][i] \in {"done", "lost"}
        /\ server[w][i] \in {"error", "blank", "lost"} => server'[w][i] \in {"error", "blank", "lost"}

Quiet(i) ==
    /\ said'[i] = said[i]
    /\ EndedStays(i)
    /\ \A q \in Processes : Same(q, i) \/ Forgot(q, i)

LEMMA ImageEffect ==
    ASSUME TypeOK, AwaitedIsOpen, [Next]_vars, NEW i \in Images, ImageInv(i), id[i] # NoId
    PROVE  Quiet(i) \/ \E q \in Processes : Polls(q, i)
  <1>0. call[i].pc = "over"
    BY DEF ImageInv
  <1>1. ASSUME NEW j \in Images, Submits(j)
        PROVE  Quiet(i)
    <2>1. j # i
      BY <1>0, <1>1 DEF Submits, OthersStay
    <2>2. \A q \in Processes : Same(q, i)
      BY <1>1, <2>1 DEF Submits, OthersStay, SameClients, Same
    <2>3. server \in [Workers -> [Images -> States]]
      BY TypeIs
    <2>4. \A w \in Workers : server'[w][i] = server[w][i]
      BY <1>1, <2>1, <2>3 DEF Submits, Sends, Arrives, Returns
    <2> QED
      BY <1>1, <2>2, <2>4 DEF Quiet, EndedStays, Submits, OthersStay
  <1>2. CASE ServerMoves
    BY <1>2 DEF ServerMoves, Quiet, Same, EndedStays
  <1>3. ASSUME NEW q \in Processes, NEW j \in Images, Polls(q, j), j # i
        PROVE  Quiet(i)
    <2>1. /\ said'[i] = said[i] /\ \A r \in Processes : told'[r][i] = told[r][i]
          /\ \A r \in Processes, w \in Workers : client'[r].resolved[w][i] = client[r].resolved[w][i]
      BY <1>3, OtherImages
    <2>2. \A r \in Processes : client'[r].cloud = client[r].cloud /\ client'[r].results = client[r].results
      BY <1>3, SettleEffect DEF Polls, Tells, Learns, Awaits, Hedges
    <2>3. (\A r \in Processes \ {q} : poll'[r] = poll[r])
          /\ poll'[q].pc \in {"fetching", "missed", "answered"} /\ poll'[q].image = j
      BY <1>3, PollsOf
    <2>4. UNCHANGED server
      BY <1>3 DEF Polls
    <2> QED
      BY <1>3, <2>1, <2>2, <2>3, <2>4 DEF Quiet, Same, EndedStays
  <1>4. ASSUME NEW p \in Processes, Restart(p)
        PROVE  Quiet(i)
    <2>1. \A cloud \in BOOLEAN, w \in Workers : Fresh(cloud).resolved[w][i] = "none"
      BY DEF Fresh
    <2>2. Forgot(p, i)
      BY <1>4, <2>1, RestartEffect DEF Forgot, NoCall
    <2>3. \A q \in Processes \ {p} : Same(q, i)
      BY <1>4, RestartEffect DEF Same
    <2> QED
      BY <1>4, <2>2, <2>3, RestartEffect DEF Quiet, EndedStays
  <1>5. CASE UNCHANGED vars
    BY <1>5 DEF vars, Quiet, Same, EndedStays
  <1> QED
    BY <1>1, <1>2, <1>3, <1>4, <1>5, StepKind

(* A get_status that awaits an answer keeps awaiting it of the same prompt. *)
LEMMA AwaitStep ==
    ASSUME TypeOK, AwaitedIsOpen, [Next]_vars, \A i \in Images : ImageInv(i)
    PROVE  AwaitedIsOpen'
  <1> SUFFICES ASSUME NEW q \in Processes, poll'[q].pc \in {"fetching", "missed"}
               PROVE  /\ id'[poll'[q].image].tag = "prompt"
                      /\ client'[q].resolved[id'[poll'[q].image].worker][poll'[q].image] = "none"
    BY DEF AwaitedIsOpen
  <1>1. CASE poll'[q] = poll[q]
    <2> DEFINE i == poll[q].image
    <2>1. i \in Images /\ id[i].tag = "prompt" /\ client[q].resolved[id[i].worker][i] = "none"
          /\ id[i].worker \in Workers /\ id[i] # NoId
      BY <1>1, PollAt, IdAt DEF AwaitedIsOpen
    <2>2. id'[i] = id[i]
      BY <2>1, IdStays
    <2>3. client'[q].resolved[id[i].worker][i] = "none"
      <3>1. CASE Quiet(i)
        BY <2>1, <3>1 DEF Quiet, Same, Forgot
      <3>2. ASSUME NEW r \in Processes, Polls(r, i)
            PROVE  client'[q].resolved[id[i].worker][i] = "none"
        <4>1. CASE r = q
          BY <1>1, <2>1, <3>2, <4>1, PollsOf DEF Awaits
        <4>2. CASE r # q
          BY <2>1, <3>2, <4>2, SettleEffect DEF Polls, Tells, Learns, Awaits, Hedges
        <4> QED
          BY <4>1, <4>2
      <3> QED
        BY <2>1, <3>1, <3>2, ImageEffect
    <2> QED
      BY <1>1, <2>1, <2>2, <2>3
  <1>2. CASE poll'[q] # poll[q]
    <2>1. PICK j \in Images : Polls(q, j)
      <3>1. ASSUME NEW r \in Processes, NEW j \in Images, Polls(r, j)
            PROVE  r = q
        BY <1>2, <3>1, PollsOf
      <3>2. ASSUME NEW p \in Processes, Restart(p)
            PROVE  FALSE
        BY <1>2, <3>2, RestartEffect DEF NoCall
      <3>3. ASSUME \/ \E j \in Images : Submits(j)
                   \/ ServerMoves
                   \/ UNCHANGED vars
            PROVE  FALSE
        BY <1>2, <3>3 DEF Submits, OthersStay, ServerMoves, vars
      <3> QED
        BY <3>1, <3>2, <3>3, StepKind
    <2>2. Awaits(q, j) /\ poll'[q].image = j
      BY <2>1, PollsOf
    <2> QED
      BY <2>1, <2>2 DEF Awaits, Open, Polls
  <1> QED
    BY <1>1, <1>2

-----------------------------------------------------------------------------
(* What is said of an image. *)

(* Process q has, or is about to have, an outcome of prompt i to announce. *)
SuccessAt(q, i) ==
    \/ client[q].resolved[id[i].worker][i] = "succeeded"
    \/ poll[q].pc = "fetching" /\ poll[q].image = i
FailureAt(q, i) == client[q].resolved[id[i].worker][i] = "failed"

SuccessSeen(i) == "succeeded" \in said[i] \/ \E q \in Processes : SuccessAt(q, i)
FailureSeen(i) == "failed" \in said[i] \/ \E q \in Processes : FailureAt(q, i)

(* Of a prompt, every outcome seen anywhere is the one its server had; a
   submit that failed, or a generation, has its outcome elsewhere. *)
SeenInv(i) ==
    /\ id[i].tag = "prompt" => /\ SuccessSeen(i) => Entry(i) \in {"done", "lost"}
                               /\ FailureSeen(i) => Entry(i) \in {"error", "blank", "lost"}
                               /\ ~(SuccessSeen(i) /\ FailureSeen(i))
    /\ id[i].tag \in {"local", "notconfigured"} => "succeeded" \notin said[i]
    /\ id[i].tag = "gemini" => ("succeeded" \in said[i] => made[i] = "succeeded")

(* What a process announced is still what it would answer. *)
Kept(q, i) == told[q][i] # "none" => id[i] # NoId /\ Outcome(q, i) = told[q][i]

LEMMA AnswerSays ==
    ASSUME TypeOK, NEW q \in Processes, NEW i \in Images,
           NEW s \in Outcomes \cup {"running", "unknown"}, Answer(q, i, s)
    PROVE  /\ poll'[q].pc = "answered" /\ poll'[q].state = s
           /\ s \in Outcomes => told'[q][i] = s /\ said'[i] = said[i] \cup {s}
           /\ s \notin Outcomes => told'[q][i] = told[q][i] /\ said'[i] = said[i]
           /\ s \in {"running", "unknown"} => s \notin Outcomes
  <1>1. poll'[q] = [pc |-> "answered", image |-> i, state |-> s]
    BY TypeIs DEF Answer
  <1>2. /\ s \in Outcomes => told'[q][i] = s /\ said'[i] = said[i] \cup {s}
        /\ s \notin Outcomes => told'[q][i] = told[q][i] /\ said'[i] = said[i]
    <2>1. told[q] \in [Images -> Known] /\ said[i] \in SUBSET Outcomes
      BY TypeIs
    <2>2. told'[q] = [told[q] EXCEPT ![i] = IF s \in Outcomes THEN s ELSE @]
      BY TypeIs DEF Answer
    <2>3. said'[i] = said[i] \cup ({s} \cap Outcomes)
      BY TypeIs DEF Answer
    <2> QED
      BY <2>1, <2>2, <2>3
  <1> QED
    BY <1>1, <1>2 DEF Outcomes

LEMMA SeenStep ==
    ASSUME TypeOK, AwaitedIsOpen, [Next]_vars, NEW i \in Images, ImageInv(i), ImageInv(i)', SeenInv(i)
    PROVE  SeenInv(i)'
  <1>1. CASE id[i] = NoId
    <2>1. said'[i] = {} 
      <3>1. ASSUME NEW j \in Images, Submits(j)
            PROVE  said'[i] = {}
        BY <1>1, <3>1 DEF Submits, OthersStay, ImageInv
      <3>2. ASSUME NEW q \in Processes, NEW j \in Images, Polls(q, j)
            PROVE  said'[i] = {}
        <4>1. j # i
          BY <1>1, <3>2, IdAt DEF Polls, Tells, Learns, Awaits, Hedges, Open
        <4> QED
          BY <1>1, <3>2, <4>1, OtherImages DEF ImageInv
      <3> QED
        BY <1>1, <3>1, <3>2, StepKind DEF ImageInv, ServerMoves, Restart, vars
    <2>2. CASE id'[i] = NoId
      BY <2>1, <2>2 DEF SeenInv, NoId
    <2>3. CASE id'[i] # NoId
      <3>1. PICK j \in Images : Submits(j)
        BY <1>1, <2>3, StepKind DEF ServerMoves, Polls, Restart, vars
      <3>2. \A q \in Processes, w \in Workers : client'[q].resolved[w][i] = "none"
        BY <1>1, <3>1 DEF Submits, OthersStay, SameClients, ImageInv
      <3>3. \A q \in Processes : ~(poll'[q].pc = "fetching" /\ poll'[q].image = i)
        BY <1>1, <3>1, IdAt DEF Submits, OthersStay, AwaitedIsOpen
      <3>4. TypeOK' /\ (id'[i].tag = "prompt" => id'[i].worker \in Workers)
        <4>1. id' \in [Images -> Ids \cup {NoId}]
          BY TypeStep, TypeIs DEF TypeOK
        <4>2. id'[i] \in Ids \cup {NoId}
          BY <4>1
        <4> QED
          BY <4>2, TypeStep DEF Ids, NoId
      <3> QED
        BY <2>1, <3>2, <3>3, <3>4 DEF SeenInv, SuccessSeen, FailureSeen, SuccessAt, FailureAt
    <2> QED
      BY <2>2, <2>3
  <1>2. CASE id[i] # NoId
    <2>1. id'[i] = id[i] /\ made'[i] = made[i]
      BY <1>2, IdStays
    <2>2. id[i].tag = "prompt" => id[i].worker \in Workers
      BY IdAt
    <2>3. CASE Quiet(i)
      <3>1. said'[i] = said[i]
        BY <2>3 DEF Quiet
      <3>2. ASSUME id[i].tag = "prompt"
            PROVE  /\ Entry(i) \in {"done", "lost"} => Entry(i)' \in {"done", "lost"}
                   /\ Entry(i) \in {"error", "blank", "lost"} => Entry(i)' \in {"error", "blank", "lost"}
                   /\ \A q \in Processes : (SuccessAt(q, i)' => SuccessAt(q, i))
                                           /\ (FailureAt(q, i)' => FailureAt(q, i))
        BY <2>1, <2>2, <2>3, <3>2 DEF Quiet, EndedStays, Same, Forgot, Entry, SuccessAt, FailureAt
      <3> QED
        BY <2>1, <3>1, <3>2 DEF SeenInv, SuccessSeen, FailureSeen
    <2>4. ASSUME NEW q \in Processes, Polls(q, i)
          PROVE  SeenInv(i)'
      <3>1. UNCHANGED <<id, server, made>>
        BY <2>4 DEF Polls
      <3>2. \A r \in Processes \ {q} : poll'[r] = poll[r]
        BY <2>4, PollsOf
      <3>3. CASE Tells(q, i)
        <4>1. /\ said'[i] = said[i] \cup {Outcome(q, i)} /\ UNCHANGED client
              /\ poll'[q].pc = "answered" /\ Outcome(q, i) \in Outcomes
          <5>1. Outcome(q, i) \in Outcomes /\ Answer(q, i, Outcome(q, i)) /\ UNCHANGED client
            BY <3>3 DEF Tells
          <5> QED
            BY <5>1, AnswerSays
        <4>2. CASE id[i].tag = "prompt"
          <5>1. Outcome(q, i) = client[q].resolved[id[i].worker][i]
            BY <4>2 DEF Outcome
          <5> QED
            BY <3>1, <3>2, <4>1, <4>2, <5>1
               DEF SeenInv, SuccessSeen, FailureSeen, SuccessAt, FailureAt, Entry, Outcomes
        <4>3. CASE id[i].tag \in {"local", "notconfigured"}
          BY <3>1, <4>1, <4>3 DEF SeenInv, Outcome
        <4>4. CASE id[i].tag = "gemini"
          BY <3>1, <4>1, <4>4 DEF SeenInv, Outcome, ImageInv
        <4> QED
          BY <1>2, <4>2, <4>3, <4>4, IdAt
      <3>4. CASE Learns(q, i)
        <4>1. PICK s \in Outcomes :
                 /\ \/ s = "succeeded" /\ poll[q].pc = "fetching" /\ poll[q].image = i
                    \/ s = "failed" /\ Entry(i) \in {"error", "blank"}
                 /\ Open(q, i) /\ Settle(q, i, s)
          BY <3>4 DEF Learns
        <4>2. /\ said'[i] = said[i] \cup {s} /\ poll'[q].pc = "answered"
              /\ \A r \in Processes \ {q} : client'[r] = client[r]
              /\ client'[q].resolved[id[i].worker][i] = s
          BY <4>1, AnswerSays, SettleEffect
        <4>3. id[i].tag = "prompt"
          BY <4>1 DEF Open
        <4>4. CASE s = "succeeded"
          <5>1. SuccessSeen(i)
            BY <4>1, <4>4 DEF SuccessSeen, SuccessAt
          <5> QED
            BY <3>1, <3>2, <4>2, <4>3, <4>4, <5>1
               DEF SeenInv, SuccessSeen, FailureSeen, SuccessAt, FailureAt, Entry
        <4>5. CASE s = "failed"
          <5>1. Entry(i) \in {"error", "blank"} /\ ~SuccessSeen(i)
            BY <4>1, <4>3, <4>5 DEF SeenInv
          <5> QED
            BY <3>1, <3>2, <4>2, <4>3, <4>5, <5>1
               DEF SeenInv, SuccessSeen, FailureSeen, SuccessAt, FailureAt, Entry
        <4> QED
          BY <4>4, <4>5 DEF Outcomes
      <3>5. CASE Awaits(q, i)
        <4>1. /\ id[i].tag = "prompt" /\ UNCHANGED <<client, said>>
              /\ poll'[q].pc = "fetching" => Entry(i) = "done"
          <5>1. PICK pc \in {"fetching", "missed"} :
                   /\ poll' = [poll EXCEPT ![q] = [pc |-> pc, image |-> i]]
                   /\ pc = "fetching" => Entry(i) = "done"
            BY <3>5 DEF Awaits
          <5>2. poll'[q].pc = pc
            BY <5>1, TypeIs
          <5> QED
            BY <3>5, <5>1, <5>2 DEF Awaits, Open
        <4>2. Entry(i) = "done" => ~FailureSeen(i)
          BY <4>1 DEF SeenInv
        <4> QED
          BY <3>1, <3>2, <4>1, <4>2 DEF SeenInv, SuccessSeen, FailureSeen, SuccessAt, FailureAt, Entry
      <3>6. CASE Hedges(q, i)
        <4>1. id[i].tag = "prompt" /\ UNCHANGED client /\ said'[i] = said[i] /\ poll'[q].pc = "answered"
          <5>1. PICK s \in {"running", "unknown"} : Answer(q, i, s)
            BY <3>6 DEF Hedges
          <5> QED
            BY <3>6, <5>1, AnswerSays DEF Hedges, Open
        <4> QED
          BY <3>1, <3>2, <4>1 DEF SeenInv, SuccessSeen, FailureSeen, SuccessAt, FailureAt, Entry
      <3> QED
        BY <2>4, <3>3, <3>4, <3>5, <3>6 DEF Polls
    <2> QED
      BY <1>2, <2>3, <2>4, ImageEffect
  <1> QED
    BY <1>1, <1>2

LEMMA KeptStep ==
    ASSUME TypeOK, AwaitedIsOpen, [Next]_vars, NEW i \in Images, ImageInv(i),
           NEW q \in Processes, Kept(q, i)
    PROVE  Kept(q, i)'
  <1>1. CASE id[i] = NoId
    <2>1. told[q][i] = "none"
      BY <1>1 DEF ImageInv
    <2>2. told'[q][i] = "none"
      <3>1. ASSUME NEW r \in Processes, NEW j \in Images, Polls(r, j)
            PROVE  told'[q][i] = "none"
        <4>1. j # i
          BY <1>1, <3>1, IdAt DEF Polls, Tells, Learns, Awaits, Hedges, Open
        <4> QED
          BY <2>1, <3>1, <4>1, OtherImages
      <3>2. ASSUME NEW p \in Processes, Restart(p)
            PROVE  told'[q][i] = "none"
        BY <2>1, <3>2, RestartEffect
      <3> QED
        BY <2>1, <3>1, <3>2, StepKind DEF Submits, OthersStay, ServerMoves, vars
    <2> QED
      BY <2>2 DEF Kept
  <1>2. CASE id[i] # NoId
    <2>1. id'[i] = id[i] /\ (id[i].tag = "prompt" => id[i].worker \in Workers)
      BY <1>2, IdStays, IdAt
    <2>2. CASE Quiet(i)
      <3>1. CASE Same(q, i)
        BY <2>1, <3>1, IdAt, <1>2 DEF Same, Kept, Outcome
      <3>2. CASE Forgot(q, i)
        BY <3>2 DEF Forgot, Kept
      <3> QED
        BY <2>2, <3>1, <3>2 DEF Quiet
    <2>3. ASSUME NEW r \in Processes, Polls(r, i)
          PROVE  Kept(q, i)'
      <3>1. CASE r = q /\ Learns(q, i)
        <4>1. PICK s \in Outcomes : Open(q, i) /\ Settle(q, i, s)
          BY <3>1 DEF Learns
        <4>2. told'[q][i] = s /\ client'[q].resolved[id[i].worker][i] = s /\ id[i].tag = "prompt"
          BY <4>1, AnswerSays, SettleEffect DEF Open
        <4> QED
          BY <1>2, <2>1, <4>2 DEF Kept, Outcome
      <3>2. CASE r # q
        <4>1. client'[q] = client[q]
          BY <2>3, <3>2, SettleEffect DEF Polls, Tells, Learns, Awaits, Hedges
        <4>2. told'[q] = told[q]
          <5>1. ASSUME NEW s, Answer(r, i, s)
                PROVE  told'[q] = told[q]
            BY <3>2, <5>1, TypeIs DEF Answer
          <5> QED
            BY <2>3, <5>1 DEF Polls, Tells, Learns, Awaits, Hedges, Settle
        <4> QED
          BY <2>1, <4>1, <4>2 DEF Kept, Outcome
      <3>3. CASE r = q /\ (Tells(q, i) \/ Awaits(q, i) \/ Hedges(q, i))
        <4>1. UNCHANGED client
          BY <3>3 DEF Tells, Awaits, Hedges
        <4>2. told'[q][i] \in {told[q][i], Outcome(q, i)}
          BY <3>3, AnswerEffect DEF Tells, Awaits, Hedges, Outcomes
        <4> QED
          BY <1>2, <2>1, <4>1, <4>2 DEF Kept, Outcome
      <3> QED
        BY <2>3, <3>1, <3>2, <3>3 DEF Polls
    <2> QED
      BY <1>2, <2>2, <2>3, ImageEffect
  <1> QED
    BY <1>1, <1>2

-----------------------------------------------------------------------------
(* The inductive invariant, and what follows from it. *)

ClientsInv ==
    /\ TypeOK
    /\ AwaitedIsOpen
    /\ \A i \in Images : ImageInv(i) /\ SeenInv(i) /\ \A q \in Processes : Kept(q, i)

LEMMA ClientsInit == Init => ClientsInv
  <1> SUFFICES ASSUME Init
               PROVE  ClientsInv
    OBVIOUS
  <1>1. AwaitedIsOpen
    BY DEF Init, AwaitedIsOpen, NoCall
  <1>2. \A q \in Processes, i \in Images :
           client[q].results[i] = "none" /\ \A w \in Workers : client[q].resolved[w][i] = "none"
    BY DEF Init, Fresh
  <1>3. ASSUME NEW i \in Images
        PROVE  ImageInv(i) /\ SeenInv(i) /\ \A q \in Processes : Kept(q, i)
    BY <1>2 DEF Init, ImageInv, SeenInv, Kept, NoId, NoCall
  <1> QED
    BY <1>1, <1>3, TypeInit DEF ClientsInv

LEMMA ClientsStep == ClientsInv /\ [Next]_vars => ClientsInv'
  <1> SUFFICES ASSUME ClientsInv, [Next]_vars
               PROVE  ClientsInv'
    OBVIOUS
  <1>1. TypeOK' /\ AwaitedIsOpen'
    BY TypeStep, AwaitStep DEF ClientsInv
  <1>2. ASSUME NEW i \in Images
        PROVE  ImageInv(i)' /\ SeenInv(i)' /\ \A q \in Processes : Kept(q, i)'
    <2>1. ImageInv(i)'
      BY ImageStep DEF ClientsInv
    <2> QED
      BY <2>1, SeenStep, KeptStep DEF ClientsInv
  <1> QED
    BY <1>1, <1>2 DEF ClientsInv

THEOREM ClientsInvariant == Spec => []ClientsInv
  BY ClientsInit, ClientsStep, PTL DEF Spec

(* The type invariant. *)
THEOREM ClientsTypeCorrect == Spec => []TypeOK
  <1>1. ClientsInv => TypeOK
    BY DEF ClientsInv
  <1> QED
    BY <1>1, ClientsInvariant, PTL

(* multi_worker.py:16-27 and routing_comfyui.py:97-104: whichever process
   decodes an id, the outcome it announces of that image is the one every
   other announced, however many processes, servers and restarts there are. *)
THEOREM ProcessesAgree == Spec => []AnswersAgree
  <1>1. ClientsInv => AnswersAgree
    BY DEF ClientsInv, AnswersAgree, SeenInv, SuccessSeen, FailureSeen, Outcomes
  <1> QED
    BY <1>1, ClientsInvariant, PTL

(* gemini.py:393-395 and live.py:503-541: an announced success is an image a
   server finished or the cloud generated. *)
THEOREM SuccessesAreGenuine == Spec => []SuccessIsGenuine
  <1>1. ASSUME ClientsInv, NEW i \in Images, "succeeded" \in said[i]
        PROVE  \/ id[i].tag = "gemini" /\ made[i] = "succeeded"
               \/ id[i].tag = "prompt" /\ Entry(i) \in {"done", "lost"}
    <2>1. id[i] # NoId
      BY <1>1 DEF ClientsInv, ImageInv
    <2>2. id[i].tag \in {"prompt", "local", "gemini", "notconfigured"}
      BY <1>1, <2>1, IdAt DEF ClientsInv
    <2> QED
      BY <1>1, <2>2 DEF ClientsInv, SeenInv, SuccessSeen
  <1>2. ClientsInv => SuccessIsGenuine
    BY <1>1 DEF SuccessIsGenuine
  <1> QED
    BY <1>2, ClientsInvariant, PTL

(* Who answers, in a step, does what a get_status of that image does. *)
LEMMA AnswersArePolls ==
    ASSUME ClientsInv, [Next]_vars, NEW q \in Processes, NEW i \in Images,
           NEW s \in Known \cup {"running", "unknown"}, Answers(q, i, s)
    PROVE  \/ s = Outcome(q, i) /\ s \in Outcomes
           \/ s \in Outcomes /\ Open(q, i)
           \/ s \in {"running", "unknown"} /\ Open(q, i)
              /\ (s = "unknown" => Entry(i) \notin {"pending", "running"})
  <1>0. TypeOK /\ AwaitedIsOpen /\ poll'[q].pc = "answered" /\ poll'[q].image = i /\ poll'[q].state = s
        /\ poll'[q] # poll[q]
    BY DEF ClientsInv, Answers
  <1>1. PICK j \in Images : Polls(q, j)
    <2>1. ASSUME NEW r \in Processes, NEW j \in Images, Polls(r, j)
          PROVE  r = q
      BY <1>0, <2>1, PollsOf
    <2>2. ASSUME NEW p \in Processes, Restart(p)
          PROVE  FALSE
      BY <1>0, <2>2, RestartEffect DEF NoCall
    <2>3. ASSUME \/ \E j \in Images : Submits(j)
                 \/ ServerMoves
                 \/ UNCHANGED vars
          PROVE  FALSE
      BY <1>0, <2>3 DEF Submits, OthersStay, ServerMoves, vars
    <2> QED
      BY <1>0, <2>1, <2>2, <2>3, StepKind
  <1>2. j = i
    BY <1>0, <1>1, PollsOf
  <1>3. ~Awaits(q, i)
    <2>1. ASSUME NEW pc \in {"fetching", "missed"}, poll' = [poll EXCEPT ![q] = [pc |-> pc, image |-> i]]
          PROVE  FALSE
      BY <1>0, <2>1, TypeIs
    <2> QED
      BY <2>1 DEF Awaits
  <1>4. CASE Tells(q, i)
    <2>1. Outcome(q, i) \in Outcomes /\ Answer(q, i, Outcome(q, i))
      BY <1>4 DEF Tells
    <2>2. s = Outcome(q, i)
      BY <1>0, <2>1, AnswerSays
    <2> QED
      BY <2>1, <2>2
  <1>5. CASE Learns(q, i)
    <2>1. PICK o \in Outcomes : Open(q, i) /\ Answer(q, i, o)
      BY <1>5 DEF Learns, Settle
    <2>2. s = o
      BY <1>0, <2>1, AnswerSays
    <2> QED
      BY <2>1, <2>2
  <1>6. CASE Hedges(q, i)
    <2>1. PICK o \in {"running", "unknown"} :
             /\ o = "unknown" => Entry(i) \notin {"pending", "running"}
             /\ Open(q, i) /\ Answer(q, i, o)
      BY <1>6 DEF Hedges
    <2>2. s = o
      BY <1>0, <2>1, AnswerSays
    <2> QED
      BY <2>1, <2>2
  <1> QED
    BY <1>1, <1>2, <1>3, <1>4, <1>5, <1>6 DEF Polls

(* live.py:557-565: a server that was asked about a prompt and answered
   "unknown" neither has it to run nor is running it. *)
THEOREM UnknownIsOver == Spec => UnknownIsNotAtWork
  <1>1. ASSUME ClientsInv, [Next]_vars, NEW q \in Processes, NEW i \in Images, Answers(q, i, "unknown")
        PROVE  id[i].tag = "prompt" /\ Entry(i) \in {"done", "blank", "error", "lost"}
    <2>1. Open(q, i) /\ Entry(i) \notin {"pending", "running"}
      BY <1>1, AnswersArePolls DEF Outcomes
    <2>2. id[i].tag = "prompt" /\ id[i].worker \in Workers /\ Entry(i) # "none"
      BY <1>1, <2>1, IdAt DEF Open, ClientsInv, ImageInv
    <2>3. Entry(i) \in States
      BY <1>1, <2>2, TypeIs DEF Entry, ClientsInv
    <2> QED
      BY <2>1, <2>2, <2>3 DEF States
  <1>2. ClientsInv /\ [Next]_vars =>
           \A q \in Processes, i \in Images :
               Answers(q, i, "unknown") =>
                   /\ id[i].tag = "prompt"
                   /\ Entry(i) \in {"done", "blank", "error", "lost"}
    BY <1>1
  <1> QED
    BY <1>2, ClientsInvariant, PTL DEF Spec, UnknownIsNotAtWork

(* live.py:503-541: an outcome announced by a process is the only answer it
   gives about that image until it restarts. *)
THEOREM AnnouncedIsFinal == Spec => OutcomeIsKept
  <1>1. ASSUME ClientsInv, [Next]_vars, NEW q \in Processes, NEW i \in Images, told[q][i] # "none",
               NEW s \in Known \cup {"running", "unknown"}, Answers(q, i, s)
        PROVE  s = told[q][i]
    <2>1. id[i] # NoId /\ Outcome(q, i) = told[q][i]
      BY <1>1 DEF ClientsInv, Kept
    <2>2. ~Open(q, i)
      BY <1>1, <2>1 DEF Open, Outcome
    <2> QED
      BY <1>1, <2>1, <2>2, AnswersArePolls
  <1>2. ClientsInv /\ [Next]_vars =>
           \A q \in Processes, i \in Images :
               told[q][i] # "none" =>
                   \A s \in Known \cup {"running", "unknown"} : Answers(q, i, s) => s = told[q][i]
    BY <1>1
  <1> QED
    BY <1>2, ClientsInvariant, PTL DEF Spec, OutcomeIsKept

===============================================================================
