---------------------------- MODULE ImageClients ----------------------------
(***************************************************************************)
(* The image clients of the scheduler and the reconciler, each process     *)
(* with its own: CompositeComfyUIClient (adapters/routing_comfyui.py) over *)
(* MultiWorkerComfyUIClient (comfyui/multi_worker.py), over one            *)
(* LiveComfyUIClient (comfyui/live.py) per ComfyUI server, and over the    *)
(* client of Gemini or OpenRouter.                                         *)
(*                                                                         *)
(* What one process learnt of a prompt is invisible to the others.  They   *)
(* share the id only, so all they need to agree is written into it.        *)
(*                                                                         *)
(* An image is one call of submit.  The design of its prompt is best       *)
(* effort and leaves no trace.  Nothing calls cancel.                      *)
(***************************************************************************)
EXTENDS Naturals

CONSTANTS
    Processes,
    Images,         \* the calls of submit
    CloudImages,    \* those of a workflow whose backend is "gemini"
    Blank,          \* those without a prompt
    NumWorkers      \* comfy_worker_base_urls, in the same order everywhere

ASSUME ImageAssumption ==
    /\ CloudImages \subseteq Images
    /\ Blank \subseteq Images
    /\ NumWorkers \in Nat \ {0}

VARIABLES
    client,     \* per process: the state of its clients
    call,       \* per image: where its submit is
    id,         \* per image: the prompt_id submit returned
    server,     \* per ComfyUI server: what it knows of each prompt
    made,       \* per image of the cloud: the outcome of its generation
    poll,       \* per process: where its get_status is, or what it answered
    told,       \* per process: the outcomes it announced since it started
    said        \* per image: the outcomes any process ever announced

vars == <<client, call, id, server, made, poll, told, said>>

Workers  == 0..NumWorkers - 1
Outcomes == {"succeeded", "failed"}
Known    == Outcomes \cup {"none"}

(* The worker's index is in the id of a prompt; "local" is an id minted for
   a submit that failed, with the reason in it. *)
Ids   == [tag : {"prompt", "local"}, worker : Workers] \cup [tag : {"gemini", "notconfigured"}]
NoId  == [tag |-> "none"]
NoCall == [pc |-> "none"]

(* A new process.  Its configuration is the one it finds then. *)
Fresh(cloud) ==
    [cloud |-> cloud, next |-> 0,
     resolved |-> [w \in Workers |-> [i \in Images |-> "none"]],
     results |-> [i \in Images |-> "none"]]

(* The type invariant. *)
TypeOK ==
    /\ client \in [Processes -> [cloud : BOOLEAN, next : Workers,
                                 resolved : [Workers -> [Images -> Known]],
                                 results : [Images -> Known]]]
    /\ call \in [Images -> [pc : {"posting", "accepted"}, by : Processes, worker : Workers]
                           \cup [pc : {"generating"}, by : Processes]
                           \cup [pc : {"none", "over"}]]
    /\ id \in [Images -> Ids \cup {NoId}]
    /\ server \in [Workers -> [Images -> {"none", "pending", "running", "done", "blank", "error", "lost"}]]
    /\ made \in [Images -> Known]
    /\ poll \in [Processes -> [pc : {"fetching", "missed"}, image : Images]
                              \cup [pc : {"answered"}, image : Images, state : Outcomes \cup {"running", "unknown"}]
                              \cup {NoCall}]
    /\ told \in [Processes -> [Images -> Known]]
    /\ said \in [Images -> SUBSET Outcomes]

Init ==
    /\ client \in [Processes -> {Fresh(cloud) : cloud \in BOOLEAN}]
    /\ call = [i \in Images |-> NoCall]
    /\ id = [i \in Images |-> NoId]
    /\ server = [w \in Workers |-> [i \in Images |-> "none"]]
    /\ made = [i \in Images |-> "none"]
    /\ poll = [p \in Processes |-> NoCall]
    /\ told = [p \in Processes |-> [i \in Images |-> "none"]]
    /\ said = [i \in Images |-> {}]

-----------------------------------------------------------------------------
(* submit. *)
Polling == <<poll, told, said>>

Return(i, prompt_id) ==
    /\ id' = [id EXCEPT ![i] = prompt_id]
    /\ call' = [call EXCEPT ![i] = [pc |-> "over"]]

(* The workflow needs the cloud and this process has no client for it. *)
SubmitUnconfigured(p, i) ==
    /\ call[i] = NoCall /\ i \in CloudImages
    /\ ~client[p].cloud
    /\ Return(i, [tag |-> "notconfigured"])
    /\ UNCHANGED <<client, server, made, Polling>>

(* Gemini and OpenRouter: a blank prompt is a failure at once. *)
SubmitCloud(p, i) ==
    /\ call[i] = NoCall /\ i \in CloudImages
    /\ client[p].cloud
    /\ IF i \in Blank
       THEN /\ client' = [client EXCEPT ![p].results[i] = "failed"]
            /\ made' = [made EXCEPT ![i] = "failed"]
            /\ Return(i, [tag |-> "gemini"])
       ELSE /\ call' = [call EXCEPT ![i] = [pc |-> "generating", by |-> p]]
            /\ UNCHANGED <<client, id, made>>
    /\ UNCHANGED <<server, Polling>>

(* The one call generates and stores; its outcome stays in this process. *)
Generated(i) ==
    /\ call[i].pc = "generating"
    /\ \E s \in Outcomes :
          /\ client' = [client EXCEPT ![call[i].by].results[i] = s]
          /\ made' = [made EXCEPT ![i] = s]
    /\ Return(i, [tag |-> "gemini"])
    /\ UNCHANGED <<server, Polling>>

(* Round robin: the index is taken before the request is sent. *)
SubmitPrompt(p, i) ==
    LET w == client[p].next
    IN  /\ call[i] = NoCall /\ i \notin CloudImages
        /\ client' = [client EXCEPT ![p].next = (w + 1) % NumWorkers]
        /\ IF i \in Blank
           THEN Return(i, [tag |-> "local", worker |-> w])
           ELSE /\ call' = [call EXCEPT ![i] = [pc |-> "posting", by |-> p, worker |-> w]]
                /\ UNCHANGED id
        /\ UNCHANGED <<server, made, Polling>>

(* Building the graph is outside the try that makes a failure an id: it may
   raise, before the prompt is looked at.  The index is gone all the same. *)
SubmitRaises(p, i) ==
    /\ call[i] = NoCall /\ i \notin CloudImages
    /\ client' = [client EXCEPT ![p].next = (@ + 1) % NumWorkers]
    /\ call' = [call EXCEPT ![i] = [pc |-> "over"]]
    /\ UNCHANGED <<id, server, made, Polling>>

(* POST /prompt reaches the server. *)
Accept(i) ==
    /\ call[i].pc = "posting"
    /\ server' = [server EXCEPT ![call[i].worker][i] = "pending"]
    /\ call' = [call EXCEPT ![i].pc = "accepted"]
    /\ UNCHANGED <<client, id, made, Polling>>

(* Mutant: the index is read again when the answer arrives. *)
ReturnWithNextIndex(i) ==
    /\ call[i].pc = "accepted"
    /\ Return(i, [tag |-> "prompt",
                  worker |-> (client[call[i].by].next + NumWorkers - 1) % NumWorkers])
    /\ UNCHANGED <<client, server, made, Polling>>

ReturnPrompt(i) ==
    /\ call[i].pc = "accepted"
    /\ Return(i, [tag |-> "prompt", worker |-> call[i].worker])
    /\ UNCHANGED <<client, server, made, Polling>>

(* The request or its answer is lost, or the graph refused.  The entry this
   leaves in _resolved is never read: the id itself says it failed. *)
SubmitFails(i) ==
    /\ call[i].pc \in {"posting", "accepted"}
    /\ Return(i, [tag |-> "local", worker |-> call[i].worker])
    /\ UNCHANGED <<client, server, made, Polling>>

-----------------------------------------------------------------------------
(* The ComfyUI servers: one prompt executes at a time. *)
ServerOnly == UNCHANGED <<client, call, id, made, Polling>>

Starts(w, i) ==
    /\ server[w][i] = "pending"
    /\ \A k \in Images : server[w][k] # "running"
    /\ server' = [server EXCEPT ![w][i] = "running"]
    /\ ServerOnly

(* "blank": it ended with no image among its outputs. *)
Finishes(w, i) ==
    /\ server[w][i] = "running"
    /\ \E s \in {"done", "blank", "error"} : server' = [server EXCEPT ![w][i] = s]
    /\ ServerOnly

(* A restarted server has neither the queue nor the history it had. *)
ServerRestarts(w) ==
    /\ \E i \in Images : server[w][i] \notin {"none", "lost"}
    /\ server' = [server EXCEPT ![w] = [i \in Images |-> IF @[i] = "none" THEN "none" ELSE "lost"]]
    /\ ServerOnly

-----------------------------------------------------------------------------
(* get_status: one at a time in a process. *)
Free(q) == poll[q].pc \in {"none", "answered"}

Answer(q, i, s) ==
    /\ poll' = [poll EXCEPT ![q] = [pc |-> "answered", image |-> i, state |-> s]]
    /\ told' = [told EXCEPT ![q][i] = IF s \in Outcomes THEN s ELSE @]
    /\ said' = [said EXCEPT ![i] = @ \cup ({s} \cap Outcomes)]

Settle(q, i, s) ==
    /\ client' = [client EXCEPT ![q].resolved[id[i].worker][i] = s]
    /\ Answer(q, i, s)

(* Mutant: a cloud id is decoded by what this process has, whatever it says. *)
OutcomeByConfiguration(q, i) ==
    CASE id[i].tag \in {"gemini", "notconfigured"} ->
            IF client[q].cloud THEN "succeeded" ELSE "failed"
      [] id[i].tag = "local"  -> "failed"
      [] id[i].tag = "prompt" -> client[q].resolved[id[i].worker][i]

(* What the id or this process's memory tells: "none" for a prompt whose
   server has to be asked. *)
Outcome(q, i) ==
    CASE id[i].tag \in {"notconfigured", "local"} -> "failed"
      [] id[i].tag = "gemini" ->
            IF client[q].cloud /\ client[q].results[i] # "none" THEN client[q].results[i] ELSE "failed"
      [] id[i].tag = "prompt" -> client[q].resolved[id[i].worker][i]

PollKnown(q, i) ==
    /\ Free(q) /\ id[i] # NoId
    /\ Outcome(q, i) # "none"
    /\ Answer(q, i, Outcome(q, i))
    /\ UNCHANGED <<client, call, id, server, made>>

Entry(i) == server[id[i].worker][i]

(* GET /history. *)
PollHistory(q, i) ==
    /\ Free(q) /\ id[i] # NoId
    /\ Outcome(q, i) = "none"
    /\ CASE Entry(i) \in {"error", "blank"} -> Settle(q, i, "failed")
         [] Entry(i) = "done" -> /\ poll' = [poll EXCEPT ![q] = [pc |-> "fetching", image |-> i]]
                                 /\ UNCHANGED <<client, told, said>>
         [] OTHER             -> /\ poll' = [poll EXCEPT ![q] = [pc |-> "missed", image |-> i]]
                                 /\ UNCHANGED <<client, told, said>>
    /\ UNCHANGED <<call, id, server, made>>

(* Mutant: the outcome is not kept. *)
FetchWithoutKeeping(q) ==
    /\ poll[q].pc = "fetching"
    /\ Answer(q, poll[q].image, "succeeded")
    /\ UNCHANGED <<client, call, id, server, made>>

(* GET /view of each output, each stored under a new key. *)
FetchOutputs(q) ==
    /\ poll[q].pc = "fetching"
    /\ Settle(q, poll[q].image, "succeeded")
    /\ UNCHANGED <<call, id, server, made>>

(* Mutant: a prompt the server does not know has failed. *)
ReadQueueFailingUnknown(q) ==
    /\ poll[q].pc = "missed"
    /\ Answer(q, poll[q].image,
              IF Entry(poll[q].image) \in {"pending", "running"} THEN "running" ELSE "failed")
    /\ UNCHANGED <<client, call, id, server, made>>

(* GET /queue, after the history had no such prompt. *)
ReadQueue(q) ==
    /\ poll[q].pc = "missed"
    /\ Answer(q, poll[q].image,
              IF Entry(poll[q].image) \in {"pending", "running"} THEN "running" ELSE "unknown")
    /\ UNCHANGED <<client, call, id, server, made>>

(* A request fails, the first included: the prompt counts as running. *)
PollFails(q, i) ==
    /\ \/ Free(q) /\ id[i] # NoId /\ Outcome(q, i) = "none"
       \/ poll[q].pc \in {"fetching", "missed"} /\ poll[q].image = i
    /\ Answer(q, i, "running")
    /\ UNCHANGED <<client, call, id, server, made>>

(* A process stops and starts again: its clients, the submits and the poll
   it was in are gone. *)
Restart(p) ==
    /\ \E cloud \in BOOLEAN : client' = [client EXCEPT ![p] = Fresh(cloud)]
    /\ call' = [i \in Images |->
                   IF call[i].pc \in {"posting", "accepted", "generating"} /\ call[i].by = p
                   THEN [pc |-> "over"] ELSE call[i]]
    /\ poll' = [poll EXCEPT ![p] = NoCall]
    /\ told' = [told EXCEPT ![p] = [i \in Images |-> "none"]]
    /\ UNCHANGED <<id, server, made, said>>

Next ==
    \/ \E p \in Processes : Restart(p) \/ FetchOutputs(p) \/ ReadQueue(p)
    \/ \E p \in Processes, i \in Images :
          \/ SubmitUnconfigured(p, i) \/ SubmitCloud(p, i)
          \/ SubmitPrompt(p, i) \/ SubmitRaises(p, i)
          \/ PollKnown(p, i) \/ PollHistory(p, i) \/ PollFails(p, i)
    \/ \E i \in Images : Generated(i) \/ Accept(i) \/ ReturnPrompt(i) \/ SubmitFails(i)
    \/ \E w \in Workers, i \in Images : Starts(w, i) \/ Finishes(w, i)
    \/ \E w \in Workers : ServerRestarts(w)

Spec == Init /\ [][Next]_vars

-----------------------------------------------------------------------------
(* multi_worker.py:16-27 and routing_comfyui.py:97-104: what one process
   minted, another decodes.  Of one ComfyUI prompt, or of a submit that never
   reached a backend, no two processes ever announce different outcomes,
   whichever of them submitted it, whatever they are configured for, and
   however often they and the servers restart. *)
AnswersAgree ==
    \A i \in Images :
        /\ id[i].tag \in {"prompt", "local", "notconfigured"} => said[i] # Outcomes
        /\ id[i].tag \in {"local", "notconfigured"} => "succeeded" \notin said[i]

(* What a process answers when it answers. *)
Answers(q, i, s) ==
    /\ poll[q] # poll'[q]
    /\ poll'[q] = [pc |-> "answered", image |-> i, state |-> s]

(* live.py:557-565: "unknown" lets the reconciler give the job up.  It is
   said of a prompt of a server, and never of one that server still has to
   run or is running. *)
UnknownIsNotAtWork ==
    [][\A q \in Processes, i \in Images :
          Answers(q, i, "unknown") =>
              /\ id[i].tag = "prompt"
              /\ Entry(i) \in {"done", "blank", "error", "lost"}]_vars

(* live.py:503-541: a process that has announced an outcome keeps to it as
   long as it lives: a server that forgets does not take an image back. *)
OutcomeIsKept ==
    [][\A q \in Processes, i \in Images :
          told[q][i] # "none" =>
              \A s \in Known \cup {"running", "unknown"} : Answers(q, i, s) => s = told[q][i]]_vars

(* gemini.py:393-395: submit stores the image before the outcome exists, and
   no cache, configuration or decoding makes a success of anything else. *)
SuccessIsGenuine ==
    \A i \in Images :
        "succeeded" \in said[i] =>
            \/ id[i].tag = "gemini" /\ made[i] = "succeeded"
            \/ id[i].tag = "prompt" /\ Entry(i) \in {"done", "lost"}

=============================================================================
