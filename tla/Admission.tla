------------------------------ MODULE Admission ------------------------------
(***************************************************************************)
(* admit_generation_job (domain/jobs/admission.py), the one way into the   *)
(* queue, with the statements of PostgresJobQueue it awaits: find the      *)
(* idempotency key, count the backlogs, insert.  Each is a transaction of  *)
(* its own, so other requests and the pipeline run between them.           *)
(*                                                                         *)
(* A handler is one request in flight at a time.  Validation of workflows, *)
(* profiles and overrides reads no shared state and is done before.        *)
(***************************************************************************)
EXTENDS Naturals, FiniteSets

CONSTANTS
    Handlers,           \* as many as requests can be in flight
    Keys,               \* (user_id, idempotency_key, kind): UNIQUE in generation_jobs
    Payloads,           \* canonical_payload_hash of the inputs
    NoPayload,
    OwnerOf,
    ConversationOf, NoConversation,
    QueuedCap,          \* Settings.max_queued_jobs_per_user, 0: no cap
    GlobalCap           \* Settings.global_queue_cap, 0: no cap

ASSUME AdmissionAssumption ==
    /\ IsFiniteSet(Handlers)
    /\ NoPayload \notin Payloads
    /\ DOMAIN OwnerOf = Keys
    /\ DOMAIN ConversationOf = Keys
    /\ QueuedCap \in Nat
    /\ GlobalCap \in Nat

VARIABLES
    row,        \* the generation_jobs row of each key
    request     \* per handler: the admission it is in

vars == <<row, request>>

Absent  == [state |-> "absent", payload |-> NoPayload]
Idle    == [pc |-> "idle"]
Answers == {"created", "replayed", "conflict", "full", "error"}

(* "taken" is every state in which a job is not counted: active or ended. *)
Rows     == [state : {"queued", "retry_wait", "taken"}, payload : Payloads]
Pending  == [pc : {"find", "global", "backlog", "insert"}, key : Keys, payload : Payloads]
Answered == [pc : {"answered"}, key : Keys, payload : Payloads, answer : Answers]

(* The type invariant. *)
TypeOK ==
    /\ row \in [Keys -> Rows \cup {Absent}]
    /\ request \in [Handlers -> Pending \cup Answered \cup {Idle}]

Init ==
    /\ row = [k \in Keys |-> Absent]
    /\ request = [h \in Handlers |-> Idle]

-----------------------------------------------------------------------------
Stored(k)  == row[k].state # "absent"
Waiting(k) == row[k].state \in {"queued", "retry_wait"}

(* count_conversation_backlog where there is a conversation, otherwise
   count_user_backlog, which counts the jobs of conversations as well. *)
CountedWith(k) ==
    IF ConversationOf[k] # NoConversation
    THEN {i \in Keys : ConversationOf[i] = ConversationOf[k]}
    ELSE {i \in Keys : OwnerOf[i] = OwnerOf[k]}

Backlog(S) == Cardinality({k \in S : Waiting(k)})

(* Mutant: the limit itself is still admitted. *)
BelowInclusive(count, cap) == cap = 0 \/ count <= cap

Below(count, cap) == cap = 0 \/ count < cap

(* Mutant: the key alone makes a request a replay. *)
CheckIdempotencyByKey(k, p) == IF Stored(k) THEN "replayed" ELSE "new"

CheckIdempotency(k, p) ==
    CASE ~Stored(k)         -> "new"
      [] row[k].payload = p -> "replayed"
      [] OTHER              -> "conflict"

At(h, pc) == request[h].pc = pc

Go(h, pc) == request' = [request EXCEPT ![h].pc = pc]

Answer(h, answer) ==
    request' = [request EXCEPT ![h] =
                  [pc |-> "answered", key |-> @.key, payload |-> @.payload, answer |-> answer]]

-----------------------------------------------------------------------------
Begin(h, k, p) ==
    /\ At(h, "idle")
    /\ request' = [request EXCEPT ![h] = [pc |-> "find", key |-> k, payload |-> p]]
    /\ UNCHANGED row

Find(h) ==
    /\ At(h, "find")
    /\ LET outcome == CheckIdempotency(request[h].key, request[h].payload)
       IN  IF outcome = "new" THEN Go(h, "global") ELSE Answer(h, outcome)
    /\ UNCHANGED row

CountGlobal(h) ==
    /\ At(h, "global")
    /\ IF Below(Backlog(Keys), GlobalCap) THEN Go(h, "backlog") ELSE Answer(h, "full")
    /\ UNCHANGED row

CountBacklog(h) ==
    /\ At(h, "backlog")
    /\ IF Below(Backlog(CountedWith(request[h].key)), QueuedCap)
       THEN Go(h, "insert") ELSE Answer(h, "full")
    /\ UNCHANGED row

(* Mutant: the job is created in a state the table allows and no backlog counts. *)
InsertAdmitted(h) ==
    LET k == request[h].key
    IN  /\ At(h, "insert")
        /\ IF Stored(k)
           THEN Answer(h, "error") /\ UNCHANGED row
           ELSE /\ Answer(h, "created")
                /\ row' = [row EXCEPT ![k] = [state |-> "admitted", payload |-> request[h].payload]]

(* The loser of a race for a key gets the IntegrityError, which nobody
   catches: a server error. *)
Insert(h) ==
    LET k == request[h].key
    IN  /\ At(h, "insert")
        /\ IF Stored(k)
           THEN Answer(h, "error") /\ UNCHANGED row
           ELSE /\ Answer(h, "created")
                /\ row' = [row EXCEPT ![k] = [state |-> "queued", payload |-> request[h].payload]]

(* An await raises, or the process stops. *)
Fail(h) ==
    /\ ~At(h, "idle") /\ ~At(h, "answered")
    /\ request' = [request EXCEPT ![h] = Idle]
    /\ UNCHANGED row

Finish(h) ==
    /\ At(h, "answered")
    /\ request' = [request EXCEPT ![h] = Idle]
    /\ UNCHANGED row

(* The pipeline: a job is claimed or cancelled, and may come back to wait. *)
JobLeaves(k) ==
    /\ Waiting(k)
    /\ row' = [row EXCEPT ![k].state = "taken"]
    /\ UNCHANGED request

JobReturns(k) ==
    /\ row[k].state = "taken"
    /\ row' = [row EXCEPT ![k].state = "retry_wait"]
    /\ UNCHANGED request

Next ==
    \/ \E h \in Handlers : \/ \E k \in Keys, p \in Payloads : Begin(h, k, p)
                           \/ Find(h) \/ CountGlobal(h) \/ CountBacklog(h) \/ Insert(h)
                           \/ Fail(h) \/ Finish(h)
    \/ \E k \in Keys : JobLeaves(k) \/ JobReturns(k)

Spec == Init /\ [][Next]_vars

-----------------------------------------------------------------------------
(* Properties. *)

(* idempotency.py:1-8: who is told "created" or "replayed" finds a job with
   the payload it sent under its key, whoever else used the key meanwhile. *)
AnswerIsTheRequest ==
    \A h \in Handlers :
        (At(h, "answered") /\ request[h].answer \in {"created", "replayed"})
            => row[request[h].key].payload = request[h].payload

NeverClaimed(S) == Cardinality({k \in S : row[k].state = "queued"})

Inserting(S) == Cardinality({h \in Handlers : At(h, "insert") /\ request[h].key \in S})

Counted(S) ==
    Cardinality({h \in Handlers : /\ request[h].pc \in {"backlog", "insert"}
                                  /\ request[h].key \in S})

(* admission.py:262-299: the caps are counted and then acted upon in separate
   transactions, and jobs come back to wait without asking.  New jobs exceed
   a cap by less than the number of requests in flight: each of those can have
   counted before any of the others inserted. *)
OvershootBounded ==
    /\ GlobalCap > 0 =>
          NeverClaimed(Keys) + Counted(Keys) < GlobalCap + Cardinality(Handlers)
    /\ QueuedCap > 0 =>
          \A k \in Keys : ConversationOf[k] # NoConversation =>
             LET S == CountedWith(k)
             IN  NeverClaimed(S) + Inserting(S) < QueuedCap + Cardinality(Handlers)

=============================================================================
