--------------------------- MODULE AdmissionProofs ---------------------------
(***************************************************************************)
(* What holds of admission for any number of requests in flight, any set   *)
(* of keys, infinite ones included, any payloads, owners and conversations *)
(* and any caps.                                                           *)
(***************************************************************************)
EXTENDS Admission, FiniteSetTheorems, TLAPS

-----------------------------------------------------------------------------
(* Types. *)

(* The place a handler has reached tells which record it holds. *)
LEMMA RequestAt ==
    ASSUME TypeOK, NEW h \in Handlers
    PROVE  /\ request[h].pc \in {"find", "global", "backlog", "insert"} <=> request[h] \in Pending
           /\ request[h].pc = "answered" <=> request[h] \in Answered
           /\ request[h].pc = "idle" <=> request[h] = Idle
  <1>1. request[h] \in Pending \cup Answered \cup {Idle}
    BY DEF TypeOK
  <1> QED
    BY <1>1 DEF Pending, Answered, Idle

(* A pending request stays one when it moves on, and becomes an answer. *)
LEMMA RequestMoves ==
    ASSUME NEW r \in Pending
    PROVE  /\ \A pc \in {"find", "global", "backlog", "insert"} : [r EXCEPT !.pc = pc] \in Pending
           /\ \A a \in Answers :
                 [pc |-> "answered", key |-> r.key, payload |-> r.payload, answer |-> a] \in Answered
           /\ r.key \in Keys
           /\ r.payload \in Payloads
  BY DEF Pending, Answered

LEMMA RowMoves ==
    ASSUME TypeOK, NEW k \in Keys
    PROVE  /\ row[k] \in Rows \cup {Absent}
           /\ Stored(k) <=> row[k] \in Rows
           /\ Stored(k) => /\ [row[k] EXCEPT !.state = "taken"] \in Rows
                           /\ [row[k] EXCEPT !.state = "retry_wait"] \in Rows
           /\ \A p \in Payloads : [state |-> "queued", payload |-> p] \in Rows
  <1>1. row[k] \in Rows \cup {Absent}
    BY DEF TypeOK
  <1> QED
    BY <1>1 DEF Rows, Absent, Stored

LEMMA InitType == Init => TypeOK
  BY DEF Init, TypeOK, Absent, Idle

LEMMA NextType == TypeOK /\ [Next]_vars => TypeOK'
  <1> SUFFICES ASSUME TypeOK, [Next]_vars
               PROVE  TypeOK'
    OBVIOUS
  <1>1. row \in [Keys -> Rows \cup {Absent}]
        /\ request \in [Handlers -> Pending \cup Answered \cup {Idle}]
    BY DEF TypeOK
  <1>2. ASSUME NEW h \in Handlers, NEW r \in Pending \cup Answered \cup {Idle},
               request' = [request EXCEPT ![h] = r], UNCHANGED row
        PROVE  TypeOK'
    BY <1>1, <1>2 DEF TypeOK
  <1>3. ASSUME NEW k \in Keys, NEW r \in Rows, row' = [row EXCEPT ![k] = r], UNCHANGED request
        PROVE  TypeOK'
    BY <1>1, <1>3 DEF TypeOK
  <1>4. ASSUME NEW h \in Handlers, NEW k \in Keys, NEW p \in Payloads, Begin(h, k, p)
        PROVE  TypeOK'
    <2>1. [pc |-> "find", key |-> k, payload |-> p] \in Pending
      BY DEF Pending
    <2> QED
      BY <2>1, <1>2, <1>4 DEF Begin
  <1>5. ASSUME NEW h \in Handlers, Find(h)
        PROVE  TypeOK'
    <2>1. request[h] \in Pending
      BY <1>5, RequestAt DEF Find, At
    <2>2. CheckIdempotency(request[h].key, request[h].payload) \in Answers \cup {"new"}
      BY DEF CheckIdempotency, Answers
    <2>3. CASE Go(h, "global")
      BY <2>1, <2>3, <1>2, <1>5, RequestMoves DEF Go, Find
    <2>4. CASE CheckIdempotency(request[h].key, request[h].payload) \in Answers
               /\ Answer(h, CheckIdempotency(request[h].key, request[h].payload))
      BY <2>1, <2>4, <1>2, <1>5, RequestMoves DEF Answer, Find
    <2> QED
      BY <2>2, <2>3, <2>4, <1>5 DEF Find
  <1>6. ASSUME NEW h \in Handlers, CountGlobal(h)
        PROVE  TypeOK'
    <2>1. request[h] \in Pending /\ "full" \in Answers
      BY <1>6, RequestAt DEF CountGlobal, At, Answers
    <2>2. CASE Go(h, "backlog")
      BY <2>1, <2>2, <1>2, <1>6, RequestMoves DEF Go, CountGlobal
    <2>3. CASE Answer(h, "full")
      BY <2>1, <2>3, <1>2, <1>6, RequestMoves DEF Answer, CountGlobal
    <2> QED
      BY <2>2, <2>3, <1>6 DEF CountGlobal
  <1>7. ASSUME NEW h \in Handlers, CountBacklog(h)
        PROVE  TypeOK'
    <2>1. request[h] \in Pending /\ "full" \in Answers
      BY <1>7, RequestAt DEF CountBacklog, At, Answers
    <2>2. CASE Go(h, "insert")
      BY <2>1, <2>2, <1>2, <1>7, RequestMoves DEF Go, CountBacklog
    <2>3. CASE Answer(h, "full")
      BY <2>1, <2>3, <1>2, <1>7, RequestMoves DEF Answer, CountBacklog
    <2> QED
      BY <2>2, <2>3, <1>7 DEF CountBacklog
  <1>8. ASSUME NEW h \in Handlers, Insert(h)
        PROVE  TypeOK'
    <2>1. request[h] \in Pending /\ {"error", "created"} \subseteq Answers
      BY <1>8, RequestAt DEF Insert, At, Answers
    <2>2. request[h].key \in Keys /\ request[h].payload \in Payloads
      BY <2>1, RequestMoves
    <2>3. ASSUME NEW a \in {"error", "created"}, Answer(h, a)
          PROVE  request' \in [Handlers -> Pending \cup Answered \cup {Idle}]
      BY <2>1, <2>3, <1>1, RequestMoves DEF Answer
    <2>4. row' \in [Keys -> Rows \cup {Absent}]
      BY <2>2, <1>1, <1>8, RowMoves DEF Insert
    <2> QED
      BY <2>3, <2>4, <1>8 DEF Insert, TypeOK
  <1>9. ASSUME NEW h \in Handlers, Fail(h) \/ Finish(h)
        PROVE  TypeOK'
    BY <1>2, <1>9 DEF Fail, Finish
  <1>10. ASSUME NEW k \in Keys, JobLeaves(k) \/ JobReturns(k)
         PROVE  TypeOK'
    <2>1. Stored(k)
      BY <1>10 DEF JobLeaves, JobReturns, Waiting, Stored
    <2> QED
      BY <2>1, <1>3, <1>10, RowMoves DEF JobLeaves, JobReturns
  <1>11. CASE UNCHANGED vars
    BY <1>11 DEF vars, TypeOK
  <1> QED
    BY <1>4, <1>5, <1>6, <1>7, <1>8, <1>9, <1>10, <1>11 DEF Next

(* The type invariant holds of admission. *)
THEOREM TypeCorrect == Spec => []TypeOK
  BY InitType, NextType, PTL DEF Spec

-----------------------------------------------------------------------------
(* Answers. *)

(* The payload of a stored row never changes: Insert writes only where there
   is none, and the pipeline writes only the state. *)
LEMMA PayloadStays ==
    ASSUME TypeOK, [Next]_vars, NEW k \in Keys, Stored(k)
    PROVE  Stored(k)' /\ row'[k].payload = row[k].payload
  <1>1. row \in [Keys -> Rows \cup {Absent}] /\ row[k] \in Rows
    BY RowMoves DEF TypeOK
  <1>2. CASE UNCHANGED row
    BY <1>2 DEF Stored
  <1>3. ASSUME NEW h \in Handlers, Insert(h)
        PROVE  Stored(k)' /\ row'[k].payload = row[k].payload
    BY <1>1, <1>3 DEF Insert, Stored
  <1>4. ASSUME NEW i \in Keys, JobLeaves(i) \/ JobReturns(i)
        PROVE  Stored(k)' /\ row'[k].payload = row[k].payload
    BY <1>1, <1>4 DEF JobLeaves, JobReturns, Stored, Rows
  <1> QED
    BY <1>2, <1>3, <1>4
       DEF Next, vars, Begin, Find, CountGlobal, CountBacklog, Fail, Finish

(* A handler is told "created" or "replayed" only when the row agrees. *)
LEMMA NewAnswerAgrees ==
    ASSUME TypeOK, [Next]_vars, NEW h \in Handlers,
           request[h].pc # "answered",
           request'[h].pc = "answered", request'[h].answer \in {"created", "replayed"}
    PROVE  row'[request'[h].key].payload = request'[h].payload
  <1>1. request \in [Handlers -> Pending \cup Answered \cup {Idle}]
        /\ row \in [Keys -> Rows \cup {Absent}]
    BY DEF TypeOK
  <1>2. request'[h] # request[h]
    OBVIOUS
  <1>3. ASSUME NEW g \in Handlers, NEW k \in Keys, NEW p \in Payloads, Begin(g, k, p)
        PROVE  FALSE
    BY <1>1, <1>2, <1>3 DEF Begin
  <1>4. ASSUME NEW g \in Handlers, Find(g)
        PROVE  row'[request'[h].key].payload = request'[h].payload
    <2>1. g = h /\ request[h] \in Pending
      BY <1>1, <1>2, <1>4, RequestAt DEF Find, Go, Answer, At
    <2>2. CASE Go(h, "global")
      BY <1>1, <2>2, RequestMoves DEF Go
    <2>3. ASSUME NEW a, a = CheckIdempotency(request[h].key, request[h].payload), Answer(h, a)
          PROVE  row'[request'[h].key].payload = request'[h].payload
      <3>1. request'[h] = [pc |-> "answered", key |-> request[h].key,
                           payload |-> request[h].payload, answer |-> a]
        BY <1>1, <2>3 DEF Answer
      <3>2. a = "replayed"
        BY <3>1, <2>3 DEF CheckIdempotency
      <3>3. row[request[h].key].payload = request[h].payload
        BY <3>2, <2>3 DEF CheckIdempotency
      <3> QED
        BY <3>1, <3>3, <1>4 DEF Find
    <2> QED
      BY <2>1, <2>2, <2>3, <1>4 DEF Find
  <1>5. ASSUME NEW g \in Handlers, CountGlobal(g) \/ CountBacklog(g)
        PROVE  FALSE
    <2>1. g = h /\ request[h] \in Pending
      BY <1>1, <1>2, <1>5, RequestAt DEF CountGlobal, CountBacklog, Go, Answer, At
    <2>2. CASE Answer(h, "full")
      BY <1>1, <2>2 DEF Answer
    <2>3. CASE Go(h, "backlog") \/ Go(h, "insert")
      BY <1>1, <2>1, <2>3 DEF Go, Pending
    <2> QED
      BY <2>1, <2>2, <2>3, <1>5 DEF CountGlobal, CountBacklog
  <1>6. ASSUME NEW g \in Handlers, Insert(g)
        PROVE  row'[request'[h].key].payload = request'[h].payload
    <2>1. g = h /\ request[h] \in Pending
      BY <1>1, <1>2, <1>6, RequestAt DEF Insert, Answer, At
    <2>2. request[h].key \in Keys
      BY <2>1, RequestMoves
    <2>3. CASE Answer(h, "error")
      BY <1>1, <2>3 DEF Answer
    <2>4. CASE /\ Answer(h, "created")
               /\ row' = [row EXCEPT ![request[h].key] =
                            [state |-> "queued", payload |-> request[h].payload]]
      BY <1>1, <2>2, <2>4 DEF Answer
    <2> QED
      BY <2>1, <2>3, <2>4, <1>6 DEF Insert
  <1>7. ASSUME NEW g \in Handlers, Fail(g) \/ Finish(g)
        PROVE  FALSE
    BY <1>1, <1>2, <1>7 DEF Fail, Finish, Idle
  <1>8. CASE UNCHANGED request
    BY <1>2, <1>8
  <1> QED
    BY <1>3, <1>4, <1>5, <1>6, <1>7, <1>8 DEF Next, JobLeaves, JobReturns, vars

(* Only Finish takes an answer away. *)
LEMMA AnswerStays ==
    ASSUME TypeOK, [Next]_vars, NEW h \in Handlers,
           request[h].pc = "answered", request'[h].pc = "answered"
    PROVE  request'[h] = request[h]
  <1>1. request \in [Handlers -> Pending \cup Answered \cup {Idle}]
    BY DEF TypeOK
  <1>2. ASSUME NEW g \in Handlers, NEW r, request' = [request EXCEPT ![g] = r],
               request[g].pc # "answered" \/ r.pc = "idle"
        PROVE  request'[h] = request[h]
    BY <1>1, <1>2
  <1>3. ASSUME NEW g \in Handlers, Fail(g) \/ Finish(g)
        PROVE  request'[h] = request[h]
    BY <1>2, <1>3 DEF Fail, Finish, Idle
  <1>4. ASSUME NEW g \in Handlers, NEW k \in Keys, NEW p \in Payloads, Begin(g, k, p)
        PROVE  request'[h] = request[h]
    BY <1>2, <1>4 DEF Begin, At
  <1>5. ASSUME NEW g \in Handlers, Find(g) \/ CountGlobal(g) \/ CountBacklog(g) \/ Insert(g)
        PROVE  request'[h] = request[h]
    <2>1. request[g].pc # "answered"
      BY <1>5 DEF Find, CountGlobal, CountBacklog, Insert, At
    <2>2. ASSUME NEW a, Answer(g, a)
          PROVE  request'[h] = request[h]
      BY <1>1, <2>1, <2>2 DEF Answer
    <2>3. ASSUME NEW pc, Go(g, pc)
          PROVE  request'[h] = request[h]
      BY <1>1, <2>1, <2>3 DEF Go
    <2> QED
      BY <1>5, <2>2, <2>3 DEF Find, CountGlobal, CountBacklog, Insert
  <1>6. CASE UNCHANGED request
    BY <1>6
  <1> QED
    BY <1>3, <1>4, <1>5, <1>6 DEF Next, vars, JobLeaves, JobReturns

LEMMA AnswerStep == TypeOK /\ AnswerIsTheRequest /\ [Next]_vars => AnswerIsTheRequest'
  <1> SUFFICES ASSUME TypeOK, AnswerIsTheRequest, [Next]_vars, NEW h \in Handlers,
                      request'[h].pc = "answered",
                      request'[h].answer \in {"created", "replayed"}
               PROVE  row'[request'[h].key].payload = request'[h].payload
    BY DEF AnswerIsTheRequest, At
  <1>1. CASE request[h].pc # "answered"
    BY <1>1, NewAnswerAgrees
  <1>2. CASE request[h].pc = "answered"
    <2>1. request'[h] = request[h]
      BY <1>2, AnswerStays
    <2>2. row[request[h].key].payload = request[h].payload
      BY <2>1, <1>2 DEF AnswerIsTheRequest, At
    <2>3. request[h].key \in Keys /\ request[h].payload \in Payloads
      BY <1>2, RequestAt DEF Answered
    <2>4. Stored(request[h].key)
      <3>1. ~Stored(request[h].key) => row[request[h].key] = Absent
        BY <2>3, RowMoves
      <3>2. row[request[h].key] # Absent
        BY <2>2, <2>3, AdmissionAssumption DEF Absent
      <3> QED
        BY <3>1, <3>2
    <2> QED
      BY <2>1, <2>2, <2>3, <2>4, PayloadStays
  <1> QED
    BY <1>1, <1>2

(* idempotency.py:1-8: who is told "created" or "replayed" finds a job with
   the payload it sent under its key. *)
THEOREM AnswersAreOfTheRequest == Spec => []AnswerIsTheRequest
  <1>1. Init => AnswerIsTheRequest
    BY DEF Init, AnswerIsTheRequest, At, Idle
  <1> QED
    BY <1>1, InitType, NextType, AnswerStep, PTL DEF Spec

-----------------------------------------------------------------------------
(* Caps. *)

(* Jobs of S that nobody claimed yet, and the requests for a key of S that
   have been counted and not inserted. *)
QueuedIn(S)      == {k \in S : row[k].state = "queued"}
HandlersIn(S, P) == {h \in Handlers : request[h].pc \in P /\ request[h].key \in S}

Within(S, P, cap) ==
    Cardinality(QueuedIn(S)) + Cardinality(HandlersIn(S, P)) < cap + Cardinality(Handlers)

(* The places behind the count of a conversation, and of all. *)
AfterBacklog == {"insert"}
AfterGlobal  == {"backlog", "insert"}

FewStored == IsFiniteSet({k \in Keys : Stored(k)})

LEMMA FewStoredStep == TypeOK /\ FewStored /\ [Next]_vars => FewStored'
  <1> SUFFICES ASSUME TypeOK, FewStored, [Next]_vars
               PROVE  FewStored'
    OBVIOUS
  <1> DEFINE T == {k \in Keys : Stored(k)}
  <1>1. \E i : T' \subseteq T \cup {i}
    <2>1. row \in [Keys -> Rows \cup {Absent}]
      BY DEF TypeOK
    <2>2. CASE UNCHANGED row
      BY <2>2 DEF Stored
    <2>3. ASSUME NEW h \in Handlers, Insert(h)
          PROVE  T' \subseteq T \cup {request[h].key}
      BY <2>1, <2>3 DEF Insert, Stored
    <2>4. ASSUME NEW i \in Keys, JobLeaves(i) \/ JobReturns(i)
          PROVE  T' \subseteq T \cup {i}
      BY <2>1, <2>4 DEF JobLeaves, JobReturns, Stored
    <2> QED
      BY <2>2, <2>3, <2>4
         DEF Next, vars, Begin, Find, CountGlobal, CountBacklog, Fail, Finish
  <1>2. PICK i : T' \subseteq T \cup {i}
    BY <1>1
  <1>3. IsFiniteSet(T \cup {i})
    BY FS_AddElement DEF FewStored
  <1>4. IsFiniteSet(T')
    BY <1>2, <1>3, FS_Subset
  <1> QED
    BY <1>4 DEF FewStored

(* The sets that are counted are finite. *)
LEMMA CountsAreFinite ==
    ASSUME TypeOK, FewStored, NEW S \in SUBSET Keys, NEW P
    PROVE  /\ IsFiniteSet(QueuedIn(S))
           /\ IsFiniteSet(HandlersIn(S, P))
           /\ Cardinality(QueuedIn(S)) \in Nat
           /\ Cardinality(HandlersIn(S, P)) \in Nat
           /\ Cardinality(HandlersIn(S, P)) <= Cardinality(Handlers)
           /\ Cardinality(Handlers) \in Nat
           /\ Backlog(S) \in Nat
           /\ Cardinality(QueuedIn(S)) <= Backlog(S)
  <1> DEFINE T == {k \in Keys : Stored(k)}
             W == {k \in S : Waiting(k)}
  <1>1. W \in SUBSET T /\ QueuedIn(S) \in SUBSET W
    BY DEF Waiting, Stored, QueuedIn
  <1>2. IsFiniteSet(W)
    BY <1>1, FS_Subset DEF FewStored
  <1>3. IsFiniteSet(QueuedIn(S)) /\ Cardinality(QueuedIn(S)) <= Cardinality(W)
    BY <1>1, <1>2, FS_Subset
  <1>4. HandlersIn(S, P) \in SUBSET Handlers
    BY DEF HandlersIn
  <1>5. /\ IsFiniteSet(HandlersIn(S, P))
        /\ Cardinality(HandlersIn(S, P)) <= Cardinality(Handlers)
    BY <1>4, FS_Subset, AdmissionAssumption
  <1>6. Cardinality(W) \in Nat /\ Cardinality(Handlers) \in Nat
        /\ Cardinality(QueuedIn(S)) \in Nat /\ Cardinality(HandlersIn(S, P)) \in Nat
    BY <1>2, <1>3, <1>5, FS_CardinalityType, AdmissionAssumption
  <1> QED
    BY <1>3, <1>5, <1>6 DEF Backlog

(* A step lets a request pass a count, stores the job of a request that had
   passed it, or adds to neither. *)
Passes(S, P) ==
    /\ UNCHANGED row
    /\ \E h \in Handlers :
          \/ /\ P = AfterGlobal
             /\ Below(Backlog(Keys), GlobalCap)
          \/ /\ P = AfterBacklog
             /\ request[h].key \in S
             /\ Below(Backlog(CountedWith(request[h].key)), QueuedCap)

Stores(S, P) ==
    \E h \in HandlersIn(S, P), k \in S :
        /\ QueuedIn(S)' = QueuedIn(S) \cup {k}
        /\ HandlersIn(S, P)' = HandlersIn(S, P) \ {h}

Shrinks(S, P) ==
    /\ QueuedIn(S)' \subseteq QueuedIn(S)
    /\ HandlersIn(S, P)' \subseteq HandlersIn(S, P)

(* What a step of one handler does to the handlers that were counted. *)
LEMMA OneMoves ==
    ASSUME TypeOK, NEW S \in SUBSET Keys, NEW P \in {AfterGlobal, AfterBacklog},
           NEW h \in Handlers, NEW r, request' = [request EXCEPT ![h] = r]
    PROVE  /\ r.pc \notin P => HandlersIn(S, P)' = HandlersIn(S, P) \ {h}
           /\ (r.key = request[h].key /\ request[h].pc \in P)
                 => HandlersIn(S, P)' \subseteq HandlersIn(S, P)
           /\ r.key \notin S => HandlersIn(S, P)' \subseteq HandlersIn(S, P)
  BY DEF TypeOK, HandlersIn

LEMMA StepOfCounts ==
    ASSUME TypeOK, [Next]_vars, NEW S \in SUBSET Keys, NEW P \in {AfterGlobal, AfterBacklog}
    PROVE  Passes(S, P) \/ Stores(S, P) \/ Shrinks(S, P)
  <1>1. row \in [Keys -> Rows \cup {Absent}]
        /\ request \in [Handlers -> Pending \cup Answered \cup {Idle}]
    BY DEF TypeOK
  <1>2. UNCHANGED row => QueuedIn(S)' \subseteq QueuedIn(S)
    BY DEF QueuedIn
  <1>3. \A pc \in {"idle", "find", "global", "answered"} : pc \notin P
    BY DEF AfterGlobal, AfterBacklog
  <1>4. ASSUME NEW h \in Handlers, NEW r, request' = [request EXCEPT ![h] = r],
               r.pc \in {"idle", "find", "global", "answered"}, UNCHANGED row
        PROVE  Shrinks(S, P)
    <2>1. HandlersIn(S, P)' \subseteq HandlersIn(S, P)
      BY <1>3, <1>4, OneMoves
    <2> QED
      BY <2>1, <1>2, <1>4 DEF Shrinks
  <1>5. ASSUME NEW h \in Handlers, NEW a, Answer(h, a), UNCHANGED row
        PROVE  Shrinks(S, P)
    BY <1>4, <1>5 DEF Answer
  <1>6. ASSUME NEW h \in Handlers, NEW k \in Keys, NEW p \in Payloads, Begin(h, k, p)
        PROVE  Shrinks(S, P)
    BY <1>4, <1>6 DEF Begin
  <1>7. ASSUME NEW h \in Handlers, Find(h)
        PROVE  Shrinks(S, P)
    <2>1. request[h] \in Pending
      BY <1>7, RequestAt DEF Find, At
    <2>2. CASE Go(h, "global")
      <3>1. [request[h] EXCEPT !.pc = "global"].pc = "global"
        BY <2>1 DEF Pending
      <3> QED
        BY <3>1, <2>2, <1>4, <1>7 DEF Go, Find
    <2> QED
      BY <2>2, <1>5, <1>7 DEF Find
  <1>8. ASSUME NEW h \in Handlers, CountGlobal(h)
        PROVE  Passes(S, P) \/ Shrinks(S, P)
    <2>1. request[h] \in Pending
      BY <1>8, RequestAt DEF CountGlobal, At
    <2>2. CASE Below(Backlog(Keys), GlobalCap) /\ Go(h, "backlog")
      <3>1. CASE P = AfterGlobal
        BY <3>1, <2>2, <1>8 DEF Passes, CountGlobal
      <3>2. CASE P = AfterBacklog
        <4>1. [request[h] EXCEPT !.pc = "backlog"].pc = "backlog"
          BY <2>1 DEF Pending
        <4>2. [request[h] EXCEPT !.pc = "backlog"].pc \notin P
          BY <3>2, <4>1 DEF AfterBacklog
        <4>3. request' = [request EXCEPT ![h] = [request[h] EXCEPT !.pc = "backlog"]]
          BY <2>2 DEF Go
        <4>4. HandlersIn(S, P)' = HandlersIn(S, P) \ {h}
          BY <4>2, <4>3, OneMoves
        <4> QED
          BY <4>4, <1>2, <1>8 DEF Shrinks, CountGlobal
      <3> QED
        BY <3>1, <3>2
    <2> QED
      BY <2>2, <1>5, <1>8 DEF CountGlobal
  <1>9. ASSUME NEW h \in Handlers, CountBacklog(h)
        PROVE  Passes(S, P) \/ Shrinks(S, P)
    <2>1. request[h] \in Pending /\ request[h].pc = "backlog"
      BY <1>9, RequestAt DEF CountBacklog, At
    <2>2. CASE /\ Below(Backlog(CountedWith(request[h].key)), QueuedCap)
               /\ Go(h, "insert")
      <3>1. [request[h] EXCEPT !.pc = "insert"].key = request[h].key
        BY <2>1 DEF Pending
      <3>2. CASE P = AfterGlobal \/ request[h].key \notin S
        <4>1. HandlersIn(S, P)' \subseteq HandlersIn(S, P)
          BY <3>1, <3>2, <2>1, <2>2, OneMoves DEF Go, AfterGlobal
        <4> QED
          BY <4>1, <1>2, <1>9 DEF Shrinks, CountBacklog
      <3>3. CASE P = AfterBacklog /\ request[h].key \in S
        BY <3>3, <2>2, <1>9 DEF Passes, CountBacklog
      <3> QED
        BY <3>2, <3>3
    <2> QED
      BY <2>2, <1>5, <1>9 DEF CountBacklog
  <1>10. ASSUME NEW h \in Handlers, Insert(h)
         PROVE  Stores(S, P) \/ Shrinks(S, P)
    <2> DEFINE k == request[h].key
    <2>1. request[h] \in Pending /\ request[h].pc = "insert" /\ k \in Keys
      BY <1>10, RequestAt, RequestMoves DEF Insert, At
    <2>2. CASE /\ Answer(h, "created")
               /\ row' = [row EXCEPT ![k] = [state |-> "queued", payload |-> request[h].payload]]
      <3> DEFINE r == [pc |-> "answered", key |-> request[h].key,
                       payload |-> request[h].payload, answer |-> "created"]
      <3>0. request' = [request EXCEPT ![h] = r] /\ r.pc \notin P
        BY <1>3, <2>2 DEF Answer
      <3> HIDE DEF r
      <3>1. HandlersIn(S, P)' = HandlersIn(S, P) \ {h}
        BY <3>0, OneMoves
      <3>2. CASE k \in S
        <4>1. h \in HandlersIn(S, P)
          BY <3>2, <2>1 DEF HandlersIn, AfterGlobal, AfterBacklog
        <4>2. QueuedIn(S)' = QueuedIn(S) \cup {k}
          BY <3>2, <2>1, <2>2, <1>1 DEF QueuedIn
        <4> QED
          BY <3>1, <3>2, <4>1, <4>2 DEF Stores
      <3>3. CASE k \notin S
        <4>1. QueuedIn(S)' \subseteq QueuedIn(S)
          BY <3>3, <2>1, <2>2, <1>1 DEF QueuedIn
        <4> QED
          BY <3>1, <4>1 DEF Shrinks
      <3> QED
        BY <3>2, <3>3
    <2> QED
      BY <2>2, <1>5, <1>10 DEF Insert
  <1>11. ASSUME NEW h \in Handlers, Fail(h) \/ Finish(h)
         PROVE  Shrinks(S, P)
    BY <1>4, <1>11 DEF Fail, Finish, Idle
  <1>12. ASSUME NEW k \in Keys, JobLeaves(k) \/ JobReturns(k)
         PROVE  Shrinks(S, P)
    <2>1. QueuedIn(S)' \subseteq QueuedIn(S)
      BY <1>1, <1>12, RowMoves DEF JobLeaves, JobReturns, QueuedIn, Rows, Absent
    <2>2. HandlersIn(S, P)' \subseteq HandlersIn(S, P)
      BY <1>12 DEF JobLeaves, JobReturns, HandlersIn
    <2> QED
      BY <2>1, <2>2 DEF Shrinks
  <1>13. CASE UNCHANGED vars
    BY <1>2, <1>13 DEF vars, Shrinks, HandlersIn
  <1> QED
    BY <1>6, <1>7, <1>8, <1>9, <1>10, <1>11, <1>12, <1>13 DEF Next

(* The bound is kept by every step, if who passes has counted fewer than cap. *)
LEMMA WithinStep ==
    ASSUME TypeOK, FewStored, [Next]_vars,
           NEW S \in SUBSET Keys, NEW P \in {AfterGlobal, AfterBacklog}, NEW cap \in Nat,
           Within(S, P, cap), Passes(S, P) => Backlog(S) < cap
    PROVE  Within(S, P, cap)'
  <1> DEFINE Q  == QueuedIn(S)
             H  == HandlersIn(S, P)
             Q2 == QueuedIn(S)'
             H2 == HandlersIn(S, P)'
  <1>1. /\ IsFiniteSet(Q) /\ IsFiniteSet(H)
        /\ Cardinality(Q) \in Nat /\ Cardinality(H) \in Nat /\ Cardinality(Handlers) \in Nat
        /\ Cardinality(Q) <= Backlog(S) /\ Backlog(S) \in Nat
    BY CountsAreFinite
  <1>2. Cardinality(H2) \in Nat /\ Cardinality(H2) <= Cardinality(Handlers)
    <2>1. H2 \in SUBSET Handlers
      BY DEF HandlersIn
    <2> QED
      BY <2>1, FS_Subset, FS_CardinalityType, AdmissionAssumption
  <1>3. Cardinality(Q) + Cardinality(H) < cap + Cardinality(Handlers)
    BY DEF Within
  <1>4. CASE Passes(S, P)
    <2>1. Q2 = Q
      BY <1>4 DEF Passes, QueuedIn
    <2>2. Cardinality(Q) < cap
      BY <1>1, <1>4
    <2>3. Cardinality(Q2) + Cardinality(H2) < cap + Cardinality(Handlers)
      BY <1>1, <1>2, <2>1, <2>2
    <2> QED
      BY <2>3 DEF Within
  <1>5. CASE Stores(S, P)
    <2>1. PICK h \in H, k \in S : Q2 = Q \cup {k} /\ H2 = H \ {h}
      BY <1>5 DEF Stores
    <2>2. Cardinality(Q2) \in {Cardinality(Q), Cardinality(Q) + 1}
      <3> HIDE DEF Q, Q2
      <3> QED
        BY <1>1, <2>1, FS_AddElement
    <2>3. Cardinality(H2) = Cardinality(H) - 1
      <3> HIDE DEF H, H2
      <3> QED
        BY <1>1, <2>1, FS_RemoveElement
    <2>4. Cardinality(Q2) + Cardinality(H2) < cap + Cardinality(Handlers)
      BY <1>1, <1>2, <1>3, <2>2, <2>3
    <2> QED
      BY <2>4 DEF Within
  <1>6. CASE Shrinks(S, P)
    <2>1. Q2 \in SUBSET Q /\ H2 \in SUBSET H
      BY <1>6 DEF Shrinks
    <2>2. /\ Cardinality(Q2) \in Nat
          /\ Cardinality(Q2) <= Cardinality(Q) /\ Cardinality(H2) <= Cardinality(H)
      BY <1>1, <2>1, FS_Subset, FS_CardinalityType
    <2>3. Cardinality(Q2) + Cardinality(H2) < cap + Cardinality(Handlers)
      BY <1>1, <1>2, <1>3, <2>2
    <2> QED
      BY <2>3 DEF Within
  <1> QED
    BY <1>4, <1>5, <1>6, StepOfCounts

CapsWithin ==
    /\ GlobalCap > 0 => Within(Keys, AfterGlobal, GlobalCap)
    /\ QueuedCap > 0 => \A k \in Keys : ConversationOf[k] # NoConversation =>
                           Within(CountedWith(k), AfterBacklog, QueuedCap)

(* Inserting and Counted are counts of HandlersIn. *)
LEMMA OvershootIsWithin == OvershootBounded <=> CapsWithin
  <1>1. ASSUME NEW S
        PROVE  /\ NeverClaimed(S) = Cardinality(QueuedIn(S))
               /\ Counted(S) = Cardinality(HandlersIn(S, AfterGlobal))
               /\ Inserting(S) = Cardinality(HandlersIn(S, AfterBacklog))
    <2>1. {h \in Handlers : At(h, "insert") /\ request[h].key \in S} = HandlersIn(S, AfterBacklog)
      BY DEF HandlersIn, AfterBacklog, At
    <2> QED
      BY <2>1 DEF NeverClaimed, Counted, Inserting, QueuedIn, HandlersIn, AfterGlobal
  <1> QED
    BY <1>1 DEF OvershootBounded, CapsWithin, Within

(* A conversation's keys are counted together, whichever of them is asked for. *)
LEMMA SameConversation ==
    ASSUME NEW k \in Keys, ConversationOf[k] # NoConversation, NEW i \in CountedWith(k)
    PROVE  CountedWith(i) = CountedWith(k)
  BY DEF CountedWith

LEMMA CapsStep == TypeOK /\ FewStored /\ CapsWithin /\ [Next]_vars => CapsWithin'
  <1> SUFFICES ASSUME TypeOK, FewStored, CapsWithin, [Next]_vars
               PROVE  CapsWithin'
    OBVIOUS
  <1>1. ASSUME GlobalCap > 0
        PROVE  Within(Keys, AfterGlobal, GlobalCap)'
    <2>1. Within(Keys, AfterGlobal, GlobalCap)
      BY <1>1 DEF CapsWithin
    <2>2. Passes(Keys, AfterGlobal) => Backlog(Keys) < GlobalCap
      BY <1>1 DEF Passes, Below, AfterGlobal, AfterBacklog
    <2> QED
      BY <2>1, <2>2, WithinStep, AdmissionAssumption
  <1>2. ASSUME QueuedCap > 0, NEW k \in Keys, ConversationOf[k] # NoConversation
        PROVE  Within(CountedWith(k), AfterBacklog, QueuedCap)'
    <2>1. CountedWith(k) \in SUBSET Keys
      BY DEF CountedWith
    <2>2. Within(CountedWith(k), AfterBacklog, QueuedCap)
      BY <1>2 DEF CapsWithin
    <2>3. Passes(CountedWith(k), AfterBacklog) => Backlog(CountedWith(k)) < QueuedCap
      BY <1>2, SameConversation DEF Passes, Below, AfterGlobal, AfterBacklog
    <2> QED
      BY <2>1, <2>2, <2>3, WithinStep, AdmissionAssumption
  <1> QED
    BY <1>1, <1>2 DEF CapsWithin

LEMMA CapsInit == Init => FewStored /\ CapsWithin
  <1> SUFFICES ASSUME Init
               PROVE  FewStored /\ CapsWithin
    OBVIOUS
  <1>1. FewStored
    <2>1. {k \in Keys : Stored(k)} = {}
      BY DEF Init, Stored, Absent
    <2> QED
      BY <2>1, FS_EmptySet DEF FewStored
  <1>2. ASSUME NEW S \in SUBSET Keys, NEW P \in {AfterGlobal, AfterBacklog},
               NEW cap \in Nat, cap > 0
        PROVE  Within(S, P, cap)
    <2>1. QueuedIn(S) = {}
      BY DEF Init, QueuedIn, Absent
    <2>2. HandlersIn(S, P) = {}
      BY DEF Init, HandlersIn, Idle, AfterGlobal, AfterBacklog
    <2>3. Cardinality(Handlers) \in Nat
      BY AdmissionAssumption, FS_CardinalityType
    <2> QED
      BY <1>2, <2>1, <2>2, <2>3, FS_EmptySet DEF Within
  <1>3. \A k \in Keys : CountedWith(k) \in SUBSET Keys
    BY DEF CountedWith
  <1> QED
    BY <1>1, <1>2, <1>3, AdmissionAssumption DEF CapsWithin

(* admission.py:262-299: jobs nobody has claimed exceed a cap by less than the
   number of requests in flight, whatever the pipeline does meanwhile. *)
THEOREM OvershootIsBounded == Spec => []OvershootBounded
  BY InitType, NextType, CapsInit, FewStoredStep, CapsStep, OvershootIsWithin, PTL DEF Spec

=============================================================================
