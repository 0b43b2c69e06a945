------------------------- MODULE PendingActionsProofs -------------------------
(***************************************************************************)
(* What holds of confirming and cancelling for any number of actions and   *)
(* of requests in flight: the two endpoints are admissions, so the caps    *)
(* and answers proved in AdmissionProofs carry over, and a paid job is     *)
(* started at most once, for a confirmed action only.                      *)
(***************************************************************************)
EXTENDS PendingActions, AdmissionProofs

-----------------------------------------------------------------------------
(* Types. *)

Handling == [pc : Steps \cup Verdicts, action : Actions]

(* The place a handler has reached tells whether it is about an action. *)
LEMMA HandlerAt ==
    ASSUME ConfirmTypeOK, NEW h \in Handlers
    PROVE  /\ handling[h] \in Handling \cup {Free}
           /\ handling[h].pc \in Steps \cup Verdicts =>
                 /\ handling[h] \in Handling
                 /\ Of(h) \in Actions
                 /\ KeyOf[Of(h)] \in Keys
                 /\ PayloadOf[Of(h)] \in Payloads
           /\ handling[h] = Free <=> handling[h].pc = "free"
  <1>1. handling[h] \in Handling \cup {Free}
    BY DEF ConfirmTypeOK, Handling
  <1> QED
    BY <1>1, ActionAssumption DEF Handling, Free, Steps, Verdicts, Of

(* A step of a handler, whatever it does to the request and the row. *)
LEMMA StepType ==
    ASSUME ConfirmTypeOK, NEW h \in Handlers, handling[h].pc \in Steps \cup Verdicts,
           NEW pc \in Steps \cup Verdicts, Step(h, pc)
    PROVE  handling' \in [Handlers -> Handling \cup {Free}]
  <1>1. handling \in [Handlers -> Handling \cup {Free}] /\ handling[h] \in Handling
    BY HandlerAt DEF ConfirmTypeOK, Handling
  <1>2. [handling[h] EXCEPT !.pc = pc] \in Handling
    BY <1>1 DEF Handling
  <1>3. handling' = [handling EXCEPT ![h] = [handling[h] EXCEPT !.pc = pc]]
    BY <1>1 DEF Step
  <1> QED
    BY <1>1, <1>2, <1>3

LEMMA StepIsAdmission ==
    ASSUME ConfirmTypeOK, [ConfirmNext]_confirmVars
    PROVE  [Next]_vars
  <1> USE DEF vars
  <1>1. CASE UNCHANGED <<row, request>>
    BY <1>1
  <1>2. ASSUME NEW h \in Handlers, NEW a \in Actions, BeginConfirm(h, a) \/ BeginCancel(h, a)
        PROVE  UNCHANGED <<row, request>>
    BY <1>2 DEF BeginConfirm, BeginCancel, AdmissionOnly
  <1>3. ASSUME NEW h \in Handlers, Consume(h)
        PROVE  [Next]_vars
    <2>1. KeyOf[Of(h)] \in Keys /\ PayloadOf[Of(h)] \in Payloads
      BY <1>3, HandlerAt DEF Consume, Doing, Steps
    <2> QED
      BY <1>3, <2>1 DEF Consume, AdmissionOnly, Next
  <1>4. ASSUME NEW h \in Handlers, RecordJob(h) \/ Interrupt(h) \/ Admitting(h) \/ PlainEnd(h)
        PROVE  [Next]_vars
    BY <1>4 DEF RecordJob, Interrupt, Admitting, PlainEnd, AdmissionOnly, Next
  <1>5. ASSUME NEW h \in Handlers, Recheck(h) \/ Withdraw(h) \/ Reread(h) \/ Close(h)
        PROVE  UNCHANGED <<row, request>>
    BY <1>5 DEF Recheck, Withdraw, Reread, Close, AdmissionOnly
  <1>6. ASSUME NEW h \in Handlers, NEW k \in Keys, NEW p \in Payloads, PlainBegin(h, k, p)
        PROVE  [Next]_vars
    BY <1>6 DEF PlainBegin, Next
  <1>7. ASSUME NEW k \in Keys, Pipeline(k)
        PROVE  [Next]_vars
    BY <1>7 DEF Pipeline, Next
  <1>8. ASSUME NEW a \in Actions, Expire(a)
        PROVE  UNCHANGED <<row, request>>
    BY <1>8 DEF Expire, AdmissionOnly
  <1> QED
    BY <1>1, <1>2, <1>3, <1>4, <1>5, <1>6, <1>7, <1>8 DEF ConfirmNext, confirmVars

LEMMA ConfirmTypeStep ==
    ASSUME ConfirmTypeOK, [ConfirmNext]_confirmVars
    PROVE  ConfirmTypeOK'
  <1> DEFINE ActionType   == action \in [Actions -> ActionRow]
             HandlingType == handling \in [Handlers -> Handling \cup {Free}]
             GhostType    == interrupted \subseteq Actions
  <1>1. ActionType /\ HandlingType /\ GhostType /\ TypeOK
    BY DEF ConfirmTypeOK, Handling
  <1>2. TypeOK'
    BY <1>1, NextType, StepIsAdmission
  <1> SUFFICES (ActionType /\ HandlingType /\ GhostType)'
    BY <1>2 DEF ConfirmTypeOK, Handling
  <1> USE DEF Steps, Verdicts
  <1>3. ASSUME NEW h \in Handlers, NEW a \in Actions, BeginConfirm(h, a) \/ BeginCancel(h, a)
        PROVE  (ActionType /\ HandlingType /\ GhostType)'
    <2>1. action[a] \in ActionRow
      BY <1>1
    <2>2. \A pc \in Steps \cup Verdicts : [pc |-> pc, action |-> a] \in Handling
      BY DEF Handling
    <2>3. EvaluateConfirmation(a) \in Steps \cup Verdicts /\ EvaluateCancellation(a) \in Steps \cup Verdicts
      BY <2>1 DEF EvaluateConfirmation, EvaluateCancellation, ActionRow
    <2> QED
      BY <1>1, <1>3, <2>2, <2>3 DEF BeginConfirm, BeginCancel, Open
  <1>4. ASSUME NEW h \in Handlers, Consume(h)
        PROVE  (ActionType /\ HandlingType /\ GhostType)'
    <2>1. HandlingType'
      BY <1>4, StepType DEF Consume, Doing
    <2>2. ActionType'
      BY <1>1, <1>4, HandlerAt DEF Consume, Doing, ActionRow
    <2> QED
      BY <1>1, <1>4, <2>1, <2>2 DEF Consume
  <1>5. ASSUME NEW h \in Handlers, Recheck(h) \/ Withdraw(h) \/ Reread(h)
        PROVE  (ActionType /\ HandlingType /\ GhostType)'
    <2>1. HandlingType'
      BY <1>5, StepType DEF Recheck, Withdraw, Reread, Doing
    <2>2. ActionType'
      BY <1>1, <1>5, HandlerAt DEF Recheck, Withdraw, Reread, Doing, ActionRow
    <2> QED
      BY <1>1, <1>5, <2>1, <2>2 DEF Recheck, Withdraw, Reread
  <1>6. ASSUME NEW h \in Handlers, RecordJob(h)
        PROVE  (ActionType /\ HandlingType /\ GhostType)'
    <2>1. HandlingType'
      BY <1>6, StepType DEF RecordJob, Doing
    <2>2. Of(h) \in Actions
      BY <1>6, HandlerAt DEF RecordJob, Doing
    <2>3. (request[h].answer \in {"created", "replayed"}) \in BOOLEAN
      OBVIOUS
    <2>4. ActionType'
      BY <1>1, <1>6, <2>2, <2>3 DEF RecordJob, ActionRow
    <2> QED
      BY <1>1, <1>6, <2>1, <2>2, <2>4 DEF RecordJob
  <1>7. ASSUME NEW h \in Handlers, Interrupt(h) \/ Close(h)
        PROVE  (ActionType /\ HandlingType /\ GhostType)'
    BY <1>1, <1>7, HandlerAt DEF Interrupt, Close, Doing, AdmissionOnly
  <1>8. ASSUME NEW a \in Actions, Expire(a)
        PROVE  (ActionType /\ HandlingType /\ GhostType)'
    BY <1>1, <1>8 DEF Expire, ActionRow
  <1>9. CASE UNCHANGED <<action, handling, interrupted>>
    BY <1>1, <1>9
  <1> QED
    BY <1>3, <1>4, <1>5, <1>6, <1>7, <1>8, <1>9
       DEF ConfirmNext, confirmVars, Admitting, PlainEnd, PlainBegin, Pipeline, ActionsOnly

LEMMA ConfirmTypeInit == ConfirmInit => ConfirmTypeOK
  BY InitType DEF ConfirmInit, ConfirmTypeOK, ActionRow, Free

(* The rows of actions and of handlers keep their types. *)
THEOREM ConfirmTypeCorrect == ConfirmSpec => []ConfirmTypeOK
  BY ConfirmTypeInit, ConfirmTypeStep, PTL DEF ConfirmSpec

(* chat_router.py:812-836: confirm asks for its job as any other request
   does. *)
THEOREM ConfirmIsAdmission == ConfirmSpec => ConfirmImplementsAdmission
  <1>1. ConfirmInit => Init
    BY DEF ConfirmInit
  <1> QED
    BY <1>1, StepIsAdmission, ConfirmTypeCorrect, PTL DEF ConfirmSpec, Spec, ConfirmImplementsAdmission

-----------------------------------------------------------------------------
(* Whose admission a handler is in. *)

(* A handler that admits a job for an action asks under the action's key and
   with its parameters; any other admission is a plain request's. *)
LinkedAt(h) ==
    /\ Doing(h, "admit") => /\ ~At(h, "idle")
                            /\ request[h].key = KeyOf[Of(h)]
                            /\ request[h].payload = PayloadOf[Of(h)]
    /\ (~Doing(h, "admit") /\ ~At(h, "idle")) => /\ handling[h] = Free
                                                /\ ~NewAction(request[h].key)

Linked == \A h \in Handlers : LinkedAt(h)

(* Find, the counts and Insert move the request on and keep what it asks. *)
LEMMA AdmittingKeeps ==
    ASSUME ConfirmTypeOK, NEW h \in Handlers, Admitting(h)
    PROVE  /\ handling' = handling
           /\ ~At(h, "idle") /\ ~At(h, "idle")'
           /\ request'[h].key = request[h].key
           /\ request'[h].payload = request[h].payload
           /\ \A g \in Handlers : g # h => request'[g] = request[g]
  <1>1. request \in [Handlers -> Pending \cup Answered \cup {Idle}]
    BY DEF ConfirmTypeOK, TypeOK
  <1>2. request[h] \in Pending
    BY RequestAt DEF Admitting, Find, CountGlobal, CountBacklog, Insert, At, ConfirmTypeOK
  <1>3. \/ \E pc \in {"global", "backlog", "insert"} : Go(h, pc)
        \/ \E answer \in {"replayed", "conflict", "full", "error", "created"} : Answer(h, answer)
    BY DEF Admitting, Find, CountGlobal, CountBacklog, Insert, CheckIdempotency
  <1>4. request'[h].key = request[h].key /\ request'[h].payload = request[h].payload
        /\ request'[h].pc \in {"global", "backlog", "insert", "answered"}
        /\ \A g \in Handlers : g # h => request'[g] = request[g]
    BY <1>1, <1>2, <1>3 DEF Go, Answer, Pending
  <1> QED
    BY <1>2, <1>4 DEF Admitting, ActionsOnly, At, Pending

LEMMA LinkedStep ==
    ASSUME ConfirmTypeOK, Linked, [ConfirmNext]_confirmVars
    PROVE  Linked'
  <1> SUFFICES ASSUME NEW g \in Handlers
               PROVE  LinkedAt(g)'
    BY DEF Linked
  <1>1. LinkedAt(g)
    BY DEF Linked
  <1>2. handling \in [Handlers -> Handling \cup {Free}]
        /\ request \in [Handlers -> Pending \cup Answered \cup {Idle}]
    BY DEF ConfirmTypeOK, TypeOK, Handling
  <1>3. ASSUME handling'[g] = handling[g], request'[g] = request[g]
        PROVE  LinkedAt(g)'
    BY <1>1, <1>3 DEF LinkedAt, Doing, At, Of
  <1>4. ASSUME handling'[g].pc # "admit", At(g, "idle")'
        PROVE  LinkedAt(g)'
    BY <1>4 DEF LinkedAt, Doing
  <1>5. ASSUME NEW h \in Handlers, NEW a \in Actions, BeginConfirm(h, a) \/ BeginCancel(h, a)
        PROVE  LinkedAt(g)'
    <2>1. EvaluateConfirmation(a) # "admit" /\ EvaluateCancellation(a) # "admit"
      <3>1. action[a].status \in {"pending", "confirmed", "cancelled"}
        BY DEF ConfirmTypeOK, ActionRow
      <3> QED
        BY <3>1 DEF EvaluateConfirmation, EvaluateCancellation
    <2>2. UNCHANGED request /\ At(h, "idle")
      BY <1>5 DEF BeginConfirm, BeginCancel, AdmissionOnly, Open
    <2>3. CASE g = h
      <3>1. handling'[g].pc # "admit"
        BY <1>2, <1>5, <2>1, <2>3 DEF BeginConfirm, BeginCancel, Open
      <3> QED
        BY <1>4, <2>2, <2>3, <3>1 DEF At
    <2>4. CASE g # h
      BY <1>2, <1>3, <1>5, <2>2, <2>4 DEF BeginConfirm, BeginCancel, Open
    <2> QED
      BY <2>3, <2>4
  <1>6. ASSUME NEW h \in Handlers, Consume(h)
        PROVE  LinkedAt(g)'
    <2>1. handling[h] \in Handling
      BY <1>6, HandlerAt DEF Consume, Doing, Steps
    <2>2. CASE g # h
      BY <1>2, <1>3, <1>6, <2>2 DEF Consume, Begin, Step, AdmissionOnly
    <2>3. CASE g = h /\ action[Of(h)].status = "pending"
      <3>1. handling'[g].action = handling[g].action
        BY <1>2, <1>6, <2>1, <2>3 DEF Consume, Step, Handling
      <3>2. handling'[g].pc = "admit"
        BY <1>2, <1>6, <2>1, <2>3 DEF Consume, Step, Handling
      <3>3. request'[g] = [pc |-> "find", key |-> KeyOf[Of(h)], payload |-> PayloadOf[Of(h)]]
        BY <1>2, <1>6, <2>3 DEF Consume, Begin
      <3> QED
        BY <2>3, <3>1, <3>2, <3>3 DEF LinkedAt, Doing, Of, At
    <2>4. CASE g = h /\ action[Of(h)].status # "pending"
      <3>1. handling[g] # Free /\ ~Doing(g, "admit")
        BY <1>6, <2>4, HandlerAt DEF Consume, Doing, Steps
      <3>2. At(g, "idle")
        BY <1>1, <3>1 DEF LinkedAt
      <3>3. handling'[g].pc = "recheck" /\ request' = request
        BY <1>2, <1>6, <2>1, <2>4 DEF Consume, Step, AdmissionOnly, Handling
      <3> QED
        BY <1>4, <3>2, <3>3 DEF At
    <2> QED
      BY <2>2, <2>3, <2>4
  <1>7. ASSUME NEW h \in Handlers, Recheck(h) \/ Withdraw(h) \/ Reread(h) \/ Close(h)
        PROVE  LinkedAt(g)'
    <2>1. handling[h] \in Handling /\ handling[h] # Free /\ ~Doing(h, "admit")
      BY <1>7, HandlerAt DEF Recheck, Withdraw, Reread, Close, Doing, Steps, Verdicts
    <2>2. UNCHANGED request
      BY <1>7 DEF Recheck, Withdraw, Reread, Close, AdmissionOnly
    <2>3. CASE g # h
      BY <1>2, <1>3, <1>7, <2>2, <2>3 DEF Recheck, Withdraw, Reread, Close, Step
    <2>4. CASE g = h
      <3>1. At(g, "idle")
        BY <1>1, <2>1, <2>4 DEF LinkedAt
      <3>2. handling'[g].pc # "admit"
        BY <1>2, <1>7, <2>1, <2>4 DEF Recheck, Withdraw, Reread, Close, Step, Handling, Free
      <3> QED
        BY <1>4, <2>2, <3>1, <3>2 DEF At
    <2> QED
      BY <2>3, <2>4
  <1>8. ASSUME NEW h \in Handlers, RecordJob(h) \/ Interrupt(h)
        PROVE  LinkedAt(g)'
    <2>1. handling[h] \in Handling /\ handling[h] # Free
      BY <1>8, HandlerAt DEF RecordJob, Interrupt, Doing, Steps
    <2>2. CASE g # h
      BY <1>2, <1>3, <1>8, <2>2 DEF RecordJob, Interrupt, Step, Fail, Finish, AdmissionOnly
    <2>3. CASE g = h
      <3>1. handling'[g].pc # "admit"
        BY <1>2, <1>8, <2>1, <2>3 DEF RecordJob, Interrupt, Step, Handling, Free
      <3>2. At(g, "idle")'
        <4>1. CASE Doing(h, "admit")
          BY <1>2, <1>8, <2>3, <4>1 DEF RecordJob, Interrupt, Fail, Finish, At, Idle
        <4>2. CASE ~Doing(h, "admit")
          BY <1>1, <1>8, <2>1, <2>3, <4>2 DEF RecordJob, Interrupt, AdmissionOnly, LinkedAt, At
        <4> QED
          BY <4>1, <4>2
      <3> QED
        BY <1>4, <3>1, <3>2
    <2> QED
      BY <2>2, <2>3
  <1>9. ASSUME NEW h \in Handlers, Admitting(h)
        PROVE  LinkedAt(g)'
    <2>1. CASE g # h
      BY <1>3, <1>9, <2>1, AdmittingKeeps
    <2>2. CASE g = h
      BY <1>1, <1>9, <2>2, AdmittingKeeps DEF LinkedAt, Doing, Of
    <2> QED
      BY <2>1, <2>2
  <1>10. ASSUME NEW h \in Handlers, NEW k \in Keys, NEW p \in Payloads, PlainBegin(h, k, p)
         PROVE  LinkedAt(g)'
    <2>1. CASE g # h
      BY <1>2, <1>3, <1>10, <2>1 DEF PlainBegin, Begin, ActionsOnly
    <2>2. CASE g = h
      BY <1>2, <1>10, <2>2 DEF PlainBegin, Begin, ActionsOnly, LinkedAt, Doing, Free
    <2> QED
      BY <2>1, <2>2
  <1>11. ASSUME NEW h \in Handlers, PlainEnd(h)
         PROVE  LinkedAt(g)'
    <2>1. CASE g # h
      BY <1>2, <1>3, <1>11, <2>1 DEF PlainEnd, Fail, Finish, ActionsOnly
    <2>2. CASE g = h
      BY <1>2, <1>4, <1>11, <2>2 DEF PlainEnd, Fail, Finish, ActionsOnly, At, Idle, Free
    <2> QED
      BY <2>1, <2>2
  <1>12. ASSUME UNCHANGED <<request, handling>>
         PROVE  LinkedAt(g)'
    BY <1>3, <1>12
  <1> QED
    BY <1>5, <1>6, <1>7, <1>8, <1>9, <1>10, <1>11, <1>12
       DEF ConfirmNext, confirmVars, Pipeline, JobLeaves, JobReturns, ActionsOnly, Expire, AdmissionOnly

-----------------------------------------------------------------------------
(* What a step does to one action. *)

(* At most a cancel, or a job stored by the handler that admits it. *)
LeavesAlone(a) ==
    /\ AdmittingFor(a)' = AdmittingFor(a)
    /\ action'[a].recorded = action[a].recorded
    /\ \/ action'[a].status = action[a].status
       \/ action[a].status = "pending" /\ action'[a].status = "cancelled"
    /\ a \in interrupted => a \in interrupted'
    /\ Stored(KeyOf[a])' => Stored(KeyOf[a]) \/ AdmittingFor(a) # {}

(* A confirm consumes it. *)
Starts(h, a) ==
    /\ AdmittingFor(a)' = AdmittingFor(a) \cup {h}
    /\ action[a].status = "pending" /\ action'[a].status = "confirmed"
    /\ action'[a].recorded = action[a].recorded
    /\ row' = row

(* Its admission ends, with a job or not. *)
Ends(h, a) ==
    /\ h \in AdmittingFor(a)
    /\ AdmittingFor(a)' = AdmittingFor(a) \ {h}
    /\ action'[a].status = action[a].status
    /\ row' = row
    /\ \/ /\ At(h, "answered") /\ request[h].answer \in {"created", "replayed"}
          /\ action'[a].recorded = TRUE
       \/ action'[a].recorded \in {FALSE, action[a].recorded} /\ a \in interrupted'

Effect(a) == LeavesAlone(a) \/ \E h \in Handlers : Starts(h, a) \/ Ends(h, a)

LEMMA AdmittingForStep ==
    ASSUME NEW a \in Actions, NEW h \in Handlers,
           \A g \in Handlers : g # h => handling'[g] = handling[g]
    PROVE  LET before == handling[h].pc = "admit" /\ handling[h].action = a
               after  == handling'[h].pc = "admit" /\ handling'[h].action = a
           IN  /\ ~before /\ ~after => AdmittingFor(a)' = AdmittingFor(a)
               /\ after => AdmittingFor(a)' = AdmittingFor(a) \cup {h}
               /\ before /\ ~after => h \in AdmittingFor(a) /\ AdmittingFor(a)' = AdmittingFor(a) \ {h}
  <1>1. AdmittingFor(a) = {g \in Handlers : handling[g].pc = "admit" /\ handling[g].action = a}
        /\ AdmittingFor(a)' = {g \in Handlers : handling'[g].pc = "admit" /\ handling'[g].action = a}
    BY DEF AdmittingFor, Doing, Of
  <1> QED
    BY <1>1

LEMMA StepEffect ==
    ASSUME ConfirmTypeOK, Linked, [ConfirmNext]_confirmVars, NEW a \in Actions
    PROVE  Effect(a)
  <1>1. handling \in [Handlers -> Handling \cup {Free}] /\ action \in [Actions -> ActionRow]
        /\ row \in [Keys -> Rows \cup {Absent}]
    BY DEF ConfirmTypeOK, TypeOK, Handling
  <1>2. action[a] \in ActionRow /\ KeyOf[a] \in Keys
    BY <1>1, ActionAssumption
  <1>3. ASSUME UNCHANGED <<row, action, interrupted>>, AdmittingFor(a)' = AdmittingFor(a)
        PROVE  LeavesAlone(a)
    BY <1>3 DEF LeavesAlone, Stored
  <1>4. ASSUME NEW h \in Handlers, NEW b \in Actions, BeginConfirm(h, b) \/ BeginCancel(h, b)
        PROVE  LeavesAlone(a)
    <2>1. action[b].status \in {"pending", "confirmed", "cancelled"}
      BY <1>1 DEF ActionRow
    <2>2. EvaluateConfirmation(b) # "admit" /\ EvaluateCancellation(b) # "admit"
      BY <2>1 DEF EvaluateConfirmation, EvaluateCancellation
    <2>3. handling'[h].pc # "admit" /\ handling[h].pc # "admit"
          /\ \A g \in Handlers : g # h => handling'[g] = handling[g]
      BY <1>1, <1>4, <2>2 DEF BeginConfirm, BeginCancel, Open, Free
    <2>4. AdmittingFor(a)' = AdmittingFor(a)
      BY <2>3, AdmittingForStep
    <2> QED
      BY <1>3, <1>4, <2>4 DEF BeginConfirm, BeginCancel, AdmissionOnly
  <1>5. ASSUME NEW h \in Handlers, Consume(h)
        PROVE  Effect(a)
    <2>1. handling[h] \in Handling /\ Of(h) \in Actions /\ handling[h].pc = "consume"
      BY <1>5, HandlerAt DEF Consume, Doing, Steps
    <2>2. \A g \in Handlers : g # h => handling'[g] = handling[g]
      BY <1>1, <1>5 DEF Consume, Step
    <2>3. CASE action[Of(h)].status = "pending"
      <3>1. handling'[h].pc = "admit" /\ handling'[h].action = Of(h)
        BY <1>1, <1>5, <2>1, <2>3 DEF Consume, Step, Handling, Of
      <3>2. row' = row /\ interrupted' = interrupted
            /\ action' = [action EXCEPT ![Of(h)].status = "confirmed"]
        BY <1>5, <2>3 DEF Consume, Begin
      <3>3. CASE a = Of(h)
        <4>1. AdmittingFor(a)' = AdmittingFor(a) \cup {h}
          BY <2>2, <3>1, <3>3, AdmittingForStep
        <4>2. action'[a].status = "confirmed" /\ action'[a].recorded = action[a].recorded
          BY <1>1, <1>2, <3>2, <3>3 DEF ActionRow
        <4> QED
          BY <2>3, <3>2, <3>3, <4>1, <4>2 DEF Effect, Starts
      <3>4. CASE a # Of(h)
        <4>1. AdmittingFor(a)' = AdmittingFor(a)
          BY <2>1, <2>2, <3>1, <3>4, AdmittingForStep
        <4>2. action'[a] = action[a]
          BY <1>1, <3>2, <3>4
        <4> QED
          BY <3>2, <4>1, <4>2 DEF Effect, LeavesAlone, Stored
      <3> QED
        BY <3>3, <3>4
    <2>4. CASE action[Of(h)].status # "pending"
      <3>1. handling'[h].pc = "recheck" /\ UNCHANGED <<row, action, interrupted>>
        BY <1>1, <1>5, <2>1, <2>4 DEF Consume, Step, AdmissionOnly, Handling
      <3>2. AdmittingFor(a)' = AdmittingFor(a)
        BY <2>1, <2>2, <3>1, AdmittingForStep
      <3> QED
        BY <1>3, <3>1, <3>2 DEF Effect
    <2> QED
      BY <2>3, <2>4
  <1>6. ASSUME NEW h \in Handlers, Recheck(h) \/ Withdraw(h) \/ Reread(h) \/ Close(h)
        PROVE  LeavesAlone(a)
    <2>1. handling[h] \in Handling /\ handling[h].pc # "admit" /\ Of(h) \in Actions
      BY <1>6, HandlerAt DEF Recheck, Withdraw, Reread, Close, Doing, Steps, Verdicts
    <2>2. handling'[h].pc # "admit" /\ \A g \in Handlers : g # h => handling'[g] = handling[g]
      BY <1>1, <1>6, <2>1 DEF Recheck, Withdraw, Reread, Close, Step, Handling, Free
    <2>3. AdmittingFor(a)' = AdmittingFor(a)
      BY <2>1, <2>2, AdmittingForStep
    <2>4. CASE action' = action
      BY <1>3, <1>6, <2>3, <2>4 DEF Recheck, Withdraw, Reread, Close, AdmissionOnly
    <2>5. CASE action' # action
      <3>1. Withdraw(h) /\ action[Of(h)].status = "pending"
            /\ action' = [action EXCEPT ![Of(h)].status = "cancelled"]
        BY <1>6, <2>5 DEF Recheck, Withdraw, Reread, Close, AdmissionOnly
      <3>2. action'[a].recorded = action[a].recorded
            /\ \/ action'[a].status = action[a].status
               \/ action[a].status = "pending" /\ action'[a].status = "cancelled"
        BY <1>1, <1>2, <2>1, <3>1 DEF ActionRow
      <3> QED
        BY <2>3, <3>1, <3>2 DEF LeavesAlone, Withdraw, AdmissionOnly, Stored
    <2> QED
      BY <2>4, <2>5
  <1>7. ASSUME NEW h \in Handlers, RecordJob(h)
        PROVE  Effect(a)
    <2>1. handling[h] \in Handling /\ Of(h) \in Actions /\ handling[h].pc = "admit"
      BY <1>7, HandlerAt DEF RecordJob, Doing, Steps
    <2>2. handling'[h].pc # "admit" /\ \A g \in Handlers : g # h => handling'[g] = handling[g]
      BY <1>1, <1>7, <2>1 DEF RecordJob, Step, Handling
    <2> DEFINE admitted == request[h].answer \in {"created", "replayed"}
    <2>3. row' = row /\ At(h, "answered")
          /\ action' = [action EXCEPT ![Of(h)].recorded = admitted]
          /\ (~admitted => Of(h) \in interrupted') /\ (admitted => interrupted' = interrupted)
          /\ interrupted' \in {interrupted, interrupted \cup {Of(h)}}
      BY <1>7 DEF RecordJob, Finish
    <2>4. CASE a = Of(h)
      <3>1. h \in AdmittingFor(a) /\ AdmittingFor(a)' = AdmittingFor(a) \ {h}
        BY <2>1, <2>2, <2>4, AdmittingForStep DEF Of
      <3>2. action'[a].status = action[a].status /\ action'[a].recorded = admitted
        BY <1>1, <1>2, <2>3, <2>4 DEF ActionRow
      <3>3. CASE admitted
        <4>1. action'[a].recorded = TRUE
          BY <3>2, <3>3, Zenon
        <4> QED
          BY <2>3, <2>4, <3>1, <3>2, <3>3, <4>1 DEF Effect, Ends
      <3>4. CASE ~admitted
        <4>1. admitted = FALSE
          BY <3>4
        <4>2. action'[a].recorded = FALSE
          BY <3>2, <4>1, Zenon
        <4> QED
          BY <2>3, <2>4, <3>1, <3>2, <3>4, <4>2 DEF Effect, Ends
      <3> QED
        BY <3>3, <3>4
    <2>5. CASE a # Of(h)
      <3>1. AdmittingFor(a)' = AdmittingFor(a)
        BY <2>1, <2>2, <2>5, AdmittingForStep DEF Of
      <3>2. action'[a] = action[a]
        BY <1>1, <2>3, <2>5
      <3> QED
        BY <2>3, <2>5, <3>1, <3>2 DEF Effect, LeavesAlone, Stored
    <2> QED
      BY <2>4, <2>5
  <1>8. ASSUME NEW h \in Handlers, Interrupt(h)
        PROVE  Effect(a)
    <2>1. handling[h] \in Handling /\ Of(h) \in Actions
      BY <1>8, HandlerAt DEF Interrupt
    <2>2. handling'[h].pc # "admit" /\ \A g \in Handlers : g # h => handling'[g] = handling[g]
      BY <1>1, <1>8 DEF Interrupt, Free
    <2>3. row' = row /\ action' = action
      BY <1>8 DEF Interrupt, Fail, Finish, AdmissionOnly
    <2>4. CASE handling[h].pc = "admit" /\ a = Of(h)
      <3>1. h \in AdmittingFor(a) /\ AdmittingFor(a)' = AdmittingFor(a) \ {h}
        BY <2>2, <2>4, AdmittingForStep DEF Of
      <3>2. a \in interrupted'
        BY <1>8, <2>4 DEF Interrupt, Doing
      <3> QED
        BY <2>3, <3>1, <3>2 DEF Effect, Ends
    <2>5. CASE ~(handling[h].pc = "admit" /\ a = Of(h))
      <3>1. AdmittingFor(a)' = AdmittingFor(a)
        BY <2>2, <2>5, AdmittingForStep DEF Of
      <3>2. interrupted' \in {interrupted, interrupted \cup {Of(h)}}
            /\ (a = Of(h) => interrupted' = interrupted)
        BY <1>8, <2>5 DEF Interrupt, Doing
      <3> QED
        BY <2>3, <3>1, <3>2 DEF Effect, LeavesAlone, Stored
    <2> QED
      BY <2>4, <2>5
  <1>9. ASSUME NEW h \in Handlers, Admitting(h) \/ PlainEnd(h)
        PROVE  LeavesAlone(a)
    <2>1. UNCHANGED <<action, handling, interrupted>>
      BY <1>9 DEF Admitting, PlainEnd, ActionsOnly
    <2>2. AdmittingFor(a)' = AdmittingFor(a)
      BY <2>1 DEF AdmittingFor, Doing, Of
    <2>3. ASSUME Stored(KeyOf[a])', ~Stored(KeyOf[a])
          PROVE  AdmittingFor(a) # {}
      <3>1. row' # row
        BY <2>3 DEF Stored
      <3>2. Insert(h) /\ row' = [row EXCEPT ![request[h].key] =
                                   [state |-> "queued", payload |-> request[h].payload]]
        BY <1>9, <3>1 DEF Admitting, PlainEnd, Find, CountGlobal, CountBacklog, Insert, Fail, Finish
      <3>3. request[h].key = KeyOf[a]
        BY <1>1, <1>2, <2>3, <3>2 DEF Stored
      <3>4. NewAction(request[h].key) /\ ~At(h, "idle")
        BY <3>2, <3>3 DEF NewAction, Insert, At
      <3>5. Doing(h, "admit") /\ request[h].key = KeyOf[Of(h)]
        BY <3>4 DEF Linked, LinkedAt
      <3>6. Of(h) \in Actions
        BY <3>5, HandlerAt DEF Doing, Steps
      <3>7. Of(h) = a
        BY <3>3, <3>5, <3>6, ActionAssumption
      <3> QED
        BY <3>5, <3>7 DEF AdmittingFor
    <2> QED
      BY <2>1, <2>2, <2>3 DEF LeavesAlone
  <1>10. ASSUME NEW k \in Keys, Pipeline(k)
         PROVE  LeavesAlone(a)
    <2>1. UNCHANGED <<action, handling, interrupted>>
      BY <1>10 DEF Pipeline, ActionsOnly
    <2>2. Stored(KeyOf[a])' => Stored(KeyOf[a])
      BY <1>1, <1>2, <1>10 DEF Pipeline, JobLeaves, JobReturns, Waiting, Stored
    <2> QED
      BY <2>1, <2>2 DEF LeavesAlone, AdmittingFor, Doing, Of
  <1>11. ASSUME NEW b \in Actions, Expire(b)
         PROVE  LeavesAlone(a)
    <2>1. UNCHANGED <<row, handling, interrupted>>
      BY <1>11 DEF Expire, AdmissionOnly
    <2>2. action'[a].status = action[a].status /\ action'[a].recorded = action[a].recorded
      BY <1>1, <1>2, <1>11 DEF Expire, ActionRow
    <2> QED
      BY <2>1, <2>2 DEF LeavesAlone, AdmittingFor, Doing, Of, Stored
  <1>12. ASSUME UNCHANGED <<row, action, handling, interrupted>>
         PROVE  LeavesAlone(a)
    BY <1>3, <1>12 DEF AdmittingFor, Doing, Of
  <1>13. ASSUME NEW h \in Handlers, NEW k \in Keys, NEW p \in Payloads, PlainBegin(h, k, p)
         PROVE  LeavesAlone(a)
    BY <1>12, <1>13 DEF PlainBegin, Begin, ActionsOnly
  <1> QED
    BY <1>4, <1>5, <1>6, <1>7, <1>8, <1>9, <1>10, <1>11, <1>12, <1>13
       DEF ConfirmNext, confirmVars, Effect

-----------------------------------------------------------------------------
(* Confirmed actions and their jobs. *)

(* One handler admits at a time, and not once a job is recorded; what is
   recorded is a job of the confirmed parameters. *)
OneJob ==
    \A a \in Actions :
        /\ \A g, h \in AdmittingFor(a) : g = h
        /\ AdmittingFor(a) # {} => ~action[a].recorded
        /\ action[a].recorded => /\ Stored(KeyOf[a])
                                 /\ row[KeyOf[a]].payload = PayloadOf[a]

ConfirmInv ==
    /\ ConfirmTypeOK
    /\ Linked
    /\ AnswerIsTheRequest
    /\ OnlyConfirmedHaveJobs
    /\ OneJob

LEMMA OnlyConfirmedStep ==
    ASSUME ConfirmTypeOK, Linked, OnlyConfirmedHaveJobs, [ConfirmNext]_confirmVars
    PROVE  OnlyConfirmedHaveJobs'
  <1> SUFFICES ASSUME NEW a \in Actions,
                      (AdmittingFor(a) # {} \/ Stored(KeyOf[a]) \/ action[a].recorded)'
               PROVE  action'[a].status = "confirmed"
    BY DEF OnlyConfirmedHaveJobs
  <1>1. (AdmittingFor(a) # {} \/ Stored(KeyOf[a]) \/ action[a].recorded)
            => action[a].status = "confirmed"
    BY DEF OnlyConfirmedHaveJobs
  <1>2. CASE LeavesAlone(a)
    BY <1>1, <1>2 DEF LeavesAlone
  <1>3. ASSUME NEW h \in Handlers, Starts(h, a)
        PROVE  action'[a].status = "confirmed"
    BY <1>3 DEF Starts
  <1>4. ASSUME NEW h \in Handlers, Ends(h, a)
        PROVE  action'[a].status = "confirmed"
    BY <1>1, <1>4 DEF Ends
  <1> QED
    BY <1>2, <1>3, <1>4, StepEffect DEF Effect

(* Who ends an admission with a job finds its row, with its parameters. *)
LEMMA RecordedIsStored ==
    ASSUME ConfirmInv, NEW a \in Actions, NEW h \in AdmittingFor(a),
           At(h, "answered"), request[h].answer \in {"created", "replayed"}
    PROVE  Stored(KeyOf[a]) /\ row[KeyOf[a]].payload = PayloadOf[a]
  <1>1. h \in Handlers /\ Doing(h, "admit") /\ Of(h) = a
    BY DEF AdmittingFor
  <1>2. request[h].key = KeyOf[a] /\ request[h].payload = PayloadOf[a]
    BY <1>1 DEF ConfirmInv, Linked, LinkedAt
  <1>3. row[KeyOf[a]].payload = PayloadOf[a]
    BY <1>1, <1>2 DEF ConfirmInv, AnswerIsTheRequest
  <1>4. KeyOf[a] \in Keys /\ PayloadOf[a] # NoPayload
    BY ActionAssumption, AdmissionAssumption
  <1>5. row[KeyOf[a]] # Absent
    BY <1>3, <1>4 DEF Absent
  <1> QED
    BY <1>3, <1>4, <1>5, RowMoves DEF ConfirmInv, ConfirmTypeOK

LEMMA OneJobStep ==
    ASSUME ConfirmInv, [ConfirmNext]_confirmVars
    PROVE  OneJob'
  <1> SUFFICES ASSUME NEW a \in Actions
               PROVE  (/\ \A g, h \in AdmittingFor(a) : g = h
                       /\ AdmittingFor(a) # {} => ~action[a].recorded
                       /\ action[a].recorded => /\ Stored(KeyOf[a])
                                                /\ row[KeyOf[a]].payload = PayloadOf[a])'
    BY DEF OneJob
  <1>1. /\ \A g, h \in AdmittingFor(a) : g = h
        /\ AdmittingFor(a) # {} => ~action[a].recorded
        /\ action[a].recorded => Stored(KeyOf[a]) /\ row[KeyOf[a]].payload = PayloadOf[a]
        /\ (AdmittingFor(a) # {} \/ Stored(KeyOf[a]) \/ action[a].recorded)
              => action[a].status = "confirmed"
    BY DEF ConfirmInv, OneJob, OnlyConfirmedHaveJobs
  <1>2. Stored(KeyOf[a]) => Stored(KeyOf[a])' /\ row'[KeyOf[a]].payload = row[KeyOf[a]].payload
    BY PayloadStays, StepIsAdmission, ActionAssumption DEF ConfirmInv, ConfirmTypeOK
  <1>3. CASE LeavesAlone(a)
    BY <1>1, <1>2, <1>3 DEF LeavesAlone
  <1>4. ASSUME NEW h \in Handlers, Starts(h, a)
        PROVE  AdmittingFor(a)' = {h} /\ ~action'[a].recorded
    BY <1>1, <1>4 DEF Starts
  <1>5. ASSUME NEW h \in Handlers, Ends(h, a)
        PROVE  /\ AdmittingFor(a)' = {}
               /\ action'[a].recorded => Stored(KeyOf[a])' /\ row'[KeyOf[a]].payload = PayloadOf[a]
    <2>1. h \in AdmittingFor(a) /\ AdmittingFor(a)' = {} /\ ~action[a].recorded /\ row' = row
      BY <1>1, <1>5 DEF Ends
    <2>2. CASE At(h, "answered") /\ request[h].answer \in {"created", "replayed"}
      BY <1>2, <2>1, <2>2, RecordedIsStored
    <2>3. CASE action'[a].recorded \in {FALSE, action[a].recorded}
      BY <2>1, <2>3
    <2> QED
      BY <1>5, <2>1, <2>2, <2>3 DEF Ends
  <1> QED
    BY <1>3, <1>4, <1>5, StepEffect DEF Effect, ConfirmInv

LEMMA ConfirmInvInit == ConfirmInit => ConfirmInv
  <1> SUFFICES ASSUME ConfirmInit
               PROVE  ConfirmInv
    OBVIOUS
  <1>1. \A h \in Handlers : At(h, "idle") /\ ~Doing(h, "admit")
    BY DEF ConfirmInit, Init, Idle, Free, At, Doing
  <1>2. \A a \in Actions : AdmittingFor(a) = {} /\ ~action[a].recorded /\ ~Stored(KeyOf[a])
    BY <1>1, ActionAssumption DEF ConfirmInit, Init, AdmittingFor, Stored, Absent
  <1>3. AnswerIsTheRequest
    BY <1>1 DEF AnswerIsTheRequest, At
  <1> QED
    BY <1>1, <1>2, <1>3, ConfirmTypeInit
       DEF ConfirmInv, Linked, LinkedAt, OnlyConfirmedHaveJobs, OneJob

LEMMA ConfirmInvStep == ConfirmInv /\ [ConfirmNext]_confirmVars => ConfirmInv'
  <1> SUFFICES ASSUME ConfirmInv, [ConfirmNext]_confirmVars
               PROVE  ConfirmInv'
    OBVIOUS
  <1>1. AnswerIsTheRequest'
    BY AnswerStep, StepIsAdmission DEF ConfirmInv, ConfirmTypeOK
  <1> QED
    BY <1>1, ConfirmTypeStep, LinkedStep, OnlyConfirmedStep, OneJobStep DEF ConfirmInv

LEMMA ConfirmInvHolds == ConfirmSpec => []ConfirmInv
  BY ConfirmInvInit, ConfirmInvStep, PTL DEF ConfirmSpec

(* chat_router.py:895-921: a job is only ever made, or in the making, for a
   confirmed action. *)
THEOREM JobsAreConfirmed == ConfirmSpec => []OnlyConfirmedHaveJobs
  BY ConfirmInvHolds, PTL DEF ConfirmInv

(* chat_router.py:768-783: confirms, repeated confirms and cancels of one
   action start its paid job at most once. *)
THEOREM PaidJobsStartOnce == ConfirmSpec => AdmittedOnce
  <1>1. ASSUME ConfirmInv, [ConfirmNext]_confirmVars, NEW a \in Actions,
               AdmittingFor(a)' \ AdmittingFor(a) # {}
        PROVE  AdmittingFor(a) = {} /\ ~Stored(KeyOf[a]) /\ ~action[a].recorded
    <2>1. PICK h \in Handlers : Starts(h, a)
      BY <1>1, StepEffect DEF ConfirmInv, Effect, LeavesAlone, Ends
    <2> QED
      BY <1>1, <2>1 DEF ConfirmInv, OnlyConfirmedHaveJobs, Starts
  <1>2. ConfirmInv /\ [ConfirmNext]_confirmVars =>
          [\A a \in Actions :
             (AdmittingFor(a)' \ AdmittingFor(a) # {})
                => AdmittingFor(a) = {} /\ ~Stored(KeyOf[a]) /\ ~action[a].recorded]_confirmVars
    BY <1>1
  <1> QED
    BY <1>2, ConfirmInvHolds, PTL DEF ConfirmSpec, AdmittedOnce

(* chat_router.py:809-814: no race leaves a confirmed action without a job;
   a confirm that failed, or found the queue full, does. *)
THEOREM StuckByInterruption == ConfirmSpec => []StuckOnlyIfInterrupted
  <1>1. ConfirmInit => StuckOnlyIfInterrupted
    BY DEF ConfirmInit, StuckOnlyIfInterrupted
  <1>2. ASSUME ConfirmInv, StuckOnlyIfInterrupted, [ConfirmNext]_confirmVars, NEW a \in Actions,
               (action[a].status = "confirmed" /\ ~action[a].recorded /\ AdmittingFor(a) = {})'
        PROVE  a \in interrupted'
    <2>1. (action[a].status = "confirmed" /\ ~action[a].recorded /\ AdmittingFor(a) = {})
              => a \in interrupted
      BY <1>2 DEF StuckOnlyIfInterrupted
    <2>2. CASE LeavesAlone(a)
      BY <1>2, <2>1, <2>2 DEF LeavesAlone
    <2>3. ~\E h \in Handlers : Starts(h, a)
      BY <1>2 DEF Starts
    <2>4. ASSUME NEW h \in Handlers, Ends(h, a)
          PROVE  a \in interrupted'
      BY <1>2, <2>4 DEF Ends
    <2> QED
      BY <1>2, <2>2, <2>3, <2>4, StepEffect DEF Effect, ConfirmInv
  <1>3. ConfirmInv /\ StuckOnlyIfInterrupted /\ [ConfirmNext]_confirmVars => StuckOnlyIfInterrupted'
    BY <1>2 DEF StuckOnlyIfInterrupted
  <1> QED
    BY <1>1, <1>3, ConfirmInvHolds, PTL DEF ConfirmSpec

(* What an action has become, it stays. *)
LEMMA RecordsStay ==
    ASSUME ConfirmInv, [ConfirmNext]_confirmVars, NEW a \in Actions
    PROVE  /\ action[a].recorded => action'[a].recorded
           /\ action[a].status = "cancelled" => action'[a].status = "cancelled"
  <1>1. AdmittingFor(a) # {} => ~action[a].recorded
    BY DEF ConfirmInv, OneJob
  <1>2. CASE LeavesAlone(a)
    BY <1>2 DEF LeavesAlone
  <1>3. ASSUME NEW h \in Handlers, Starts(h, a) \/ Ends(h, a)
        PROVE  /\ action[a].recorded => action'[a].recorded
               /\ action[a].status = "cancelled" => action'[a].status = "cancelled"
    BY <1>1, <1>3 DEF Starts, Ends
  <1> QED
    BY <1>2, <1>3, StepEffect DEF Effect, ConfirmInv

(* A handler that answers with a job, or with "cancelled", did so already or
   does it now, and the row says so. *)
AnswerIsTrue(h) ==
    /\ Doing(h, "job") => action[Of(h)].recorded
    /\ Doing(h, "withdrawn") => action[Of(h)].status = "cancelled"

LEMMA AnswerIsTrueStep ==
    ASSUME ConfirmInv, [ConfirmNext]_confirmVars, NEW g \in Handlers, AnswerIsTrue(g)
    PROVE  AnswerIsTrue(g)'
  <1>1. handling \in [Handlers -> Handling \cup {Free}] /\ action \in [Actions -> ActionRow]
        /\ ConfirmTypeOK
    BY DEF ConfirmInv, ConfirmTypeOK, Handling
  <1>2. ASSUME handling'[g] = handling[g]
        PROVE  AnswerIsTrue(g)'
    <2>1. (Doing(g, "job") \/ Doing(g, "withdrawn")) => Of(g) \in Actions
      BY <1>1, HandlerAt DEF Doing, Verdicts
    <2> QED
      BY <1>2, <2>1, RecordsStay DEF AnswerIsTrue, Doing, Of
  <1>3. ASSUME handling'[g].pc \notin {"job", "withdrawn"}
        PROVE  AnswerIsTrue(g)'
    BY <1>3 DEF AnswerIsTrue, Doing
  <1>4. ASSUME NEW a \in Actions, BeginConfirm(g, a) \/ BeginCancel(g, a)
        PROVE  AnswerIsTrue(g)'
    <2>1. action' = action /\ action[a].status \in {"pending", "confirmed", "cancelled"}
      BY <1>1, <1>4 DEF BeginConfirm, BeginCancel, ActionRow
    <2>2. handling'[g].action = a
          /\ handling'[g].pc \in {EvaluateConfirmation(a), EvaluateCancellation(a)}
      BY <1>1, <1>4 DEF BeginConfirm, BeginCancel, Open
    <2>3. EvaluateConfirmation(a) = "job" => action[a].recorded
      BY <2>1 DEF EvaluateConfirmation, Replayable
    <2>4. EvaluateConfirmation(a) # "withdrawn" /\ EvaluateCancellation(a) # "job"
      BY <2>1 DEF EvaluateConfirmation, EvaluateCancellation
    <2>5. EvaluateCancellation(a) = "withdrawn" => action[a].status = "cancelled"
      BY <2>1 DEF EvaluateCancellation
    <2> QED
      BY <2>1, <2>2, <2>3, <2>4, <2>5 DEF AnswerIsTrue, Doing, Of
  <1>5. ASSUME Recheck(g) \/ Reread(g)
        PROVE  AnswerIsTrue(g)'
    <2>1. handling[g] \in Handling /\ action' = action
      BY <1>1, <1>5, HandlerAt DEF Recheck, Reread, Doing, Steps
    <2>2. handling'[g].action = handling[g].action
      BY <1>1, <1>5, <2>1 DEF Recheck, Reread, Step, Handling
    <2>3. handling'[g].pc = "job" => action[Of(g)].recorded
      BY <1>1, <1>5, <2>1 DEF Recheck, Reread, Step, Handling, Replayable
    <2>4. handling'[g].pc = "withdrawn" => action[Of(g)].status = "cancelled"
      BY <1>1, <1>5, <2>1 DEF Recheck, Reread, Step, Handling
    <2> QED
      BY <2>1, <2>2, <2>3, <2>4 DEF AnswerIsTrue, Doing, Of
  <1>6. ASSUME RecordJob(g)
        PROVE  AnswerIsTrue(g)'
    <2>1. handling[g] \in Handling /\ Of(g) \in Actions
      BY <1>1, <1>6, HandlerAt DEF RecordJob, Doing, Steps
    <2>2. handling'[g].action = handling[g].action /\ handling'[g].pc \in {"job", "refused"}
      BY <1>1, <1>6, <2>1 DEF RecordJob, Step, Handling
    <2>3. ASSUME handling'[g].pc = "job"
          PROVE  action'[Of(g)].recorded
      <3>1. request[g].answer \in {"created", "replayed"}
        BY <1>1, <1>6, <2>1, <2>3 DEF RecordJob, Step, Handling
      <3>2. (request[g].answer \in {"created", "replayed"}) = TRUE
        BY <3>1
      <3>3. action' = [action EXCEPT ![Of(g)].recorded = TRUE]
        BY <1>6, <3>2 DEF RecordJob
      <3> QED
        BY <1>1, <2>1, <3>3 DEF ActionRow
    <2> QED
      BY <2>2, <2>3 DEF AnswerIsTrue, Doing, Of
  <1>7. ASSUME Consume(g) \/ Withdraw(g) \/ Interrupt(g) \/ Close(g)
        PROVE  AnswerIsTrue(g)'
    <2>1. handling'[g].pc \in {"admit", "recheck", "reread", "free"}
      BY <1>1, <1>7, HandlerAt DEF Consume, Withdraw, Interrupt, Close, Step, Free, Handling, Doing, Steps
    <2> QED
      BY <1>3, <2>1
  <1>8. ASSUME NEW h \in Handlers \ {g}, NEW a \in Actions, BeginConfirm(h, a) \/ BeginCancel(h, a)
        PROVE  AnswerIsTrue(g)'
    BY <1>1, <1>2, <1>8 DEF BeginConfirm, BeginCancel, Open
  <1>9. ASSUME NEW h \in Handlers \ {g},
               \/ Consume(h) \/ Recheck(h) \/ RecordJob(h) \/ Withdraw(h)
               \/ Reread(h) \/ Interrupt(h) \/ Close(h)
        PROVE  AnswerIsTrue(g)'
    BY <1>1, <1>2, <1>9 DEF Consume, Recheck, RecordJob, Withdraw, Reread, Interrupt, Close, Step
  <1> QED
    BY <1>2, <1>4, <1>5, <1>6, <1>7, <1>8, <1>9
       DEF ConfirmNext, confirmVars, Admitting, PlainEnd, PlainBegin, Pipeline, ActionsOnly, Expire

(* chat_router.py:726-752 and 789-808: who is answered with a job finds it
   recorded, made of the confirmed parameters; "cancelled" is for good. *)
THEOREM AnswersHold == ConfirmSpec => []AnswersAreTrue
  <1> DEFINE AllTrue == \A h \in Handlers : AnswerIsTrue(h)
  <1>1. ConfirmInit => AllTrue
    BY DEF ConfirmInit, AnswerIsTrue, Doing, Free
  <1>2. ConfirmInv /\ AllTrue /\ [ConfirmNext]_confirmVars => AllTrue'
    BY AnswerIsTrueStep
  <1>3. ASSUME ConfirmInv, AllTrue
        PROVE  AnswersAreTrue
    <2>1. \A h \in Handlers : Doing(h, "job") => Of(h) \in Actions
      BY <1>3, HandlerAt DEF ConfirmInv, Doing, Verdicts
    <2> QED
      BY <1>3, <2>1 DEF AnswersAreTrue, AnswerIsTrue, ConfirmInv, OneJob
  <1> QED
    BY <1>1, <1>2, <1>3, ConfirmInvHolds, PTL DEF ConfirmSpec

(* admission.py:262-299, with the confirms among the requests. *)
THEOREM ConfirmOvershootIsBounded == ConfirmSpec => []OvershootBounded
  BY ConfirmIsAdmission, OvershootIsBounded, PTL DEF ConfirmImplementsAdmission

=============================================================================
