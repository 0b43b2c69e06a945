--------------------------- MODULE PendingActions ---------------------------
(***************************************************************************)
(* Confirming and cancelling a PendingAction (api/v1/chat_router.py,       *)
(* domain/chat/pending_actions.py), composed with the Admission module:    *)
(* confirm consumes the action, commits, and only then asks for the paid   *)
(* job, under a key made of the action's id.                               *)
(*                                                                         *)
(* Nothing in the program creates pending actions any more; the rows are   *)
(* those an earlier version left, and the two endpoints still serve them.  *)
(* A handler either confirms, cancels, or is a plain generation request.   *)
(***************************************************************************)
EXTENDS Admission

CONSTANTS
    Actions,
    KeyOf,              \* pending-action-<id>, with the kind of its action_type
    PayloadOf,          \* the hash of normalized_params
    NoAction

ASSUME ActionAssumption ==
    /\ KeyOf \in [Actions -> Keys]
    /\ \A a, b \in Actions : KeyOf[a] = KeyOf[b] => a = b
    /\ PayloadOf \in [Actions -> Payloads]
    /\ NoAction \notin Actions

VARIABLES
    action,         \* the pending_actions row of each action
    handling,       \* per handler: the confirm or cancel it is in
    interrupted     \* the actions whose confirm failed after it consumed them

confirmVars == <<row, request, action, handling, interrupted>>

Free     == [pc |-> "free", action |-> NoAction]
Steps    == {"consume", "recheck", "admit", "withdraw", "reread"}
Verdicts == {"job", "refused", "withdrawn", "kept"}

(* recorded: resulting_job_id is set. *)
ActionRow == [status : {"pending", "confirmed", "cancelled"}, expired : BOOLEAN, recorded : BOOLEAN]

(* The type invariant. *)
ConfirmTypeOK ==
    /\ TypeOK
    /\ action \in [Actions -> ActionRow]
    /\ handling \in [Handlers -> [pc : Steps \cup Verdicts, action : Actions] \cup {Free}]
    /\ interrupted \subseteq Actions

ConfirmInit ==
    /\ Init
    /\ action = [a \in Actions |-> [status |-> "pending", expired |-> FALSE, recorded |-> FALSE]]
    /\ handling = [h \in Handlers |-> Free]
    /\ interrupted = {}

-----------------------------------------------------------------------------
Doing(h, pc) == handling[h].pc = pc
Of(h)        == handling[h].action
NewAction(k) == \E a \in Actions : KeyOf[a] = k

Step(h, pc)  == handling' = [handling EXCEPT ![h].pc = pc]

Open(h, a, pc) ==
    /\ handling[h] = Free /\ At(h, "idle")
    /\ handling' = [handling EXCEPT ![h] = [pc |-> pc, action |-> a]]

AdmissionOnly == UNCHANGED <<row, request>>
ActionsOnly   == UNCHANGED <<action, handling, interrupted>>

Replayable(a) == action[a].status = "confirmed" /\ action[a].recorded

(* Mutant: a confirmed action is replayed before its job is known. *)
EvaluateConfirmationEager(a) ==
    CASE action[a].status = "confirmed"                       -> "job"
      [] action[a].status = "pending" /\ ~action[a].expired   -> "consume"
      [] OTHER                                                -> "refused"

EvaluateConfirmation(a) ==
    CASE Replayable(a)                                        -> "job"
      [] action[a].status = "pending" /\ ~action[a].expired   -> "consume"
      [] OTHER                                                -> "refused"

EvaluateCancellation(a) ==
    CASE action[a].status = "pending"   -> "withdraw"
      [] action[a].status = "confirmed" -> "refused"
      [] action[a].status = "cancelled" -> "withdrawn"

-----------------------------------------------------------------------------
(* The row is read once; "now" is the time of that read. *)
BeginConfirm(h, a) ==
    /\ Open(h, a, EvaluateConfirmation(a))
    /\ AdmissionOnly /\ UNCHANGED <<action, interrupted>>

(* Mutant: the UPDATE without status = 'pending'. *)
ConsumeUnconditionally(h) ==
    LET a == Of(h)
    IN  /\ Doing(h, "consume")
        /\ action' = [action EXCEPT ![a].status = "confirmed"]
        /\ Begin(h, KeyOf[a], PayloadOf[a])
        /\ Step(h, "admit")
        /\ UNCHANGED interrupted

(* Mutant: confirm inserts the job itself, past the caps. *)
ConsumeInserting(h) ==
    LET a == Of(h)
    IN  /\ Doing(h, "consume")
        /\ action[a].status = "pending"
        /\ action' = [action EXCEPT ![a].status = "confirmed"]
        /\ request' = [request EXCEPT ![h] = [pc |-> "insert", key |-> KeyOf[a], payload |-> PayloadOf[a]]]
        /\ Step(h, "admit")
        /\ UNCHANGED <<row, interrupted>>

(* The conditional UPDATE and its commit; the winner goes on to admission. *)
Consume(h) ==
    LET a == Of(h)
    IN  /\ Doing(h, "consume")
        /\ IF action[a].status = "pending"
           THEN /\ action' = [action EXCEPT ![a].status = "confirmed"]
                /\ Begin(h, KeyOf[a], PayloadOf[a])
                /\ Step(h, "admit")
           ELSE /\ Step(h, "recheck")
                /\ AdmissionOnly /\ UNCHANGED action
        /\ UNCHANGED interrupted

Recheck(h) ==
    /\ Doing(h, "recheck")
    /\ Step(h, IF Replayable(Of(h)) THEN "job" ELSE "refused")
    /\ AdmissionOnly /\ UNCHANGED <<action, interrupted>>

(* Mutant: resulting_job_id is set and never committed. *)
RecordJobUncommitted(h) ==
    LET admitted == request[h].answer \in {"created", "replayed"}
    IN  /\ Doing(h, "admit") /\ At(h, "answered")
        /\ interrupted' = IF admitted THEN interrupted ELSE interrupted \cup {Of(h)}
        /\ Step(h, IF admitted THEN "job" ELSE "refused")
        /\ Finish(h) /\ UNCHANGED action

(* A full queue, a conflict and a lost race for the key are errors. *)
RecordJob(h) ==
    LET admitted == request[h].answer \in {"created", "replayed"}
    IN  /\ Doing(h, "admit") /\ At(h, "answered")
        /\ action' = [action EXCEPT ![Of(h)].recorded = admitted]
        /\ interrupted' = IF admitted THEN interrupted ELSE interrupted \cup {Of(h)}
        /\ Step(h, IF admitted THEN "job" ELSE "refused")
        /\ Finish(h)

BeginCancel(h, a) ==
    /\ Open(h, a, EvaluateCancellation(a))
    /\ AdmissionOnly /\ UNCHANGED <<action, interrupted>>

(* Mutant: the row that was read is pending, so it is cancelled. *)
WithdrawUnconditionally(h) ==
    /\ Doing(h, "withdraw")
    /\ action' = [action EXCEPT ![Of(h)].status = "cancelled"]
    /\ Step(h, "reread")
    /\ AdmissionOnly /\ UNCHANGED interrupted

Withdraw(h) ==
    /\ Doing(h, "withdraw")
    /\ action' = IF action[Of(h)].status = "pending"
                 THEN [action EXCEPT ![Of(h)].status = "cancelled"] ELSE action
    /\ Step(h, "reread")
    /\ AdmissionOnly /\ UNCHANGED interrupted

(* A cancel that lost to a confirm answers 200 with the action as it is. *)
Reread(h) ==
    /\ Doing(h, "reread")
    /\ Step(h, IF action[Of(h)].status = "cancelled" THEN "withdrawn" ELSE "kept")
    /\ AdmissionOnly /\ UNCHANGED <<action, interrupted>>

(* An await raises, or the process stops.  What was committed stays. *)
Interrupt(h) ==
    /\ handling[h].pc \in Steps
    /\ handling' = [handling EXCEPT ![h] = Free]
    /\ IF Doing(h, "admit")
       THEN /\ Fail(h) \/ Finish(h)
            /\ interrupted' = interrupted \cup {Of(h)}
       ELSE AdmissionOnly /\ UNCHANGED interrupted
    /\ UNCHANGED action

Close(h) ==
    /\ handling[h].pc \in Verdicts
    /\ handling' = [handling EXCEPT ![h] = Free]
    /\ AdmissionOnly /\ UNCHANGED <<action, interrupted>>

Expire(a) ==
    /\ ~action[a].expired
    /\ action' = [action EXCEPT ![a].expired = TRUE]
    /\ AdmissionOnly /\ UNCHANGED <<handling, interrupted>>

-----------------------------------------------------------------------------
(* The plain generation requests, which own the other keys. *)
PlainBegin(h, k, p) == handling[h] = Free /\ ~NewAction(k) /\ Begin(h, k, p) /\ ActionsOnly

PlainEnd(h) == handling[h] = Free /\ (Fail(h) \/ Finish(h)) /\ ActionsOnly

Admitting(h) == (Find(h) \/ CountGlobal(h) \/ CountBacklog(h) \/ Insert(h)) /\ ActionsOnly

Pipeline(k) == (JobLeaves(k) \/ JobReturns(k)) /\ ActionsOnly

ConfirmNext ==
    \/ \E h \in Handlers, a \in Actions : BeginConfirm(h, a) \/ BeginCancel(h, a)
    \/ \E h \in Handlers : \/ Consume(h) \/ Recheck(h) \/ RecordJob(h)
                           \/ Withdraw(h) \/ Reread(h) \/ Interrupt(h) \/ Close(h)
                           \/ Admitting(h) \/ PlainEnd(h)
    \/ \E h \in Handlers, k \in Keys, p \in Payloads : PlainBegin(h, k, p)
    \/ \E k \in Keys : Pipeline(k)
    \/ \E a \in Actions : Expire(a)

ConfirmSpec == ConfirmInit /\ [][ConfirmNext]_confirmVars

-----------------------------------------------------------------------------
(* Properties. *)

AdmittingFor(a) == {h \in Handlers : Doing(h, "admit") /\ Of(h) = a}

(* chat_router.py:768-783: a double click, a repeated request or a cancel at
   the same moment start the paid job at most once.  When a handler goes on
   to admission, no other one has and no job of the action exists. *)
AdmittedOnce ==
    [][\A a \in Actions :
         (AdmittingFor(a)' \ AdmittingFor(a) # {})
            => AdmittingFor(a) = {} /\ ~Stored(KeyOf[a]) /\ ~action[a].recorded]_confirmVars

(* chat_router.py:895-921: a job is only ever made, or in the making, for a
   confirmed action: an action that is cancelled, or was told to its user to
   be, never costs anything. *)
OnlyConfirmedHaveJobs ==
    \A a \in Actions :
        (AdmittingFor(a) # {} \/ Stored(KeyOf[a]) \/ action[a].recorded)
            => action[a].status = "confirmed"

(* chat_router.py:726-752 and 789-808: who is answered with a job, at first or
   by a replay, is answered with the one the action recorded, made of the
   parameters that were confirmed; who is told "cancelled" is told for good. *)
AnswersAreTrue ==
    \A h \in Handlers :
        /\ Doing(h, "job") => /\ action[Of(h)].recorded
                              /\ row[KeyOf[Of(h)]].payload = PayloadOf[Of(h)]
        /\ Doing(h, "withdrawn") => action[Of(h)].status = "cancelled"

(* chat_router.py:809-814 promises a retry after a crash the same job.  What
   holds is less: a confirmed action without a job, whose every retry is
   answered 409, is left only by a confirm that failed or found the queue
   full, never by two that raced. *)
StuckOnlyIfInterrupted ==
    \A a \in Actions :
        (action[a].status = "confirmed" /\ ~action[a].recorded /\ AdmittingFor(a) = {})
            => a \in interrupted

(* Whatever the two endpoints do is an admission in the way that module
   describes it, so what is proved of Admission holds here. *)
ConfirmImplementsAdmission == Spec

=============================================================================
