--------------------------- MODULE JobQueueProofs ---------------------------
(***************************************************************************)
(* What holds of the job queue for any set of jobs, users, backends and    *)
(* prompts, any cap and any bound, and whatever its callers do.            *)
(***************************************************************************)
EXTENDS JobQueue, FiniteSetTheorems, TLAPS

(* A job of the queue is one of the eight states; used to split on them. *)
LEMMA StatePartition ==
    ASSUME TypeOK, NEW j \in Jobs
    PROVE  /\ job[j] \in JobRow
           /\ attempt[j] \in AttemptRow
           /\ Terminal(j) => ~Waiting(j) /\ ~Active(j) /\ Exists(j)
           /\ Waiting(j) => ~Active(j) /\ Unfinished(j)
  BY DEF TypeOK, JobRow, JobStates, Terminal, Waiting, Active, Exists, Unfinished,
         TerminalStates, BacklogStates, ActiveStates

(* Writing columns of a row with values of their domains keeps its type. *)
LEMMA JobRowUpdate ==
    ASSUME NEW row \in JobRow, NEW s \in JobStates
    PROVE  [row EXCEPT !.state = s] \in JobRow
  BY DEF JobRow

LEMMA OutcomeRowUpdate ==
    ASSUME NEW row \in JobRow, NEW s \in JobStates, NEW e \in BOOLEAN
    PROVE  /\ [row EXCEPT !.state = s, !.error = e] \in JobRow
           /\ [row EXCEPT !.state = s, !.error = e].state = s
           /\ [row EXCEPT !.state = s, !.error = e].current_attempt = row.current_attempt
  BY DEF JobRow

LEMMA AttemptRowUpdate ==
    ASSUME NEW row \in AttemptRow, NEW s \in AttemptStates, NEW p \in Prompts \cup {NoPrompt},
           NEW lease \in {"none", "live", "expired"}
    PROVE  /\ [row EXCEPT !.state = s] \in AttemptRow
           /\ [row EXCEPT !.state = s, !.result = p] \in AttemptRow
           /\ [row EXCEPT !.prompt = p] \in AttemptRow
           /\ [row EXCEPT !.lease = lease] \in AttemptRow
  BY DEF AttemptRow

LEMMA StateNames ==
    /\ {"queued", "dispatched", "running", "retry_wait", "succeeded", "failed", "cancelled"}
          \subseteq JobStates
    /\ {"dispatched", "retry_wait", "succeeded", "failed"} \subseteq AttemptStates
  BY DEF JobStates, AttemptStates, BacklogStates, ActiveStates, TerminalStates

(* The two rows a claim writes keep their types. *)
LEMMA ClaimType ==
    ASSUME TypeOK, NEW C \in SUBSET Jobs, Claim(C)
    PROVE  TypeOK'
  <1>1. ASSUME NEW j \in Jobs
        PROVE  [job[j] EXCEPT !.state = "dispatched"] \in JobRow
    BY <1>1 DEF TypeOK, JobRow, JobStates, ActiveStates
  <1>2. ASSUME NEW j \in Jobs
        PROVE  LeasedAttempt(j) \in AttemptRow
    <2>1. job[j] \in JobRow /\ attempt[j] \in AttemptRow
      BY DEF TypeOK
    <2>2. job[j].current_attempt + 1 \in Nat /\ attempt[j].no \in Nat
      BY <2>1 DEF JobRow, AttemptRow
    <2>3. CASE attempt[j].no >= job[j].current_attempt + 1
      BY <2>1, <2>3 DEF AttemptRow, LeasedAttempt
    <2>4. CASE ~(attempt[j].no >= job[j].current_attempt + 1)
      BY <2>2, <2>4 DEF AttemptRow, AttemptStates, LeasedAttempt, NoAttempt
    <2>5. QED
      BY <2>3, <2>4
  <1>3. QED
    BY <1>1, <1>2 DEF TypeOK, Claim

LEMMA TypeInit == Init => TypeOK
  BY DEF Init, TypeOK, NoJob, NoAttempt, JobRow, AttemptRow, JobStates, AttemptStates

(* Every operation keeps the types, whatever its arguments. *)
LEMMA TypeStep == TypeOK /\ [Next]_vars => TypeOK'
  <1> SUFFICES ASSUME TypeOK, [Next]_vars
               PROVE  TypeOK'
    OBVIOUS
  <1>1. ASSUME NEW lane \in Lanes, NEW n \in 1..Cardinality(Jobs), ClaimNext(lane, n)
        PROVE  TypeOK'
    <2>1. PICK C \in SUBSET Eligible(lane) : Claim(C)
      BY <1>1 DEF ClaimNext
    <2>2. C \in SUBSET Jobs
      BY <2>1 DEF Eligible
    <2>3. QED
      BY <2>1, <2>2, ClaimType
  <1>2. ASSUME NEW j \in Jobs,
               \/ Enqueue(j)
               \/ MarkRunning(j)
               \/ MarkFailed(j)
               \/ MarkRetryWait(j)
               \/ RenewLease(j)
               \/ Cancel(j)
               \/ LeaseExpires(j)
               \/ BackoffElapses(j)
        PROVE  TypeOK'
    <2>1. job[j] \in JobRow /\ attempt[j] \in AttemptRow
      BY StatePartition
    <2>2. CASE Enqueue(j)
      BY <2>2 DEF Enqueue, NoJob, TypeOK, JobRow, JobStates, BacklogStates
    <2>3. CASE MarkRunning(j)
      <3>1. [job[j] EXCEPT !.state = "running"] \in JobRow
        BY <2>1, StateNames, JobRowUpdate
      <3>2. QED
        BY <2>3, <3>1 DEF MarkRunning, UpdateJob, TypeOK, vars
    <2>4. CASE MarkFailed(j)
      <3>1. [job[j] EXCEPT !.state = "failed", !.error = TRUE] \in JobRow
        BY <2>1, StateNames, OutcomeRowUpdate
      <3>2. [attempt[j] EXCEPT !.state = "failed"] \in AttemptRow
        BY <2>1, StateNames, AttemptRowUpdate
      <3>3. QED
        BY <2>4, <3>1, <3>2 DEF MarkFailed, UpdateJob, UpdateLatestAttempt, TypeOK, vars
    <2>5. CASE MarkRetryWait(j)
      <3>1. [state |-> "retry_wait", current_attempt |-> job[j].current_attempt + 1,
             error |-> TRUE, due |-> FALSE] \in JobRow
        BY <2>1, StateNames DEF JobRow
      <3>2. [attempt[j] EXCEPT !.state = "retry_wait"] \in AttemptRow
        BY <2>1, StateNames, AttemptRowUpdate
      <3>3. QED
        BY <2>5, <3>1, <3>2 DEF MarkRetryWait, UpdateJob, UpdateLatestAttempt, TypeOK, vars
    <2>6. CASE RenewLease(j)
      <3>1. [attempt[j] EXCEPT !.lease = "live"] \in AttemptRow
        BY <2>1, AttemptRowUpdate DEF AttemptRow
      <3>2. QED
        BY <2>6, <3>1 DEF RenewLease, UpdateLatestAttempt, TypeOK
    <2>7. CASE Cancel(j)
      <3>1. [job[j] EXCEPT !.state = "cancelled"] \in JobRow
        BY <2>1, StateNames, JobRowUpdate
      <3>2. QED
        BY <2>7, <3>1 DEF Cancel, UpdateJob, TypeOK, vars
    <2>8. CASE LeaseExpires(j)
      <3>1. [attempt[j] EXCEPT !.lease = "expired"] \in AttemptRow
        BY <2>1 DEF AttemptRow
      <3>2. QED
        BY <2>8, <3>1 DEF LeaseExpires, TypeOK
    <2>9. CASE BackoffElapses(j)
      <3>1. [job[j] EXCEPT !.due = TRUE] \in JobRow
        BY <2>1 DEF JobRow
      <3>2. QED
        BY <2>9, <3>1 DEF BackoffElapses, TypeOK
    <2>10. QED
      BY <1>2, <2>2, <2>3, <2>4, <2>5, <2>6, <2>7, <2>8, <2>9
  <1>3. ASSUME NEW j \in Jobs, NEW p \in Prompts, SetPromptId(j, p) \/ MarkSucceeded(j, p)
        PROVE  TypeOK'
    <2>1. job[j] \in JobRow /\ attempt[j] \in AttemptRow
      BY StatePartition
    <2>2. CASE SetPromptId(j, p)
      <3>1. [attempt[j] EXCEPT !.prompt = p] \in AttemptRow
        BY <2>1 DEF AttemptRow
      <3>2. QED
        BY <2>2, <3>1 DEF SetPromptId, UpdateLatestAttempt, TypeOK
    <2>3. CASE MarkSucceeded(j, p)
      <3>1. [job[j] EXCEPT !.state = "succeeded", !.error = FALSE] \in JobRow
        BY <2>1, StateNames, OutcomeRowUpdate
      <3>2. [attempt[j] EXCEPT !.state = "succeeded", !.result = p] \in AttemptRow
        BY <2>1, StateNames, AttemptRowUpdate DEF AttemptRow
      <3>3. QED
        BY <2>3, <3>1, <3>2 DEF MarkSucceeded, UpdateJob, UpdateLatestAttempt, TypeOK, vars
    <2>4. QED
      BY <1>3, <2>2, <2>3
  <1>4. CASE UNCHANGED vars
    BY <1>4 DEF vars, TypeOK
  <1>5. QED
    BY <1>1, <1>2, <1>3, <1>4 DEF Next

(* postgres.py: no sequence of operations gives a row a value outside its
   columns' domains. *)
THEOREM TypeCorrect == Spec => []TypeOK
  BY TypeInit, TypeStep, PTL DEF Spec

-----------------------------------------------------------------------------
(* How a step may change the rows of one job.  Every later proof splits on
   these cases instead of on the operations. *)
Untouched(j)  == job'[j] = job[j] /\ attempt'[j] = attempt[j]

Enqueued(j)   == /\ ~Exists(j)
                 /\ job'[j].state = "queued" /\ job'[j].current_attempt = 0
                 /\ attempt'[j] = attempt[j]

Claimed(j)    == /\ Waiting(j)
                 /\ job'[j].state = "dispatched"
                 /\ job'[j].current_attempt = job[j].current_attempt
                 /\ attempt'[j] = LeasedAttempt(j)

(* The attempt row keeps its number and what it has already recorded. *)
SameAttempt(j) == /\ attempt'[j].no = attempt[j].no
                  /\ attempt'[j].result = attempt[j].result
                  /\ attempt'[j].state = attempt[j].state

Touched(j)    == SameAttempt(j) /\ \/ job'[j] = job[j]
                                   \/ Waiting(j) /\ job'[j] = [job[j] EXCEPT !.due = TRUE]

Dispatched(j) == /\ Unfinished(j)
                 /\ job'[j].state = "running"
                 /\ job'[j].current_attempt = job[j].current_attempt
                 /\ attempt'[j] = attempt[j]

Retried(j)    == /\ Unfinished(j)
                 /\ job'[j].state = "retry_wait"
                 /\ job'[j].current_attempt = job[j].current_attempt + 1
                 /\ attempt'[j].no = attempt[j].no

Finished(j)   == /\ Unfinished(j)
                 /\ job'[j].state \in TerminalStates
                 /\ job'[j].current_attempt = job[j].current_attempt
                 /\ attempt'[j].no = attempt[j].no

StepOf(j) ==
    Untouched(j) \/ Enqueued(j) \/ Claimed(j) \/ Touched(j) \/ Dispatched(j)
      \/ Retried(j) \/ Finished(j)

(* A claim claims the jobs of the batch and leaves the others. *)
LEMMA ClaimEffect ==
    ASSUME TypeOK, NEW lane \in Lanes, NEW C \in SUBSET Eligible(lane), Claim(C), NEW j \in Jobs
    PROVE  Claimed(j) \/ Untouched(j)
  BY DEF TypeOK, JobRow, Claim, Eligible, Claimed, Untouched

(* An operation on job i does one of these to it and leaves the others. *)
LEMMA OperationEffect ==
    ASSUME TypeOK, NEW i \in Jobs, NEW j \in Jobs,
           \/ Enqueue(i)
           \/ MarkRunning(i)
           \/ MarkFailed(i)
           \/ MarkRetryWait(i)
           \/ RenewLease(i)
           \/ Cancel(i)
           \/ LeaseExpires(i)
           \/ BackoffElapses(i)
    PROVE  StepOf(j)
  <1>1. job[i] \in JobRow /\ attempt[i] \in AttemptRow
    BY StatePartition
  <1>2. CASE Enqueue(i)
    BY <1>2 DEF Enqueue, NoJob, TypeOK, StepOf, Enqueued, Untouched
  <1>3. CASE MarkRunning(i)
    BY <1>1, <1>3 DEF MarkRunning, UpdateJob, TypeOK, JobRow, vars, StepOf, Dispatched, Untouched
  <1>4. CASE MarkFailed(i)
    <2> DEFINE row == [job[i] EXCEPT !.state = "failed", !.error = TRUE]
    <2>1. row.state = "failed" /\ row.current_attempt = job[i].current_attempt
      BY <1>1, StateNames, OutcomeRowUpdate
    <2>2. CASE Unfinished(i)
      <3>1. job' = [job EXCEPT ![i] = row]
        BY <1>4, <2>2 DEF MarkFailed, UpdateJob
      <3>2. attempt'[j].no = attempt[j].no /\ (i # j => attempt'[j] = attempt[j])
        BY <1>1, <1>4, <2>2 DEF MarkFailed, UpdateLatestAttempt, TypeOK, AttemptRow
      <3> HIDE DEF row
      <3>3. QED
        BY <2>1, <2>2, <3>1, <3>2 DEF TypeOK, TerminalStates, StepOf, Finished, Untouched
    <2>3. CASE ~Unfinished(i)
      BY <1>4, <2>3 DEF MarkFailed, vars, StepOf, Untouched
    <2>4. QED
      BY <2>2, <2>3
  <1>5. CASE MarkRetryWait(i)
    BY <1>1, <1>5 DEF MarkRetryWait, UpdateJob, UpdateLatestAttempt, TypeOK, AttemptRow, vars,
                      StepOf, Retried, Untouched
  <1>6. CASE RenewLease(i)
    BY <1>1, <1>6 DEF RenewLease, UpdateLatestAttempt, TypeOK, AttemptRow, StepOf, Touched,
                      SameAttempt
  <1>7. CASE Cancel(i)
    BY <1>1, <1>7 DEF Cancel, UpdateJob, TypeOK, JobRow, vars, TerminalStates, StepOf, Finished,
                      Untouched
  <1>8. CASE LeaseExpires(i)
    BY <1>1, <1>8 DEF LeaseExpires, TypeOK, AttemptRow, StepOf, Touched, SameAttempt
  <1>9. CASE BackoffElapses(i)
    BY <1>1, <1>9 DEF BackoffElapses, TypeOK, Waiting, BacklogStates, StepOf, Touched, SameAttempt,
                      Untouched
  <1>10. QED
    BY <1>2, <1>3, <1>4, <1>5, <1>6, <1>7, <1>8, <1>9

LEMMA PromptEffect ==
    ASSUME TypeOK, NEW i \in Jobs, NEW j \in Jobs, NEW p \in Prompts,
           SetPromptId(i, p) \/ MarkSucceeded(i, p)
    PROVE  StepOf(j)
  <1>1. job[i] \in JobRow /\ attempt[i] \in AttemptRow
    BY StatePartition
  <1>2. CASE SetPromptId(i, p)
    BY <1>1, <1>2 DEF SetPromptId, UpdateLatestAttempt, TypeOK, AttemptRow, StepOf, Touched,
                      SameAttempt
  <1>3. CASE MarkSucceeded(i, p)
    <2> DEFINE row == [job[i] EXCEPT !.state = "succeeded", !.error = FALSE]
    <2>1. row.state = "succeeded" /\ row.current_attempt = job[i].current_attempt
      BY <1>1, StateNames, OutcomeRowUpdate
    <2>2. CASE Unfinished(i)
      <3>1. job' = [job EXCEPT ![i] = row]
        BY <1>3, <2>2 DEF MarkSucceeded, UpdateJob
      <3>2. attempt'[j].no = attempt[j].no /\ (i # j => attempt'[j] = attempt[j])
        <4> DEFINE new == [attempt[i] EXCEPT !.state = "succeeded", !.result = p]
        <4>1. new.no = attempt[i].no
          BY <1>1 DEF AttemptRow
        <4>2. attempt' = IF Attempted(i) THEN [attempt EXCEPT ![i] = new] ELSE attempt
          BY <1>3, <2>2 DEF MarkSucceeded, UpdateLatestAttempt
        <4> HIDE DEF new
        <4>3. QED
          BY <4>1, <4>2 DEF TypeOK
      <3> HIDE DEF row
      <3>3. QED
        BY <2>1, <2>2, <3>1, <3>2 DEF TypeOK, TerminalStates, StepOf, Finished, Untouched
    <2>3. CASE ~Unfinished(i)
      BY <1>3, <2>3 DEF MarkSucceeded, vars, StepOf, Untouched
    <2>4. QED
      BY <2>2, <2>3
  <1>4. QED
    BY <1>2, <1>3

LEMMA StepEffect ==
    ASSUME TypeOK, [Next]_vars, NEW j \in Jobs
    PROVE  StepOf(j)
  <1>1. ASSUME NEW lane \in Lanes, NEW n \in 1..Cardinality(Jobs), ClaimNext(lane, n)
        PROVE  StepOf(j)
    BY <1>1, ClaimEffect DEF ClaimNext, StepOf
  <1>2. CASE UNCHANGED vars
    BY <1>2 DEF vars, StepOf, Untouched
  <1>3. QED
    BY <1>1, <1>2, OperationEffect, PromptEffect DEF Next

-----------------------------------------------------------------------------
LEMMA AttemptsInit == Init => AttemptsCounted
  BY DEF Init, AttemptsCounted, NoJob, NoAttempt, Waiting, Exists, BacklogStates

LEMMA AttemptsStep == TypeOK /\ AttemptsCounted /\ [Next]_vars => AttemptsCounted'
  <1> SUFFICES ASSUME TypeOK, AttemptsCounted, [Next]_vars, NEW j \in Jobs
               PROVE  /\ attempt'[j].no <= job'[j].current_attempt + 1
                      /\ Waiting(j)' => attempt'[j].no <= job'[j].current_attempt
                      /\ ~Exists(j)' => attempt'[j].no = 0 /\ job'[j].current_attempt = 0
    BY DEF AttemptsCounted
  <1>1. job[j] \in JobRow /\ attempt[j] \in AttemptRow
    BY StatePartition
  <1>2. /\ attempt[j].no \in Nat
        /\ job[j].current_attempt \in Nat
        /\ attempt[j].no <= job[j].current_attempt + 1
        /\ Waiting(j) => attempt[j].no <= job[j].current_attempt
        /\ ~Exists(j) => attempt[j].no = 0 /\ job[j].current_attempt = 0
    BY <1>1 DEF AttemptsCounted, JobRow, AttemptRow
  <1>3. CASE Untouched(j)
    BY <1>2, <1>3 DEF Untouched, Waiting, Exists
  <1>4. CASE Enqueued(j)
    BY <1>2, <1>4 DEF Enqueued, Waiting, Exists
  <1>5. CASE Claimed(j)
    <2>1. attempt'[j].no = job[j].current_attempt + 1
      BY <1>2, <1>5 DEF Claimed, LeasedAttempt, NoAttempt
    <2>2. QED
      BY <1>2, <1>5, <2>1 DEF Claimed, Waiting, Exists, BacklogStates
  <1>6. CASE Touched(j)
    <2>1. /\ job'[j].state = job[j].state
          /\ job'[j].current_attempt = job[j].current_attempt
      BY <1>1, <1>6 DEF Touched, JobRow
    <2>2. QED
      BY <1>2, <1>6, <2>1 DEF Touched, SameAttempt, Waiting, Exists
  <1>7. CASE Dispatched(j)
    BY <1>2, <1>7 DEF Dispatched, Waiting, Exists, BacklogStates
  <1>8. CASE Retried(j)
    BY <1>2, <1>8 DEF Retried, Waiting, Exists
  <1>9. CASE Finished(j)
    BY <1>2, <1>9 DEF Finished, Waiting, Exists, BacklogStates, TerminalStates
  <1>10. QED
    BY <1>3, <1>4, <1>5, <1>6, <1>7, <1>8, <1>9, StepEffect DEF StepOf

(* postgres.py:_finalize_claimed_row and mark_retry_wait: the attempts a job
   has rows for are the ones it has counted, and a job that can be claimed
   has no row beyond its count. *)
THEOREM AttemptsAreCounted == Spec => [](TypeOK /\ AttemptsCounted)
  <1>1. Init => TypeOK /\ AttemptsCounted
    BY TypeInit, AttemptsInit
  <1>2. TypeOK /\ AttemptsCounted /\ [Next]_vars => (TypeOK /\ AttemptsCounted)'
    BY TypeStep, AttemptsStep
  <1>3. QED
    BY <1>1, <1>2, PTL DEF Spec

-----------------------------------------------------------------------------
(* postgres.py:22-29: a finished job keeps its outcome, its error, its attempt
   count and its result, whatever late or repeated call arrives. *)
THEOREM FinishedStaysFinished == Spec => TerminalIsFinal
  <1>1. ASSUME TypeOK, [Next]_vars, NEW j \in Jobs, Terminal(j)
        PROVE  job'[j] = job[j] /\ SameAttempt(j)
    <2>1. ~Waiting(j) /\ Exists(j) /\ ~Unfinished(j)
      BY <1>1, StatePartition DEF Unfinished
    <2>2. Untouched(j) \/ Touched(j)
      BY <1>1, <2>1, StepEffect DEF StepOf, Enqueued, Claimed, Dispatched, Retried, Finished
    <2>3. QED
      BY <2>1, <2>2 DEF Untouched, Touched, SameAttempt
  <1>2. TypeOK /\ [Next]_vars =>
          [\A j \in Jobs :
             Terminal(j) => /\ job'[j] = job[j]
                            /\ attempt'[j].no = attempt[j].no
                            /\ attempt'[j].state = attempt[j].state
                            /\ attempt'[j].result = attempt[j].result]_vars
    BY <1>1 DEF SameAttempt
  <1>3. QED
    BY <1>2, TypeInit, TypeStep, PTL DEF Spec, TerminalIsFinal

(* postgres.py:33-39: the row a claim leaves is a new one, with no prompt and no
   result: the ON CONFLICT branch of the lease's INSERT is never taken. *)
THEOREM ClaimsOpenNewAttempts == Spec => ClaimOpensNewAttempt
  <1>1. ASSUME TypeOK, AttemptsCounted, [Next]_vars,
               NEW j \in Jobs, Waiting(j), job'[j].state = "dispatched"
        PROVE  /\ attempt'[j].no > attempt[j].no
               /\ attempt'[j].prompt = NoPrompt
               /\ attempt'[j].result = NoPrompt
    <2>1. job[j] \in JobRow /\ attempt[j] \in AttemptRow
      BY <1>1, StatePartition
    <2>2. job[j].state # "dispatched" /\ Exists(j)
      BY <1>1, StatePartition DEF Waiting, BacklogStates, Exists
    <2>3. Claimed(j)
      BY <1>1, <2>1, <2>2, StepEffect
         DEF StepOf, Untouched, Enqueued, Touched, Dispatched, Retried, Finished, TerminalStates, JobRow
    <2>4. /\ attempt[j].no <= job[j].current_attempt
          /\ attempt[j].no \in Nat
          /\ job[j].current_attempt \in Nat
      BY <1>1, <2>1 DEF AttemptsCounted, JobRow, AttemptRow
    <2>5. QED
      BY <2>3, <2>4 DEF Claimed, LeasedAttempt, NoAttempt
  <1>2. TypeOK /\ AttemptsCounted /\ [Next]_vars =>
          [\A j \in Jobs :
             (Waiting(j) /\ job'[j].state = "dispatched") =>
                /\ attempt'[j].no > attempt[j].no
                /\ attempt'[j].prompt = NoPrompt
                /\ attempt'[j].result = NoPrompt]_vars
    BY <1>1
  <1>3. QED
    BY <1>2, AttemptsAreCounted, PTL DEF Spec, ClaimOpensNewAttempt

-----------------------------------------------------------------------------
(* No operation but a claim dispatches a job. *)
LEMMA OnlyClaimsDispatch ==
    ASSUME TypeOK, NEW i \in Jobs, NEW j \in Jobs, Waiting(j),
           \/ Enqueue(i) \/ MarkRunning(i) \/ MarkFailed(i) \/ MarkRetryWait(i)
           \/ RenewLease(i) \/ Cancel(i) \/ LeaseExpires(i) \/ BackoffElapses(i)
           \/ \E p \in Prompts : SetPromptId(i, p) \/ MarkSucceeded(i, p)
    PROVE  job'[j].state # "dispatched"
  <1>1. job \in [Jobs -> JobRow] /\ job[i] \in JobRow /\ job[j].state \in {"queued", "retry_wait"}
    BY StatePartition DEF TypeOK, Waiting, BacklogStates
  <1>2. CASE job' = job
    BY <1>1, <1>2
  <1>3. ASSUME NEW row, job' = [job EXCEPT ![i] = row], row.state # "dispatched"
        PROVE  job'[j].state # "dispatched"
    BY <1>1, <1>3
  <1>4. CASE Enqueue(i)
    <2> DEFINE row == [NoJob EXCEPT !.state = "queued", !.due = TRUE]
    <2>1. job' = [job EXCEPT ![i] = row] /\ row.state # "dispatched"
      BY <1>4 DEF Enqueue, NoJob
    <2> HIDE DEF row
    <2>2. QED
      BY <1>3, <2>1
  <1>5. CASE MarkRunning(i) \/ Cancel(i)
    <2>1. /\ [job[i] EXCEPT !.state = "running"].state = "running"
          /\ [job[i] EXCEPT !.state = "cancelled"].state = "cancelled"
      BY <1>1 DEF JobRow
    <2>2. QED
      BY <1>2, <1>3, <1>5, <2>1 DEF MarkRunning, Cancel, UpdateJob, vars
  <1>6. CASE MarkFailed(i) \/ \E p \in Prompts : MarkSucceeded(i, p)
    <2>1. /\ [job[i] EXCEPT !.state = "failed", !.error = TRUE].state = "failed"
          /\ [job[i] EXCEPT !.state = "succeeded", !.error = FALSE].state = "succeeded"
      BY <1>1, StateNames, OutcomeRowUpdate
    <2>2. QED
      BY <1>2, <1>3, <1>6, <2>1 DEF MarkFailed, MarkSucceeded, UpdateJob, vars
  <1>7. CASE MarkRetryWait(i)
    <2> DEFINE row == [state |-> "retry_wait", current_attempt |-> job[i].current_attempt + 1,
                       error |-> TRUE, due |-> FALSE]
    <2>1. job' = job \/ job' = [job EXCEPT ![i] = row]
      BY <1>7 DEF MarkRetryWait, UpdateJob, vars
    <2>2. row.state # "dispatched"
      OBVIOUS
    <2> HIDE DEF row
    <2>3. QED
      BY <1>2, <1>3, <2>1, <2>2
  <1>8. CASE RenewLease(i) \/ LeaseExpires(i) \/ \E p \in Prompts : SetPromptId(i, p)
    BY <1>2, <1>8 DEF RenewLease, LeaseExpires, SetPromptId
  <1>9. CASE BackoffElapses(i)
    <2>1. [job[i] EXCEPT !.due = TRUE].state = job[i].state /\ job[i].state = "retry_wait"
      BY <1>1, <1>9 DEF JobRow, BackoffElapses
    <2>2. QED
      BY <1>3, <1>9, <2>1 DEF BackoffElapses
  <1>10. QED
    BY <1>4, <1>5, <1>6, <1>7, <1>8, <1>9

(* The youngest job of a set: the set of the jobs younger than it is the
   smallest there is, so it is empty. *)
LEMMA Youngest ==
    ASSUME NEW C \in SUBSET Jobs, C # {}
    PROVE  \E m \in C : \A j \in C : j <= m
  <1> DEFINE Younger(j) == {i \in C : i > j}
             Sets == {Younger(j) : j \in C}
  <1>1. IsFiniteSet(C) /\ C \subseteq Nat
    BY FS_Subset, QueueAssumption
  <1>2. IsWellFoundedOn(StrictSubsetOrdering(C), FiniteSubsetsOf(C))
    BY FS_StrictSubsetOrderingWellFounded
  <1>3. FiniteSubsetsOf(C) = SUBSET C
    BY <1>1, FS_FiniteSubsetsOfFinite
  <1>4. Sets \subseteq SUBSET C /\ Sets # {}
    OBVIOUS
  <1>5. PICK Y \in Sets : \A Z \in Sets : <<Z, Y>> \notin StrictSubsetOrdering(C)
    <2> HIDE DEF Sets
    <2>1. QED
      BY <1>2, <1>3, <1>4, WFMin
  <1>6. PICK m \in C : Y = Younger(m)
    BY <1>5
  <1>7. ASSUME NEW j \in C, j > m
        PROVE  FALSE
    <2>1. (\A i \in C : i > j => i > m) /\ ~(j > j)
      BY <1>1, <1>7
    <2>2. Younger(j) \subseteq Younger(m) /\ j \in Younger(m) /\ j \notin Younger(j)
      BY <1>7, <2>1
    <2>3. <<Younger(j), Younger(m)>> \in StrictSubsetOrdering(C)
      BY <2>2 DEF StrictSubsetOrdering
    <2>4. QED
      BY <1>5, <1>6, <2>3
  <1>8. QED
    BY <1>1, <1>7

(* The last job of the user's that a batch took was below the cap, with all
   the others of the user's that it took. *)
LEMMA BatchRespectsCap ==
    ASSUME TypeOK, NEW u \in Users, MaxActivePerUser > 0,
           NEW lane \in Lanes, NEW capacity \in Nat,
           NEW C \in SUBSET Eligible(lane), IsBatch(C, lane, capacity), Claim(C),
           NEW j \in C, OwnerOf[j] = u
    PROVE  Cardinality(ActiveOf(u)') <= MaxActivePerUser
  <1> DEFINE Mine == {i \in C : OwnerOf[i] = u}
  <1>1. C \subseteq Jobs /\ Mine \in SUBSET Jobs /\ Mine # {}
    BY DEF Eligible
  <1>2. PICK m \in Mine : \A i \in Mine : i <= m
    <2> HIDE DEF Mine
    <2>1. QED
      BY <1>1, Youngest
  <1>3. m \in Eligible(lane) /\ m \in C /\ OwnerOf[m] = u
    BY <1>2
  <1>4. BelowUserCap(u, TakenBefore(C, m))
    BY <1>3 DEF IsBatch
  <1> DEFINE Before == ActiveOf(u) \cup {i \in TakenBefore(C, m) : OwnerOf[i] = u}
  <1>5. Cardinality(Before) < MaxActivePerUser
    BY <1>4, QueueAssumption DEF BelowUserCap
  <1>6. ActiveOf(u)' \subseteq Before \cup {m}
    <2> SUFFICES ASSUME NEW i \in Jobs, Active(i)', OwnerOf[i] = u, i # m
                 PROVE  i \in Before
      BY DEF ActiveOf
    <2>1. CASE i \in C
      <3>1. i <= m /\ i \in Nat /\ m \in Nat
        BY <1>1, <1>2, <2>1, QueueAssumption
      <3>2. i < m
        BY <3>1
      <3>3. QED
        BY <2>1, <3>2 DEF TakenBefore
    <2>2. CASE i \notin C
      <3>1. job'[i] = job[i]
        BY <2>2 DEF Claim
      <3>2. Active(i)
        BY <3>1 DEF Active
      <3>3. QED
        BY <3>2 DEF ActiveOf
    <2>3. QED
      BY <2>1, <2>2
  <1>7. Before \in SUBSET Jobs
    BY <1>1 DEF ActiveOf, TakenBefore
  <1> HIDE DEF Before
  <1>8. IsFiniteSet(Before) /\ Cardinality(Before) \in Nat
    BY <1>7, FS_Subset, FS_CardinalityType, QueueAssumption
  <1>9. /\ IsFiniteSet(Before \cup {m})
        /\ Cardinality(Before \cup {m}) \in Nat
        /\ Cardinality(Before \cup {m}) <= Cardinality(Before) + 1
    <2>1. /\ IsFiniteSet(Before \cup {m})
          /\ \/ Cardinality(Before \cup {m}) = Cardinality(Before)
             \/ Cardinality(Before \cup {m}) = Cardinality(Before) + 1
      BY <1>8, FS_AddElement
    <2>2. QED
      BY <1>8, <2>1
  <1>10. /\ Cardinality(ActiveOf(u)') <= Cardinality(Before \cup {m})
         /\ Cardinality(ActiveOf(u)') \in Nat
    BY <1>6, <1>9, FS_Subset, FS_CardinalityType
  <1>11. QED
    BY <1>5, <1>8, <1>9, <1>10, QueueAssumption

(* config.py:80-86: no claim takes a user above max_active_jobs_per_user,
   whatever the batch, the lane and the number of the user's waiting jobs. *)
THEOREM ClaimsRespectUserCap == Spec => ClaimRespectsUserCap
  <1>1. ASSUME TypeOK, [Next]_vars, NEW u \in Users, MaxActivePerUser > 0,
               NEW j \in Jobs, OwnerOf[j] = u, Waiting(j), job'[j].state = "dispatched"
        PROVE  Cardinality(ActiveOf(u)') <= MaxActivePerUser
    <2>1. CASE UNCHANGED vars
      BY <1>1, <2>1 DEF vars, Waiting, BacklogStates
    <2>2. ASSUME NEW lane \in Lanes, NEW n \in 1..Cardinality(Jobs), ClaimNext(lane, n)
          PROVE  Cardinality(ActiveOf(u)') <= MaxActivePerUser
      <3>1. PICK C \in SUBSET Eligible(lane) : IsBatch(C, lane, n) /\ Claim(C)
        BY <2>2 DEF ClaimNext
      <3>2. j \in C
        BY <1>1, <3>1 DEF Claim, Waiting, BacklogStates
      <3>3. n \in Nat
        OBVIOUS
      <3>4. QED
        BY <1>1, <3>1, <3>2, <3>3, BatchRespectsCap
    <2>3. QED
      BY <1>1, <2>1, <2>2, OnlyClaimsDispatch DEF Next
  <1>2. TypeOK /\ [Next]_vars =>
          [\A u \in Users :
             (MaxActivePerUser > 0 /\ \E j \in Jobs : OwnerOf[j] = u /\ Waiting(j)
                                                      /\ job'[j].state = "dispatched")
                => Cardinality(ActiveOf(u)') <= MaxActivePerUser]_vars
    BY <1>1
  <1>3. QED
    BY <1>2, TypeInit, TypeStep, PTL DEF Spec, ClaimRespectsUserCap

-----------------------------------------------------------------------------
(* An operation on job i leaves the rows of every other job. *)
LEMMA OthersUntouched ==
    ASSUME TypeOK, NEW i \in Jobs, NEW j \in Jobs, i # j,
           \/ Enqueue(i)
           \/ MarkRunning(i)
           \/ MarkFailed(i)
           \/ MarkRetryWait(i)
           \/ RenewLease(i)
           \/ Cancel(i)
           \/ LeaseExpires(i)
           \/ BackoffElapses(i)
           \/ \E p \in Prompts : SetPromptId(i, p) \/ MarkSucceeded(i, p)
    PROVE  Untouched(j)
  BY DEF Enqueue, MarkRunning, MarkFailed, MarkRetryWait, RenewLease, Cancel, LeaseExpires,
         BackoffElapses, SetPromptId, MarkSucceeded, UpdateJob, UpdateLatestAttempt, TypeOK,
         vars, Untouched

(* The phase of a state, case by case. *)
LEMMA PhaseCases ==
    /\ PhaseOf("absent") = "absent"
    /\ \A s \in BacklogStates : PhaseOf(s) = "waiting"
    /\ \A s \in ActiveStates : PhaseOf(s) = "active"
    /\ \A s \in TerminalStates : PhaseOf(s) = s
  BY DEF PhaseOf, BacklogStates, ActiveStates, TerminalStates

(* A step that changes one job only is a step of that job's life, or none. *)
LEMMA OneJobStep ==
    ASSUME TypeOK, AttemptsCounted, TypeOK',
           NEW i \in Jobs, StepOf(i), \A j \in Jobs : i # j => Untouched(j)
    PROVE  Lifecycle!Next \/ UNCHANGED Lifecycle!vars
  <1> DEFINE phase   == [j \in Jobs |-> PhaseOf(job[j].state)]
             retries == [j \in Jobs |-> job[j].current_attempt]
  <1>1. /\ job[i] \in JobRow
        /\ job'[i] \in JobRow
        /\ \A j \in Jobs : i # j => job'[j] = job[j]
    BY StatePartition DEF Untouched, TypeOK
  <1>2. /\ phase' = [phase EXCEPT ![i] = PhaseOf(job'[i].state)]
        /\ retries' = [retries EXCEPT ![i] = job'[i].current_attempt]
        /\ phase[i] = PhaseOf(job[i].state)
        /\ retries[i] = job[i].current_attempt
    BY <1>1
  <1>3. /\ Lifecycle!Submit(i) <=> /\ phase[i] = "absent"
                                   /\ phase' = [phase EXCEPT ![i] = "waiting"]
                                   /\ retries' = retries
        /\ Lifecycle!Start({i}) <=> /\ \A j \in {i} : phase[j] = "waiting"
                                    /\ phase' = [j \in Jobs |-> IF j \in {i} THEN "active"
                                                                ELSE phase[j]]
                                    /\ retries' = retries
        /\ Lifecycle!Retry(i) <=> /\ phase[i] \in {"waiting", "active"}
                                  /\ phase' = [phase EXCEPT ![i] = "waiting"]
                                  /\ retries' = [retries EXCEPT ![i] = @ + 1]
        /\ \A o : Lifecycle!Finish(i, o) <=> /\ phase[i] \in {"waiting", "active"}
                                             /\ phase' = [phase EXCEPT ![i] = o]
                                             /\ retries' = retries
        /\ UNCHANGED Lifecycle!vars <=> phase' = phase /\ retries' = retries
    BY DEF Lifecycle!Submit, Lifecycle!Start, Lifecycle!Retry, Lifecycle!Finish,
           Lifecycle!Unfinished, Lifecycle!vars
  <1>4. /\ Lifecycle!Submit(i) \/ Lifecycle!Start({i}) \/ Lifecycle!Retry(i) => Lifecycle!Next
        /\ \A o \in TerminalStates : Lifecycle!Finish(i, o) => Lifecycle!Next
    BY DEF Lifecycle!Next, Lifecycle!Outcomes, TerminalStates
  <1>5. Unfinished(i) => phase[i] \in {"waiting", "active"}
    BY <1>1, <1>2, PhaseCases DEF Unfinished, Exists, Terminal, JobRow, JobStates
  <1>6. Waiting(i) => phase[i] = "waiting"
    BY <1>2, PhaseCases DEF Waiting
  <1>7. DOMAIN phase = Jobs /\ DOMAIN retries = Jobs
    OBVIOUS
  <1>8. phase = [phase EXCEPT ![i] = phase[i]] /\ retries = [retries EXCEPT ![i] = retries[i]]
    OBVIOUS
  <1>9. [phase EXCEPT ![i] = "active"] = [j \in Jobs |-> IF j \in {i} THEN "active" ELSE phase[j]]
    OBVIOUS
  <1>10. job'[i].state = job[i].state /\ job'[i].current_attempt = job[i].current_attempt
           => UNCHANGED Lifecycle!vars
    BY <1>2, <1>3, <1>8
  <1>11. ~Exists(i) => phase[i] = "absent" /\ retries[i] = 0
    BY <1>2, PhaseCases DEF Exists, AttemptsCounted
  <1>12. /\ job'[i].state \in BacklogStates => PhaseOf(job'[i].state) = "waiting"
         /\ job'[i].state \in ActiveStates => PhaseOf(job'[i].state) = "active"
         /\ job'[i].state \in TerminalStates => PhaseOf(job'[i].state) = job'[i].state
    BY PhaseCases
  <1> HIDE DEF phase, retries
  <1>13. CASE Untouched(i)
    BY <1>13, <1>10 DEF Untouched
  <1>14. CASE Touched(i)
    BY <1>14, <1>1, <1>10 DEF Touched, JobRow
  <1>15. CASE Enqueued(i)
    BY <1>15, <1>2, <1>3, <1>4, <1>8, <1>11, <1>12 DEF Enqueued, BacklogStates
  <1>16. CASE Claimed(i)
    BY <1>16, <1>2, <1>3, <1>4, <1>6, <1>8, <1>9, <1>12 DEF Claimed, ActiveStates
  <1>17. CASE Dispatched(i)
    <2>1. phase' = [phase EXCEPT ![i] = "active"] /\ retries' = retries
      BY <1>17, <1>2, <1>8, <1>12 DEF Dispatched, ActiveStates
    <2>2. CASE phase[i] = "active"
      BY <2>1, <2>2, <1>3, <1>8
    <2>3. CASE phase[i] = "waiting"
      BY <2>1, <2>3, <1>3, <1>4, <1>9
    <2>4. QED
      BY <2>2, <2>3, <1>5, <1>17 DEF Dispatched
  <1>18. CASE Retried(i)
    BY <1>18, <1>2, <1>3, <1>4, <1>5, <1>7, <1>12 DEF Retried, BacklogStates
  <1>19. CASE Finished(i)
    BY <1>19, <1>2, <1>3, <1>4, <1>5, <1>8, <1>12 DEF Finished
  <1>20. QED
    BY <1>13, <1>14, <1>15, <1>16, <1>17, <1>18, <1>19 DEF StepOf

(* A claim starts its whole batch at once. *)
LEMMA ClaimStep ==
    ASSUME TypeOK, NEW lane \in Lanes, NEW C \in SUBSET Eligible(lane), Claim(C)
    PROVE  Lifecycle!Start(C) /\ C \subseteq Jobs
  <1>1. \A j \in C : j \in Jobs /\ Waiting(j)
    BY DEF Eligible
  <1>2. \A j \in C : PhaseOf(job[j].state) = "waiting"
    BY <1>1, PhaseCases DEF Waiting
  <1>3. \A j \in Jobs : /\ job'[j].current_attempt = job[j].current_attempt
                        /\ j \in C => job'[j].state = "dispatched"
                        /\ j \notin C => job'[j] = job[j]
    BY DEF Claim, TypeOK, JobRow
  <1>4. PhaseOf("dispatched") = "active"
    BY PhaseCases DEF ActiveStates
  <1>5. QED
    BY <1>1, <1>2, <1>3, <1>4 DEF Lifecycle!Start

(* The queue keeps the promise of JobLifecycle: whatever its callers do, a job
   waits, works, is counted back to waiting, and ends once. *)
THEOREM QueueImplementsLifecycle == Spec => ImplementsLifecycle
  <1>1. Init => Lifecycle!Init
    BY PhaseCases DEF Init, NoJob, Lifecycle!Init
  <1>2. ASSUME TypeOK, AttemptsCounted, TypeOK', [Next]_vars
        PROVE  [Lifecycle!Next]_Lifecycle!vars
    <2>1. ASSUME NEW lane \in Lanes, NEW n \in 1..Cardinality(Jobs), ClaimNext(lane, n)
          PROVE  Lifecycle!Next
      BY <1>2, <2>1, ClaimStep DEF ClaimNext, Lifecycle!Next
    <2>2. ASSUME NEW i \in Jobs, \A j \in Jobs : i # j => Untouched(j)
          PROVE  Lifecycle!Next \/ UNCHANGED Lifecycle!vars
      BY <1>2, <2>2, StepEffect, OneJobStep
    <2>3. CASE UNCHANGED vars
      BY <2>3 DEF vars, Lifecycle!vars
    <2>4. QED
      BY <1>2, <2>1, <2>2, <2>3, OthersUntouched DEF Next
  <1>3. QED
    BY <1>1, <1>2, TypeInit, TypeStep, AttemptsAreCounted, PTL
       DEF Spec, ImplementsLifecycle, Lifecycle!Spec

=============================================================================
