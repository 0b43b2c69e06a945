-------------------------- MODULE JobPipelineProofs --------------------------
(***************************************************************************)
(* What holds of the pipeline for any number of jobs, lanes, schedulers    *)
(* and reconcilers: first of any pipeline, then of one whose dispatches    *)
(* end before their leases.                                                *)
(***************************************************************************)
EXTENDS JobPipeline, FiniteSetTheorems, TLAPS

(* The rows of one job, and everything else a step of the queue leaves. *)
Kept(j) == job'[j] = job[j] /\ attempt'[j] = attempt[j]

OnlyRow(j) == \A i \in Jobs \ {j} : Kept(i)

CountKept(j) == job'[j].current_attempt = job[j].current_attempt

(* What an operation does to the rows of its job, column by column. *)
Created(j) ==
    /\ ~Q!Exists(j) /\ attempt'[j] = attempt[j]
    /\ job'[j].state = "queued" /\ job'[j].current_attempt = 0

Due(j) ==
    /\ Q!Waiting(j) /\ attempt'[j] = attempt[j]
    /\ job'[j].state = job[j].state /\ CountKept(j)

Started(j) ==
    /\ Q!Unfinished(j) /\ attempt'[j] = attempt[j]
    /\ job'[j].state = "running" /\ CountKept(j)

Cancelled(j) ==
    /\ Q!Unfinished(j) /\ attempt'[j] = attempt[j]
    /\ job'[j].state = "cancelled" /\ CountKept(j)

(* The columns of the attempt that an ending leaves. *)
LeaseKept(j) ==
    /\ attempt'[j].no = attempt[j].no
    /\ attempt'[j].lease = attempt[j].lease
    /\ attempt'[j].prompt = attempt[j].prompt

Succeeded(j, p) ==
    /\ Q!Unfinished(j) /\ LeaseKept(j)
    /\ job'[j].state = "succeeded" /\ ~job'[j].error /\ CountKept(j)
    /\ attempt'[j].result = IF attempt[j].no > 0 THEN p ELSE attempt[j].result

Failed(j) ==
    /\ Q!Unfinished(j) /\ LeaseKept(j) /\ attempt'[j].result = attempt[j].result
    /\ job'[j].state = "failed" /\ CountKept(j)

Retried(j) ==
    /\ Q!Unfinished(j) /\ LeaseKept(j) /\ attempt'[j].result = attempt[j].result
    /\ job'[j].state = "retry_wait"
    /\ job'[j].current_attempt = job[j].current_attempt + 1

Prompted(j, p) ==
    /\ job'[j] = job[j]
    /\ attempt'[j].no = attempt[j].no
    /\ attempt'[j].lease = attempt[j].lease
    /\ attempt'[j].result = attempt[j].result
    /\ attempt'[j].prompt = IF attempt[j].no > 0 THEN p ELSE attempt[j].prompt

Renewed(j) ==
    /\ job'[j] = job[j]
    /\ attempt'[j].no = attempt[j].no
    /\ attempt'[j].prompt = attempt[j].prompt
    /\ attempt'[j].result = attempt[j].result
    /\ attempt'[j].lease = IF attempt[j].no > 0 THEN "live" ELSE attempt[j].lease

Expired(j) ==
    /\ job'[j] = job[j]
    /\ attempt'[j].no = attempt[j].no
    /\ attempt'[j].prompt = attempt[j].prompt
    /\ attempt'[j].result = attempt[j].result
    /\ attempt[j].lease = "live" /\ attempt'[j].lease = "expired"

Claimed(j) ==
    /\ Q!Waiting(j)
    /\ job'[j].state = "dispatched" /\ CountKept(j)
    /\ attempt'[j] = Q!LeasedAttempt(j)

-----------------------------------------------------------------------------
LEMMA RowTypes ==
    ASSUME Q!TypeOK, NEW j \in Jobs
    PROVE  /\ job[j] \in Q!JobRow
           /\ attempt[j] \in Q!AttemptRow
           /\ job[j].current_attempt \in Nat
           /\ attempt[j].no \in Nat
           /\ attempt[j].prompt \in PromptIds \cup {NoPrompt}
           /\ attempt[j].result \in PromptIds \cup {NoPrompt}
           /\ attempt[j].lease \in {"none", "live", "expired"}
           /\ job[j].state \in Q!JobStates
  BY DEF Q!TypeOK, Q!JobRow, Q!AttemptRow

(* Writing one row of a job with a row of the right type. *)
LEMMA WriteRows ==
    ASSUME Q!TypeOK, NEW j \in Jobs, NEW row \in Q!JobRow, NEW att \in Q!AttemptRow,
           job' = [job EXCEPT ![j] = row],
           attempt' = [attempt EXCEPT ![j] = att]
    PROVE  Q!TypeOK' /\ OnlyRow(j) /\ job'[j] = row /\ attempt'[j] = att
  BY DEF Q!TypeOK, OnlyRow, Kept

LEMMA KeepRows ==
    ASSUME Q!TypeOK, UNCHANGED queueVars
    PROVE  Q!TypeOK' /\ \A j \in Jobs : Kept(j)
  BY DEF Q!TypeOK, queueVars, Kept

(* An UPDATE of the latest attempt writes the row there is, if there is one. *)
LEMMA LatestRow ==
    ASSUME Q!TypeOK, NEW j \in Jobs, NEW att, Q!UpdateLatestAttempt(j, att)
    PROVE  attempt' = [attempt EXCEPT ![j] = IF attempt[j].no > 0 THEN att ELSE attempt[j]]
  BY DEF Q!TypeOK, Q!UpdateLatestAttempt, Q!Attempted

LEMMA LatestRowKept ==
    ASSUME Q!TypeOK, NEW j \in Jobs, UNCHANGED attempt
    PROVE  attempt' = [attempt EXCEPT ![j] = attempt[j]]
  BY DEF Q!TypeOK

LEMMA JobRowKept ==
    ASSUME Q!TypeOK, NEW j \in Jobs, UNCHANGED job
    PROVE  job' = [job EXCEPT ![j] = job[j]]
  BY DEF Q!TypeOK

LEMMA EnqueueRows ==
    ASSUME Q!TypeOK, NEW j \in Jobs, Q!Enqueue(j)
    PROVE  Q!TypeOK' /\ OnlyRow(j) /\ Created(j)
  <1> DEFINE row == [Q!NoJob EXCEPT !.state = "queued", !.due = TRUE]
  <1>1. row \in Q!JobRow /\ row.state = "queued" /\ row.current_attempt = 0
    BY DEF Q!NoJob, Q!JobRow, Q!JobStates, Q!BacklogStates
  <1>2. job' = [job EXCEPT ![j] = row] /\ ~Q!Exists(j) /\ UNCHANGED attempt
    BY DEF Q!Enqueue
  <1> HIDE DEF row
  <1>3. attempt' = [attempt EXCEPT ![j] = attempt[j]] /\ attempt[j] \in Q!AttemptRow
    BY <1>2, RowTypes, LatestRowKept
  <1>4. Q!TypeOK' /\ OnlyRow(j) /\ job'[j] = row /\ attempt'[j] = attempt[j]
    BY <1>1, <1>2, <1>3, WriteRows
  <1>5. QED
    BY <1>1, <1>2, <1>4 DEF Created

(* The operations that change the state of an unfinished job and leave its
   attempt. *)
LEMMA StateRows ==
    ASSUME Q!TypeOK, NEW j \in Jobs, NEW s \in Q!JobStates, Q!Unfinished(j),
           Q!UpdateJob(j, [job[j] EXCEPT !.state = s]), UNCHANGED attempt
    PROVE  /\ Q!TypeOK' /\ OnlyRow(j)
           /\ job'[j].state = s /\ CountKept(j) /\ attempt'[j] = attempt[j]
  <1> DEFINE row == [job[j] EXCEPT !.state = s]
  <1>1. row \in Q!JobRow /\ row.state = s /\ row.current_attempt = job[j].current_attempt
    BY RowTypes DEF Q!JobRow
  <1>2. job' = [job EXCEPT ![j] = row]
    BY DEF Q!UpdateJob
  <1> HIDE DEF row
  <1>3. attempt' = [attempt EXCEPT ![j] = attempt[j]] /\ attempt[j] \in Q!AttemptRow
    BY <1>2, RowTypes, LatestRowKept
  <1>4. Q!TypeOK' /\ OnlyRow(j) /\ job'[j] = row /\ attempt'[j] = attempt[j]
    BY <1>1, <1>2, <1>3, WriteRows
  <1>5. QED
    BY <1>1, <1>2, <1>4 DEF CountKept

LEMMA StateNames ==
    /\ {"absent", "queued", "retry_wait", "dispatched", "running",
        "succeeded", "failed", "cancelled"} = Q!JobStates
    /\ {"retry_wait", "succeeded", "failed", "dispatched"} \subseteq Q!AttemptStates
  BY DEF Q!JobStates, Q!AttemptStates, Q!BacklogStates, Q!ActiveStates, Q!TerminalStates

LEMMA CancelRows ==
    ASSUME Q!TypeOK, NEW j \in Jobs, Q!Cancel(j)
    PROVE  Q!TypeOK' /\ OnlyRow(j) /\ (Kept(j) \/ Cancelled(j))
  BY StateRows, StateNames, KeepRows DEF Q!Cancel, Q!vars, queueVars, Cancelled, OnlyRow

LEMMA MarkRunningRows ==
    ASSUME Q!TypeOK, NEW j \in Jobs, Q!MarkRunning(j)
    PROVE  Q!TypeOK' /\ OnlyRow(j) /\ (Kept(j) \/ Started(j))
  BY StateRows, StateNames, KeepRows DEF Q!MarkRunning, Q!vars, queueVars, Started, OnlyRow

LEMMA BackoffRows ==
    ASSUME Q!TypeOK, NEW j \in Jobs, Q!BackoffElapses(j)
    PROVE  Q!TypeOK' /\ OnlyRow(j) /\ Due(j)
  <1> DEFINE row == [job[j] EXCEPT !.due = TRUE]
  <1>1. row \in Q!JobRow /\ row.state = job[j].state /\ row.current_attempt = job[j].current_attempt
    BY RowTypes DEF Q!JobRow
  <1>2. job' = [job EXCEPT ![j] = row] /\ Q!Waiting(j) /\ UNCHANGED attempt
    BY DEF Q!BackoffElapses, Q!Waiting, Q!BacklogStates
  <1> HIDE DEF row
  <1>3. attempt' = [attempt EXCEPT ![j] = attempt[j]] /\ attempt[j] \in Q!AttemptRow
    BY <1>2, RowTypes, LatestRowKept
  <1>4. Q!TypeOK' /\ OnlyRow(j) /\ job'[j] = row /\ attempt'[j] = attempt[j]
    BY <1>1, <1>2, <1>3, WriteRows
  <1>5. QED
    BY <1>1, <1>2, <1>4 DEF Due, CountKept

(* The operations that write the attempt only. *)
LEMMA RenewRows ==
    ASSUME Q!TypeOK, NEW j \in Jobs, Q!RenewLease(j)
    PROVE  Q!TypeOK' /\ OnlyRow(j) /\ Renewed(j)
  <1> DEFINE att == [attempt[j] EXCEPT !.lease = "live"]
             new == IF attempt[j].no > 0 THEN att ELSE attempt[j]
  <1>1. /\ att \in Q!AttemptRow /\ att.lease = "live" /\ att.no = attempt[j].no
        /\ att.prompt = attempt[j].prompt /\ att.result = attempt[j].result
    BY RowTypes DEF Q!AttemptRow
  <1>2. UNCHANGED job /\ Q!UpdateLatestAttempt(j, att)
    BY DEF Q!RenewLease
  <1> HIDE DEF att
  <1>3. attempt' = [attempt EXCEPT ![j] = new]
    BY <1>2, LatestRow
  <1>4. new \in Q!AttemptRow
    BY <1>1, RowTypes
  <1>5. job' = [job EXCEPT ![j] = job[j]] /\ job[j] \in Q!JobRow
    BY <1>2, JobRowKept, RowTypes
  <1>6. Q!TypeOK' /\ OnlyRow(j) /\ job'[j] = job[j] /\ attempt'[j] = new
    BY <1>3, <1>4, <1>5, WriteRows
  <1>7. QED
    BY <1>1, <1>6 DEF Renewed

LEMMA PromptRows ==
    ASSUME Q!TypeOK, NEW j \in Jobs, NEW p \in PromptIds, Q!SetPromptId(j, p)
    PROVE  Q!TypeOK' /\ OnlyRow(j) /\ Prompted(j, p)
  <1> DEFINE att == [attempt[j] EXCEPT !.prompt = p]
             new == IF attempt[j].no > 0 THEN att ELSE attempt[j]
  <1>1. /\ att \in Q!AttemptRow /\ att.prompt = p /\ att.no = attempt[j].no
        /\ att.lease = attempt[j].lease /\ att.result = attempt[j].result
    BY RowTypes DEF Q!AttemptRow
  <1>2. UNCHANGED job /\ Q!UpdateLatestAttempt(j, att)
    BY DEF Q!SetPromptId
  <1> HIDE DEF att
  <1>3. attempt' = [attempt EXCEPT ![j] = new]
    BY <1>2, LatestRow
  <1>4. new \in Q!AttemptRow
    BY <1>1, RowTypes
  <1>5. job' = [job EXCEPT ![j] = job[j]] /\ job[j] \in Q!JobRow
    BY <1>2, JobRowKept, RowTypes
  <1>6. Q!TypeOK' /\ OnlyRow(j) /\ job'[j] = job[j] /\ attempt'[j] = new
    BY <1>3, <1>4, <1>5, WriteRows
  <1>7. QED
    BY <1>1, <1>6 DEF Prompted

LEMMA ExpireRows ==
    ASSUME Q!TypeOK, NEW j \in Jobs, Q!LeaseExpires(j)
    PROVE  Q!TypeOK' /\ OnlyRow(j) /\ Expired(j)
  <1> DEFINE att == [attempt[j] EXCEPT !.lease = "expired"]
  <1>1. /\ att \in Q!AttemptRow /\ att.lease = "expired" /\ att.no = attempt[j].no
        /\ att.prompt = attempt[j].prompt /\ att.result = attempt[j].result
    BY RowTypes DEF Q!AttemptRow
  <1>2. UNCHANGED job /\ attempt[j].lease = "live" /\ attempt' = [attempt EXCEPT ![j] = att]
    BY DEF Q!LeaseExpires
  <1> HIDE DEF att
  <1>3. job' = [job EXCEPT ![j] = job[j]] /\ job[j] \in Q!JobRow
    BY <1>2, JobRowKept, RowTypes
  <1>4. Q!TypeOK' /\ OnlyRow(j) /\ job'[j] = job[j] /\ attempt'[j] = att
    BY <1>1, <1>2, <1>3, WriteRows
  <1>5. QED
    BY <1>1, <1>2, <1>4 DEF Expired

(* The operations that write both rows. *)
LEMMA BothRows ==
    ASSUME Q!TypeOK, NEW j \in Jobs, NEW row \in Q!JobRow, NEW att \in Q!AttemptRow,
           Q!UpdateJob(j, row), Q!UpdateLatestAttempt(j, att)
    PROVE  /\ Q!TypeOK' /\ OnlyRow(j) /\ job'[j] = row
           /\ attempt'[j] = IF attempt[j].no > 0 THEN att ELSE attempt[j]
  <1> DEFINE new == IF attempt[j].no > 0 THEN att ELSE attempt[j]
  <1>1. new \in Q!AttemptRow
    BY RowTypes
  <1>2. attempt' = [attempt EXCEPT ![j] = new]
    BY LatestRow
  <1>3. job' = [job EXCEPT ![j] = row]
    BY DEF Q!UpdateJob
  <1> HIDE DEF new
  <1>4. Q!TypeOK' /\ OnlyRow(j) /\ job'[j] = row /\ attempt'[j] = new
    BY <1>1, <1>2, <1>3, WriteRows
  <1>5. QED
    BY <1>4 DEF new

LEMMA RetryRows ==
    ASSUME Q!TypeOK, NEW j \in Jobs, Q!MarkRetryWait(j)
    PROVE  Q!TypeOK' /\ OnlyRow(j) /\ (Kept(j) \/ Retried(j))
  <1> DEFINE row == [state |-> "retry_wait", current_attempt |-> job[j].current_attempt + 1,
                     error |-> TRUE, due |-> FALSE]
             att == [attempt[j] EXCEPT !.state = "retry_wait"]
  <1>1. CASE Q!Unfinished(j)
    <2>1. row \in Q!JobRow
      BY StateNames, RowTypes DEF Q!JobRow
    <2>2. /\ att \in Q!AttemptRow /\ att.no = attempt[j].no /\ att.lease = attempt[j].lease
          /\ att.prompt = attempt[j].prompt /\ att.result = attempt[j].result
      BY StateNames, RowTypes DEF Q!AttemptRow
    <2>3. Q!UpdateJob(j, row) /\ Q!UpdateLatestAttempt(j, att)
      BY <1>1 DEF Q!MarkRetryWait
    <2>4. row.state = "retry_wait" /\ row.current_attempt = job[j].current_attempt + 1
      OBVIOUS
    <2> HIDE DEF row, att
    <2>5. /\ Q!TypeOK' /\ OnlyRow(j) /\ job'[j] = row
          /\ attempt'[j] = IF attempt[j].no > 0 THEN att ELSE attempt[j]
      BY <2>1, <2>2, <2>3, BothRows
    <2>6. QED
      BY <1>1, <2>2, <2>4, <2>5 DEF Retried, LeaseKept
  <1>2. CASE ~Q!Unfinished(j)
    BY <1>2, KeepRows DEF Q!MarkRetryWait, Q!vars, queueVars, OnlyRow
  <1>3. QED
    BY <1>1, <1>2

LEMMA FailRows ==
    ASSUME Q!TypeOK, NEW j \in Jobs, Q!MarkFailed(j)
    PROVE  Q!TypeOK' /\ OnlyRow(j) /\ (Kept(j) \/ Failed(j))
  <1> DEFINE row == [job[j] EXCEPT !.state = "failed", !.error = TRUE]
             att == [attempt[j] EXCEPT !.state = "failed"]
  <1>1. CASE Q!Unfinished(j)
    <2>1. row \in Q!JobRow /\ row.state = "failed" /\ row.current_attempt = job[j].current_attempt
      BY StateNames, RowTypes DEF Q!JobRow
    <2>2. /\ att \in Q!AttemptRow /\ att.no = attempt[j].no /\ att.lease = attempt[j].lease
          /\ att.prompt = attempt[j].prompt /\ att.result = attempt[j].result
      BY StateNames, RowTypes DEF Q!AttemptRow
    <2>3. Q!UpdateJob(j, row) /\ Q!UpdateLatestAttempt(j, att)
      BY <1>1 DEF Q!MarkFailed
    <2> HIDE DEF row, att
    <2>4. /\ Q!TypeOK' /\ OnlyRow(j) /\ job'[j] = row
          /\ attempt'[j] = IF attempt[j].no > 0 THEN att ELSE attempt[j]
      BY <2>1, <2>2, <2>3, BothRows
    <2>5. QED
      BY <1>1, <2>1, <2>2, <2>4 DEF Failed, LeaseKept, CountKept
  <1>2. CASE ~Q!Unfinished(j)
    BY <1>2, KeepRows DEF Q!MarkFailed, Q!vars, queueVars, OnlyRow
  <1>3. QED
    BY <1>1, <1>2

LEMMA SucceedRows ==
    ASSUME Q!TypeOK, NEW j \in Jobs, NEW p \in PromptIds, Q!MarkSucceeded(j, p)
    PROVE  Q!TypeOK' /\ OnlyRow(j) /\ (Kept(j) \/ Succeeded(j, p))
  <1> DEFINE row == [job[j] EXCEPT !.state = "succeeded", !.error = FALSE]
             att == [attempt[j] EXCEPT !.state = "succeeded", !.result = p]
  <1>1. CASE Q!Unfinished(j)
    <2>1. /\ row \in Q!JobRow /\ row.state = "succeeded" /\ ~row.error
          /\ row.current_attempt = job[j].current_attempt
      BY StateNames, RowTypes DEF Q!JobRow
    <2>2. /\ att \in Q!AttemptRow /\ att.no = attempt[j].no /\ att.lease = attempt[j].lease
          /\ att.prompt = attempt[j].prompt /\ att.result = p
      BY StateNames, RowTypes DEF Q!AttemptRow
    <2>3. Q!UpdateJob(j, row) /\ Q!UpdateLatestAttempt(j, att)
      BY <1>1 DEF Q!MarkSucceeded
    <2> HIDE DEF row, att
    <2>4. /\ Q!TypeOK' /\ OnlyRow(j) /\ job'[j] = row
          /\ attempt'[j] = IF attempt[j].no > 0 THEN att ELSE attempt[j]
      BY <2>1, <2>2, <2>3, BothRows
    <2>5. QED
      BY <1>1, <2>1, <2>2, <2>4 DEF Succeeded, LeaseKept, CountKept
  <1>2. CASE ~Q!Unfinished(j)
    BY <1>2, KeepRows DEF Q!MarkSucceeded, Q!vars, queueVars, OnlyRow
  <1>3. QED
    BY <1>1, <1>2

(* A claim writes the rows of its batch.  Its ON CONFLICT branch is never
   taken: the batch holds waiting jobs, which have counted their attempts. *)
Opened(j) ==
    /\ attempt'[j].no = job[j].current_attempt + 1
    /\ attempt'[j].lease = "live"
    /\ attempt'[j].prompt = NoPrompt
    /\ attempt'[j].result = NoPrompt

LEMMA ClaimRows ==
    ASSUME Q!TypeOK, Q!AttemptsCounted, NEW C \in SUBSET Jobs, Q!Claim(C),
           \A j \in C : Q!Waiting(j)
    PROVE  /\ Q!TypeOK'
           /\ \A j \in C : Claimed(j) /\ Opened(j) /\ attempt[j].no < attempt'[j].no
           /\ \A j \in Jobs \ C : Kept(j)
  <1>1. ASSUME NEW j \in Jobs
        PROVE  /\ [job[j] EXCEPT !.state = "dispatched"] \in Q!JobRow
               /\ [job[j] EXCEPT !.state = "dispatched"].state = "dispatched"
               /\ [job[j] EXCEPT !.state = "dispatched"].current_attempt = job[j].current_attempt
    BY RowTypes, StateNames DEF Q!JobRow
  <1>2. ASSUME NEW j \in C
        PROVE  Q!LeasedAttempt(j) = [no |-> job[j].current_attempt + 1, state |-> "dispatched",
                                     lease |-> "live", prompt |-> NoPrompt, result |-> NoPrompt]
    <2>1. attempt[j].no <= job[j].current_attempt
      BY <1>2 DEF Q!AttemptsCounted
    <2>2. ~(attempt[j].no >= job[j].current_attempt + 1)
      BY <2>1, RowTypes
    <2>3. QED
      BY <2>2 DEF Q!LeasedAttempt, Q!NoAttempt
  <1>3. ASSUME NEW j \in C
        PROVE  Q!LeasedAttempt(j) \in Q!AttemptRow
    BY <1>2, RowTypes, StateNames DEF Q!AttemptRow
  <1>4. Q!TypeOK'
    BY <1>1, <1>3 DEF Q!TypeOK, Q!Claim
  <1>5. ASSUME NEW j \in C
        PROVE  Claimed(j) /\ Opened(j) /\ attempt[j].no < attempt'[j].no
    <2>1. attempt'[j] = Q!LeasedAttempt(j) /\ job'[j] = [job[j] EXCEPT !.state = "dispatched"]
      BY DEF Q!Claim
    <2>2. attempt[j].no <= job[j].current_attempt
      BY <1>5 DEF Q!AttemptsCounted
    <2>3. Claimed(j)
      BY <1>1, <2>1 DEF Claimed, CountKept
    <2>4. Opened(j)
      BY <1>2, <2>1 DEF Opened
    <2>5. QED
      BY <2>2, <2>3, <2>4, RowTypes DEF Opened
  <1>6. QED
    BY <1>4, <1>5 DEF Kept, Q!Claim

-----------------------------------------------------------------------------
(* The inductive invariant of any pipeline. *)

(* Somebody works on attempt n of job j, or is about to. *)
Holds(j, n) ==
    \/ \E t \in task : t.job = j /\ t.no = n
    \/ \E s \in Schedulers : [job |-> j, no |-> n] \in tick[s].claimed

(* A reconciler has read the row and not yet acted on it. *)
Known(row) ==
    \E r \in Reconcilers : row \in pass[r] \/ (answer[r] # NoAnswer /\ answer[r].row = row)

(* Somebody may still ask about prompt p, or store it, for job j. *)
Asked(j, p) ==
    \/ attempt[j].prompt = p
    \/ attempt[j].result = p
    \/ \E row \in Snapshot : Known(row) /\ row.job = j /\ row.prompt = p

Rooms == {Idle.room} \cup UNION {[D -> Nat] : D \in SUBSET Lanes}

Types ==
    /\ TypeOK
    /\ tick \in [Schedulers -> [room : Rooms, claimed : SUBSET Handle]]
    /\ \A j \in Jobs : job[j].current_attempt < AttemptBound

Leased ==
    \A j \in Jobs : /\ attempt[j].no > 0 => attempt[j].lease # "none"
                    /\ Q!Active(j) => attempt[j].no > 0

(* Whoever holds an attempt has opened it, and nobody else holds it. *)
HandlesOpened ==
    \A j \in Jobs, n \in 1..AttemptBound : Holds(j, n) => n <= attempt[j].no

OneHolder ==
    /\ \A t, u \in task : t.job = u.job /\ t.no = u.no => t = u
    /\ \A t \in task, s \in Schedulers : [job |-> t.job, no |-> t.no] \notin tick[s].claimed
    /\ \A s, q \in Schedulers : s # q => tick[s].claimed \cap tick[q].claimed = {}

AcceptedWasSubmitted ==
    \A t \in task : t.pc = "accepted" => prompt[<<t.job, t.no>>] # "none"

(* A prompt that is asked about was submitted, for an attempt of its job
   that nobody holds any more: its status is never overwritten by a submit. *)
AskedWasReleased ==
    \A j \in Jobs, p \in PromptIds :
        Asked(j, p) => /\ p[1] = j
                       /\ p[2] <= attempt[j].no
                       /\ prompt[p] # "none"
                       /\ ~Holds(j, p[2])

(* A row that was read is never ahead of the row it was read from. *)
RowsBehind ==
    \A row \in Snapshot : Known(row) => row.current_attempt <= job[row.job].current_attempt

(* An answer still describes the prompt when it is acted upon. *)
AnswersHold ==
    \A r \in Reconcilers : answer[r] # NoAnswer =>
        /\ answer[r].row.prompt # NoPrompt
        /\ answer[r].status = "succeeded"
              => prompt[answer[r].row.prompt] \in {"succeeded", "forgotten"}
        /\ answer[r].status = "failed" /\ CloudLanes = {}
              => prompt[answer[r].row.prompt] \in {"failed", "rejected", "forgotten"}

Inv ==
    /\ Types
    /\ Q!AttemptsCounted
    /\ Leased
    /\ HandlesOpened
    /\ OneHolder
    /\ AcceptedWasSubmitted
    /\ AskedWasReleased
    /\ RowsBehind
    /\ AnswersHold
    /\ SucceededIsGenuine
    /\ FailedOnlyAtBudget

(* What is added when dispatches end before their leases and one reconciler
   looks at the jobs. *)
OwnsAttempt(j, n) ==
    /\ attempt[j].no = n
    /\ attempt[j].prompt = NoPrompt
    /\ attempt[j].lease = "live"
    /\ job[j].current_attempt + 1 = n
    /\ Q!Active(j) \/ job[j].state = "cancelled"

Owned == \A j \in Jobs, n \in 1..AttemptBound : Holds(j, n) => OwnsAttempt(j, n)

(* A row the pass may act upon is of a job nobody dispatches, and nothing
   but the pass itself sends that job back to wait. *)
Decisive(row) == row.prompt # NoPrompt \/ row.expired

Settled(j) == ~Q!Waiting(j) /\ Q!Exists(j) /\ \A n \in 1..AttemptBound : ~Holds(j, n)

RowsSettled == \A row \in Snapshot : Known(row) /\ Decisive(row) => Settled(row.job)

OneRowPerJob ==
    \A r \in Reconcilers :
        /\ \A row, other \in pass[r] : row.job = other.job => row = other
        /\ answer[r] # NoAnswer => \A row \in pass[r] : row.job # answer[r].row.job

SoloInv == Inv /\ Owned /\ RowsSettled /\ OneRowPerJob /\ PromptOfAttempt

(* What is added with one scheduler: the rooms a tick has left are free. *)
RoomIsFree ==
    \A s \in Schedulers : tick[s] # Idle =>
        \A l \in DOMAIN tick[s].room :
            Cardinality(Q!ActiveIn(l)) + tick[s].room[l] <= Slots[l]

SlotInv == SoloInv /\ SlotsHold /\ RoomIsFree

-----------------------------------------------------------------------------
(* A step, as far as the invariant can tell.  What it writes is licensed by
   what was read before. *)
MayStart(j) == \E n \in 1..AttemptBound : Holds(j, n)

MayFail(j) == job[j].current_attempt + 1 >= MaxAttempts

MaySucceed(j, p) == Asked(j, p) /\ prompt[p] \in {"succeeded", "forgotten"}

MayRecord(j, p) ==
    /\ p[1] = j
    /\ p[2] <= attempt[j].no
    /\ prompt[p] # "none" /\ prompt' = prompt
    /\ ~Holds(j, p[2])'

RowStep(j) ==
    \/ Kept(j) \/ Created(j) \/ Due(j) \/ Cancelled(j)
    \/ Retried(j) \/ Renewed(j) \/ Expired(j)
    \/ Started(j) /\ MayStart(j)
    \/ Failed(j) /\ MayFail(j)
    \/ \E p \in PromptIds : Succeeded(j, p) /\ MaySucceed(j, p)
    \/ \E p \in PromptIds : Prompted(j, p) /\ MayRecord(j, p)
    \/ Claimed(j) /\ Opened(j) /\ attempt[j].no < attempt'[j].no

(* A prompt moves on, or it is submitted for an attempt somebody holds. *)
PromptStep(p) ==
    \/ prompt'[p] = prompt[p]
    \/ prompt[p] = "running" /\ prompt'[p] \in {"succeeded", "failed", "forgotten"}
    \/ prompt[p] \in {"succeeded", "failed"} /\ prompt'[p] = "forgotten"
    \/ Holds(p[1], p[2]) /\ prompt'[p] # "none"

FlightStep ==
    /\ OneHolder'
    /\ AcceptedWasSubmitted'
    /\ \A j \in Jobs, n \in 1..AttemptBound :
          Holds(j, n)' => Holds(j, n) \/ (Claimed(j) /\ attempt'[j].no = n)

KnownStep ==
    /\ \A row \in Snapshot :
          Known(row)' => Known(row) \/ (row.job \in Jobs /\ row = SnapshotOf(row.job))
    /\ \A r \in Reconcilers :
          \/ answer'[r] \in {answer[r], NoAnswer}
          \/ /\ answer'[r].row.prompt # NoPrompt
             /\ Asked(answer'[r].row.job, answer'[r].row.prompt)
             /\ answer'[r].status = "succeeded"
                   => prompt'[answer'[r].row.prompt] \in {"succeeded", "forgotten"}
             /\ answer'[r].status = "failed" /\ CloudLanes = {}
                   => prompt'[answer'[r].row.prompt] \in {"failed", "rejected", "forgotten"}

Step ==
    /\ Types'
    /\ \A j \in Jobs : RowStep(j)
    /\ \A p \in PromptIds : PromptStep(p)
    /\ FlightStep
    /\ KnownStep

LEMMA CountsMonotone ==
    ASSUME Types, Q!AttemptsCounted, NEW j \in Jobs, RowStep(j)
    PROVE  /\ attempt[j].no <= attempt'[j].no
           /\ job[j].current_attempt <= job'[j].current_attempt
  <1>1. /\ job[j].current_attempt \in Nat /\ attempt[j].no \in Nat
        /\ ~Q!Exists(j) => job[j].current_attempt = 0
    BY RowTypes DEF Types, TypeOK, Q!AttemptsCounted
  <1>2. CASE Kept(j) \/ Created(j) \/ Due(j) \/ Started(j) \/ Cancelled(j)
    BY <1>1, <1>2 DEF Kept, Created, Due, Started, Cancelled, CountKept
  <1>3. CASE Failed(j) \/ Retried(j) \/ \E p \in PromptIds : Succeeded(j, p)
    BY <1>1, <1>3 DEF Failed, Retried, Succeeded, LeaseKept, CountKept
  <1>4. CASE Renewed(j) \/ Expired(j) \/ \E p \in PromptIds : Prompted(j, p)
    BY <1>1, <1>4 DEF Renewed, Expired, Prompted
  <1>5. CASE Claimed(j) /\ Opened(j) /\ attempt[j].no < attempt'[j].no
    BY <1>1, <1>5 DEF Claimed, Opened, CountKept
  <1>6. QED
    BY <1>2, <1>3, <1>4, <1>5 DEF RowStep

LEMMA AttemptsCountedStep ==
    ASSUME Types, Q!AttemptsCounted, \A j \in Jobs : RowStep(j)
    PROVE  Q!AttemptsCounted'
  <1> SUFFICES ASSUME NEW j \in Jobs
               PROVE  /\ attempt'[j].no <= job'[j].current_attempt + 1
                      /\ Q!Waiting(j)' => attempt'[j].no <= job'[j].current_attempt
                      /\ ~Q!Exists(j)' => attempt'[j].no = 0 /\ job'[j].current_attempt = 0
    BY DEF Q!AttemptsCounted
  <1>1. /\ job[j].current_attempt \in Nat /\ attempt[j].no \in Nat
        /\ attempt[j].no <= job[j].current_attempt + 1
        /\ Q!Waiting(j) => attempt[j].no <= job[j].current_attempt
        /\ ~Q!Exists(j) => attempt[j].no = 0 /\ job[j].current_attempt = 0
    BY RowTypes DEF Types, TypeOK, Q!AttemptsCounted
  <1>2. RowStep(j)
    OBVIOUS
  <1>3. CASE Kept(j) \/ Created(j) \/ Due(j)
    BY <1>1, <1>3 DEF Kept, Created, Due, CountKept, Q!Exists, Q!Waiting, Q!BacklogStates
  <1>4. CASE Started(j) \/ Cancelled(j)
    BY <1>1, <1>4 DEF Started, Cancelled, CountKept, Q!Exists, Q!Waiting, Q!BacklogStates
  <1>5. CASE Failed(j) \/ Retried(j) \/ \E p \in PromptIds : Succeeded(j, p)
    BY <1>1, <1>5 DEF Failed, Retried, Succeeded, LeaseKept, CountKept, Q!Exists, Q!Waiting,
                      Q!BacklogStates
  <1>6. CASE Renewed(j) \/ Expired(j) \/ \E p \in PromptIds : Prompted(j, p)
    BY <1>1, <1>6 DEF Renewed, Expired, Prompted, Q!Exists, Q!Waiting
  <1>7. CASE Claimed(j) /\ Opened(j)
    BY <1>1, <1>7 DEF Claimed, Opened, CountKept, Q!Exists, Q!Waiting, Q!BacklogStates
  <1>8. QED
    BY <1>2, <1>3, <1>4, <1>5, <1>6, <1>7 DEF RowStep

LEMMA LeasedStep ==
    ASSUME Types, Leased, HandlesOpened, \A j \in Jobs : RowStep(j)
    PROVE  Leased'
  <1> SUFFICES ASSUME NEW j \in Jobs
               PROVE  /\ attempt'[j].no > 0 => attempt'[j].lease # "none"
                      /\ Q!Active(j)' => attempt'[j].no > 0
    BY DEF Leased
  <1>1. /\ job[j].current_attempt \in Nat /\ attempt[j].no \in Nat
        /\ attempt[j].no > 0 => attempt[j].lease # "none"
        /\ Q!Active(j) => attempt[j].no > 0
    BY RowTypes DEF Types, TypeOK, Leased
  <1>2. RowStep(j)
    OBVIOUS
  <1>3. CASE Kept(j) \/ Created(j) \/ Due(j) \/ Cancelled(j)
    BY <1>1, <1>3 DEF Kept, Created, Due, Cancelled, Q!Active, Q!ActiveStates
  <1>4. CASE Started(j) /\ MayStart(j)
    <2>1. PICK n \in 1..AttemptBound : Holds(j, n)
      BY <1>4 DEF MayStart
    <2>2. attempt[j].no > 0
      BY <1>1, <2>1 DEF HandlesOpened
    <2>3. QED
      BY <1>1, <1>4, <2>2 DEF Started
  <1>5. CASE Failed(j) \/ Retried(j) \/ \E p \in PromptIds : Succeeded(j, p)
    BY <1>1, <1>5 DEF Failed, Retried, Succeeded, LeaseKept, Q!Active, Q!ActiveStates
  <1>6. CASE Renewed(j) \/ Expired(j) \/ \E p \in PromptIds : Prompted(j, p)
    BY <1>1, <1>6 DEF Renewed, Expired, Prompted, Q!Active, Q!ActiveStates
  <1>7. CASE Claimed(j) /\ Opened(j)
    BY <1>1, <1>7 DEF Opened
  <1>8. QED
    BY <1>2, <1>3, <1>4, <1>5, <1>6, <1>7 DEF RowStep

LEMMA HandlesOpenedStep ==
    ASSUME Types, Types', Q!AttemptsCounted, HandlesOpened, FlightStep, \A j \in Jobs : RowStep(j)
    PROVE  HandlesOpened'
  <1> SUFFICES ASSUME NEW j \in Jobs, NEW n \in 1..AttemptBound, Holds(j, n)'
               PROVE  n <= attempt'[j].no
    BY DEF HandlesOpened
  <1>1. attempt[j].no \in Nat /\ attempt'[j].no \in Nat
    BY RowTypes DEF Types, TypeOK, Q!TypeOK, Q!AttemptRow
  <1>2. attempt[j].no <= attempt'[j].no
    BY CountsMonotone
  <1>3. Holds(j, n) \/ attempt'[j].no = n
    BY DEF FlightStep
  <1>4. QED
    BY <1>1, <1>2, <1>3 DEF HandlesOpened

(* Nothing new is asked about, except the prompt that a task records. *)
LEMMA AskedStep ==
    ASSUME Types, Types', Step, NEW j \in Jobs, NEW p \in PromptIds, Asked(j, p)',
           NoPrompt \notin PromptIds
    PROVE  Asked(j, p) \/ (Prompted(j, p) /\ MayRecord(j, p))
  <1>1. RowStep(j) /\ KnownStep
    BY DEF Step
  <1>2. CASE \E row \in Snapshot : Known(row)' /\ row.job = j /\ row.prompt = p
    <2>1. PICK row \in Snapshot : Known(row)' /\ row.job = j /\ row.prompt = p
      BY <1>2
    <2>2. Known(row) \/ row = SnapshotOf(j)
      BY <1>1, <2>1 DEF KnownStep
    <2>3. CASE Known(row)
      BY <2>1, <2>3 DEF Asked
    <2>4. CASE row = SnapshotOf(j)
      BY <2>1, <2>4 DEF Asked, SnapshotOf
    <2>5. QED
      BY <2>2, <2>3, <2>4
  <1>3. CASE attempt'[j].prompt = p \/ attempt'[j].result = p
    <2>1. CASE \/ Kept(j) \/ Created(j) \/ Due(j) \/ Started(j) \/ Cancelled(j)
               \/ Failed(j) \/ Retried(j) \/ Renewed(j) \/ Expired(j)
      BY <1>3, <2>1 DEF Asked, Kept, Created, Due, Started, Cancelled, Failed, Retried, Renewed,
                        Expired, LeaseKept
    <2>2. ASSUME NEW q \in PromptIds, Succeeded(j, q), MaySucceed(j, q)
          PROVE  Asked(j, p)
      <3>1. Asked(j, q)
        BY <2>2 DEF MaySucceed
      <3>2. p = q \/ attempt[j].prompt = p \/ attempt[j].result = p
        BY <1>3, <2>2 DEF Succeeded, LeaseKept
      <3>3. QED
        BY <3>1, <3>2 DEF Asked
    <2>3. ASSUME NEW q \in PromptIds, Prompted(j, q), MayRecord(j, q)
          PROVE  Asked(j, p) \/ (Prompted(j, p) /\ MayRecord(j, p))
      <3>1. p = q \/ attempt[j].prompt = p \/ attempt[j].result = p
        BY <1>3, <2>3 DEF Prompted
      <3>2. QED
        BY <2>3, <3>1 DEF Asked
    <2>4. CASE Claimed(j) /\ Opened(j)
      BY <1>3, <2>4 DEF Opened
    <2>5. QED
      BY <1>1, <2>1, <2>2, <2>3, <2>4 DEF RowStep
  <1>4. QED
    BY <1>2, <1>3 DEF Asked

LEMMA PromptPairs ==
    ASSUME NEW p \in PromptIds
    PROVE  p[1] \in Jobs /\ p[2] \in 1..AttemptBound /\ p = <<p[1], p[2]>>
  BY DEF PromptIds

LEMMA AskedWasReleasedStep ==
    ASSUME Types, Types', Q!AttemptsCounted, AskedWasReleased, Step, NoPrompt \notin PromptIds
    PROVE  AskedWasReleased'
  <1> SUFFICES ASSUME NEW j \in Jobs, NEW p \in PromptIds, Asked(j, p)'
               PROVE  /\ p[1] = j
                      /\ p[2] <= attempt'[j].no
                      /\ prompt'[p] # "none"
                      /\ ~Holds(j, p[2])'
    BY DEF AskedWasReleased
  <1>1. /\ attempt[j].no \in Nat /\ attempt'[j].no \in Nat
        /\ p[1] \in Jobs /\ p[2] \in 1..AttemptBound
    BY RowTypes, PromptPairs DEF Types, TypeOK, Q!TypeOK, Q!AttemptRow
  <1>2. RowStep(j) /\ PromptStep(p) /\ FlightStep
    BY DEF Step
  <1>3. attempt[j].no <= attempt'[j].no
    BY <1>2, CountsMonotone
  <1>4. CASE Asked(j, p)
    <2>1. p[1] = j /\ p[2] <= attempt[j].no /\ prompt[p] # "none" /\ ~Holds(j, p[2])
      BY <1>4 DEF AskedWasReleased
    <2>2. prompt'[p] # "none"
      BY <1>2, <2>1 DEF PromptStep
    <2>3. ~(Claimed(j) /\ attempt'[j].no = p[2])
      <3>1. SUFFICES ASSUME Claimed(j)
                     PROVE  attempt[j].no < attempt'[j].no
        BY <1>1, <2>1
      <3>2. attempt[j].no <= job[j].current_attempt /\ job[j].current_attempt \in Nat
        BY <3>1, RowTypes DEF Claimed, Q!AttemptsCounted, Types, TypeOK
      <3>3. ~(attempt[j].no >= job[j].current_attempt + 1)
        BY <1>1, <3>2
      <3>4. attempt'[j].no = job[j].current_attempt + 1
        BY <3>1, <3>3 DEF Claimed, Q!LeasedAttempt, Q!NoAttempt
      <3>5. QED
        BY <1>1, <3>2, <3>4
    <2>4. QED
      BY <1>1, <1>2, <1>3, <2>1, <2>2, <2>3 DEF FlightStep
  <1>5. CASE Prompted(j, p) /\ MayRecord(j, p)
    BY <1>1, <1>2, <1>3, <1>5 DEF MayRecord
  <1>6. QED
    BY <1>4, <1>5, AskedStep

LEMMA RowsBehindStep ==
    ASSUME Types, Types', Q!AttemptsCounted, RowsBehind, Step
    PROVE  RowsBehind'
  <1> SUFFICES ASSUME NEW row \in Snapshot, Known(row)'
               PROVE  row.current_attempt <= job'[row.job].current_attempt
    BY DEF RowsBehind
  <1>1. row.job \in Jobs /\ row.current_attempt \in Nat
    BY DEF Snapshot
  <1>2. /\ job[row.job].current_attempt \in Nat /\ job'[row.job].current_attempt \in Nat
        /\ job[row.job].current_attempt <= job'[row.job].current_attempt
    BY <1>1, RowTypes, CountsMonotone DEF Step, Types, TypeOK, Q!TypeOK, Q!JobRow
  <1>3. Known(row) \/ row = SnapshotOf(row.job)
    BY DEF Step, KnownStep
  <1>4. QED
    BY <1>1, <1>2, <1>3 DEF RowsBehind, SnapshotOf

(* What a prompt has come to stays true of it while it is asked about. *)
LEMMA SettledPrompt ==
    ASSUME AskedWasReleased, Step, NEW j \in Jobs, NEW p \in PromptIds, Asked(j, p)
    PROVE  /\ prompt[p] \in {"succeeded", "forgotten"} => prompt'[p] \in {"succeeded", "forgotten"}
           /\ prompt[p] \in {"failed", "rejected", "forgotten"}
                 => prompt'[p] \in {"failed", "rejected", "forgotten"}
  <1>1. PromptStep(p)
    BY DEF Step
  <1>2. p[1] = j /\ ~Holds(j, p[2])
    BY DEF AskedWasReleased
  <1>3. QED
    BY <1>1, <1>2 DEF PromptStep

LEMMA AnswerKnown ==
    ASSUME Types, NEW r \in Reconcilers, answer[r] # NoAnswer
    PROVE  /\ answer[r] \in Answer
           /\ answer[r].row \in Snapshot /\ answer[r].row.job \in Jobs
           /\ answer[r].row.prompt \in PromptIds \cup {NoPrompt}
           /\ Known(answer[r].row)
           /\ Asked(answer[r].row.job, answer[r].row.prompt)
  <1>1. answer[r] \in Answer
    BY DEF Types, TypeOK
  <1>2. answer[r].row \in Snapshot
    BY <1>1 DEF Answer
  <1>3. Known(answer[r].row)
    BY DEF Known
  <1>4. QED
    BY <1>1, <1>2, <1>3 DEF Snapshot, Asked

LEMMA AnswersHoldStep ==
    ASSUME Types, Types', AskedWasReleased, AnswersHold, Step
    PROVE  AnswersHold'
  <1> SUFFICES ASSUME NEW r \in Reconcilers, answer'[r] # NoAnswer
               PROVE  /\ answer'[r].row.prompt # NoPrompt
                      /\ answer'[r].status = "succeeded"
                            => prompt'[answer'[r].row.prompt] \in {"succeeded", "forgotten"}
                      /\ answer'[r].status = "failed" /\ CloudLanes = {}
                            => prompt'[answer'[r].row.prompt] \in {"failed", "rejected", "forgotten"}
    BY DEF AnswersHold
  <1>1. CASE answer'[r] = answer[r]
    <2> DEFINE p == answer[r].row.prompt
    <2>1. /\ p # NoPrompt
          /\ answer[r].status = "succeeded" => prompt[p] \in {"succeeded", "forgotten"}
          /\ answer[r].status = "failed" /\ CloudLanes = {}
                => prompt[p] \in {"failed", "rejected", "forgotten"}
      BY <1>1 DEF AnswersHold
    <2>2. p \in PromptIds /\ answer[r].row.job \in Jobs /\ Asked(answer[r].row.job, p)
      BY <1>1, <2>1, AnswerKnown
    <2> HIDE DEF p
    <2>3. /\ prompt[p] \in {"succeeded", "forgotten"} => prompt'[p] \in {"succeeded", "forgotten"}
          /\ prompt[p] \in {"failed", "rejected", "forgotten"}
                => prompt'[p] \in {"failed", "rejected", "forgotten"}
      BY <2>2, SettledPrompt
    <2>4. QED
      BY <1>1, <2>1, <2>3 DEF p
  <1>2. CASE answer'[r] # answer[r]
    BY <1>2 DEF Step, KnownStep
  <1>3. QED
    BY <1>1, <1>2

(* Only a job that was not finished changes its state. *)
LEMMA StateStep ==
    ASSUME Types, NEW j \in Jobs, RowStep(j)
    PROVE  /\ Q!Terminal(j) => /\ job'[j] = job[j]
                               /\ attempt'[j].result = attempt[j].result
           /\ job'[j].state = "succeeded"
                 => \/ job[j].state = "succeeded"
                    \/ \E p \in PromptIds : Succeeded(j, p) /\ MaySucceed(j, p)
           /\ job'[j].state = "failed" => job[j].state = "failed" \/ (Failed(j) /\ MayFail(j))
  <1>1. Q!Terminal(j) => ~Q!Unfinished(j) /\ ~Q!Waiting(j) /\ Q!Exists(j)
    BY DEF Q!Terminal, Q!Unfinished, Q!Waiting, Q!Exists, Q!TerminalStates, Q!BacklogStates
  <1>2. CASE Kept(j) \/ Created(j) \/ Due(j) \/ Started(j) \/ Cancelled(j)
    BY <1>1, <1>2 DEF Kept, Created, Due, Started, Cancelled
  <1>3. CASE \/ Failed(j) /\ MayFail(j)
             \/ Retried(j)
             \/ \E p \in PromptIds : Succeeded(j, p) /\ MaySucceed(j, p)
    BY <1>1, <1>3 DEF Failed, Retried, Succeeded
  <1>4. CASE Renewed(j) \/ Expired(j) \/ \E p \in PromptIds : Prompted(j, p)
    BY <1>1, <1>4 DEF Renewed, Expired, Prompted
  <1>5. CASE Claimed(j)
    BY <1>1, <1>5 DEF Claimed
  <1>6. QED
    BY <1>2, <1>3, <1>4, <1>5 DEF RowStep

LEMMA SucceededIsGenuineStep ==
    ASSUME Types, Types', AskedWasReleased, SucceededIsGenuine, Step, NoPrompt \notin PromptIds
    PROVE  SucceededIsGenuine'
  <1> SUFFICES ASSUME NEW j \in Jobs, job'[j].state = "succeeded"
               PROVE  /\ ~job'[j].error
                      /\ attempt'[j].result # NoPrompt
                      /\ attempt'[j].result[1] = j
                      /\ prompt'[attempt'[j].result] \in {"succeeded", "forgotten"}
    BY DEF SucceededIsGenuine
  <1>1. RowStep(j)
    BY DEF Step
  <1>2. CASE job[j].state = "succeeded"
    <2> DEFINE p == attempt[j].result
    <2>1. ~job[j].error /\ p # NoPrompt /\ p[1] = j /\ prompt[p] \in {"succeeded", "forgotten"}
      BY <1>2 DEF SucceededIsGenuine
    <2>2. job'[j] = job[j] /\ attempt'[j].result = p
      BY <1>1, <1>2, StateStep DEF Q!Terminal, Q!TerminalStates
    <2>3. p \in PromptIds /\ Asked(j, p)
      BY <2>1, RowTypes DEF Types, TypeOK, Asked
    <2> HIDE DEF p
    <2>4. prompt'[p] \in {"succeeded", "forgotten"}
      BY <2>1, <2>3, SettledPrompt
    <2>5. QED
      BY <2>1, <2>2, <2>4
  <1>3. ASSUME NEW p \in PromptIds, Succeeded(j, p), MaySucceed(j, p)
        PROVE  /\ ~job'[j].error
               /\ attempt'[j].result # NoPrompt
               /\ attempt'[j].result[1] = j
               /\ prompt'[attempt'[j].result] \in {"succeeded", "forgotten"}
    <2>1. Asked(j, p) /\ prompt[p] \in {"succeeded", "forgotten"}
      BY <1>3 DEF MaySucceed
    <2>2. p[1] = j /\ p[2] <= attempt[j].no
      BY <2>1 DEF AskedWasReleased
    <2>3. attempt[j].no > 0
      BY <2>2, PromptPairs, RowTypes DEF Types, TypeOK
    <2>4. attempt'[j].result = p /\ ~job'[j].error
      BY <1>3, <2>3 DEF Succeeded
    <2>5. prompt'[p] \in {"succeeded", "forgotten"}
      BY <2>1, SettledPrompt
    <2>6. QED
      BY <2>2, <2>4, <2>5
  <1>4. QED
    BY <1>1, <1>2, <1>3, StateStep

LEMMA FailedOnlyAtBudgetStep ==
    ASSUME Types, Q!AttemptsCounted, FailedOnlyAtBudget, Step
    PROVE  FailedOnlyAtBudget'
  <1> SUFFICES ASSUME NEW j \in Jobs, job'[j].state = "failed"
               PROVE  job'[j].current_attempt + 1 >= MaxAttempts
    BY DEF FailedOnlyAtBudget
  <1>1. RowStep(j)
    BY DEF Step
  <1>2. CASE job[j].state = "failed"
    BY <1>1, <1>2, StateStep DEF FailedOnlyAtBudget, Q!Terminal, Q!TerminalStates
  <1>3. CASE Failed(j) /\ MayFail(j)
    BY <1>3 DEF MayFail, Failed, CountKept
  <1>4. QED
    BY <1>1, <1>2, <1>3, StateStep

(* Every step of that kind keeps the invariant. *)
LEMMA StepKeepsInv ==
    ASSUME Inv, Step, NoPrompt \notin PromptIds
    PROVE  Inv'
  <1>1. Types' /\ OneHolder' /\ AcceptedWasSubmitted' /\ FlightStep
    BY DEF Step, FlightStep
  <1>2. \A j \in Jobs : RowStep(j)
    BY DEF Step
  <1>3. Q!AttemptsCounted' /\ Leased' /\ HandlesOpened'
    BY <1>1, <1>2, AttemptsCountedStep, LeasedStep, HandlesOpenedStep DEF Inv
  <1>4. AskedWasReleased' /\ RowsBehind' /\ AnswersHold'
    BY <1>1, AskedWasReleasedStep, RowsBehindStep, AnswersHoldStep DEF Inv
  <1>5. SucceededIsGenuine' /\ FailedOnlyAtBudget'
    BY <1>1, SucceededIsGenuineStep, FailedOnlyAtBudgetStep DEF Inv
  <1>6. QED
    BY <1>1, <1>3, <1>4, <1>5 DEF Inv

-----------------------------------------------------------------------------
(* The parts of a step. *)
LEMMA OneRowStep ==
    ASSUME NEW j \in Jobs, OnlyRow(j), RowStep(j)
    PROVE  \A i \in Jobs : RowStep(i)
  BY DEF OnlyRow, RowStep

LEMMA CountsBounded ==
    ASSUME Types, Q!TypeOK', \A j \in Jobs : RowStep(j),
           \A j \in Jobs : Retried(j) => job[j].current_attempt + 1 < AttemptBound
    PROVE  \A j \in Jobs : job'[j].current_attempt < AttemptBound
  <1> SUFFICES ASSUME NEW j \in Jobs
               PROVE  job'[j].current_attempt < AttemptBound
    OBVIOUS
  <1>1. job[j].current_attempt < AttemptBound /\ RowStep(j)
    BY DEF Types
  <1>2. 0 < AttemptBound
    BY PipelineAssumption
  <1>3. CASE Kept(j) \/ Created(j) \/ Due(j) \/ Started(j) \/ Cancelled(j)
    BY <1>1, <1>2, <1>3 DEF Kept, Created, Due, Started, Cancelled, CountKept
  <1>4. CASE Failed(j) \/ Retried(j) \/ \E p \in PromptIds : Succeeded(j, p)
    BY <1>1, <1>4 DEF Failed, Retried, Succeeded, CountKept
  <1>5. CASE Renewed(j) \/ Expired(j) \/ \E p \in PromptIds : Prompted(j, p)
    BY <1>1, <1>5 DEF Renewed, Expired, Prompted
  <1>6. CASE Claimed(j)
    BY <1>1, <1>6 DEF Claimed, CountKept
  <1>7. QED
    BY <1>1, <1>3, <1>4, <1>5, <1>6 DEF RowStep

LEMMA SamePrompts == UNCHANGED prompt => \A p \in PromptIds : PromptStep(p)
  BY DEF PromptStep

(* Tasks advance or end, claimed jobs are given up: nobody gets an attempt. *)
LEMMA FlightShrinks ==
    ASSUME Types, OneHolder, AcceptedWasSubmitted, \A p \in PromptIds : PromptStep(p),
           \A t \in task' : /\ t.pc = "accepted"
                                 => t \in task \/ prompt'[<<t.job, t.no>>] # "none"
                            /\ \E u \in task : u.job = t.job /\ u.no = t.no,
           \A t, u \in task' : t.job = u.job /\ t.no = u.no => t = u,
           \A s \in Schedulers : tick'[s].claimed \subseteq tick[s].claimed
    PROVE  /\ FlightStep
           /\ \A j \in Jobs, n \in 1..AttemptBound : Holds(j, n)' => Holds(j, n)
  <1>1. \A j \in Jobs, n \in 1..AttemptBound : Holds(j, n)' => Holds(j, n)
    BY DEF Holds
  <1>2. OneHolder'
    BY DEF OneHolder
  <1>3. AcceptedWasSubmitted'
    <2> SUFFICES ASSUME NEW t \in task', t.pc = "accepted"
                 PROVE  prompt'[<<t.job, t.no>>] # "none"
      BY DEF AcceptedWasSubmitted
    <2>1. CASE t \in task
      <3>1. prompt[<<t.job, t.no>>] # "none"
        BY <2>1 DEF AcceptedWasSubmitted
      <3>2. <<t.job, t.no>> \in PromptIds
        BY <2>1 DEF Types, TypeOK, Task, PromptIds
      <3>3. QED
        BY <3>1, <3>2 DEF PromptStep
    <2>2. QED
      BY <2>1
  <1>4. QED
    BY <1>1, <1>2, <1>3 DEF FlightStep

LEMMA SameFlight ==
    ASSUME Types, OneHolder, AcceptedWasSubmitted, UNCHANGED <<task, tick>>,
           \A p \in PromptIds : PromptStep(p)
    PROVE  /\ FlightStep
           /\ \A j \in Jobs, n \in 1..AttemptBound : Holds(j, n)' => Holds(j, n)
  <1>1. \A t, u \in task' : t.job = u.job /\ t.no = u.no => t = u
    BY DEF OneHolder
  <1>2. QED
    BY <1>1, FlightShrinks

LEMMA TickFlight ==
    ASSUME Types, OneHolder, AcceptedWasSubmitted, UNCHANGED <<task, prompt>>,
           \A s \in Schedulers : tick'[s].claimed \subseteq tick[s].claimed
    PROVE  /\ FlightStep
           /\ \A j \in Jobs, n \in 1..AttemptBound : Holds(j, n)' => Holds(j, n)
  <1>1. \A t, u \in task' : t.job = u.job /\ t.no = u.no => t = u
    BY DEF OneHolder
  <1>2. QED
    BY <1>1, FlightShrinks, SamePrompts

LEMMA DropFlight ==
    ASSUME Types, OneHolder, AcceptedWasSubmitted, UNCHANGED <<tick, prompt>>,
           NEW t \in task, task' = task \ {t}
    PROVE  /\ FlightStep /\ task' \subseteq Task
           /\ \A j \in Jobs, n \in 1..AttemptBound : Holds(j, n)' => Holds(j, n)
           /\ ~Holds(t.job, t.no)'
  <1>1. task' \subseteq Task
    BY DEF Types, TypeOK
  <1>2. \A u, v \in task' : u.job = v.job /\ u.no = v.no => u = v
    BY DEF OneHolder
  <1>3. ~Holds(t.job, t.no)'
    BY DEF OneHolder, Holds
  <1>4. QED
    BY <1>1, <1>2, <1>3, FlightShrinks, SamePrompts

LEMMA MoveFlight ==
    ASSUME Types, OneHolder, AcceptedWasSubmitted, UNCHANGED tick,
           \A p \in PromptIds : PromptStep(p),
           NEW t \in task, NEW pc \in {"claimed", "submitting", "accepted", "failing"},
           Move(t, pc),
           pc = "accepted" => prompt'[<<t.job, t.no>>] # "none"
    PROVE  /\ FlightStep /\ task' \subseteq Task
           /\ \A j \in Jobs, n \in 1..AttemptBound : Holds(j, n)' => Holds(j, n)
  <1> DEFINE new == [t EXCEPT !.pc = pc]
  <1>1. new \in Task /\ new.job = t.job /\ new.no = t.no /\ new.pc = pc
    BY DEF Types, TypeOK, Task
  <1>2. task' = (task \ {t}) \cup {new}
    BY DEF Move
  <1> HIDE DEF new
  <1>3. task' \subseteq Task
    BY <1>1, <1>2 DEF Types, TypeOK
  <1>4. \A u, v \in task' : u.job = v.job /\ u.no = v.no => u = v
    BY <1>1, <1>2 DEF OneHolder
  <1>5. \A u \in task' : /\ u.pc = "accepted" => u \in task \/ prompt'[<<u.job, u.no>>] # "none"
                         /\ \E v \in task : v.job = u.job /\ v.no = u.no
    BY <1>1, <1>2
  <1>6. \A s \in Schedulers : tick'[s].claimed \subseteq tick[s].claimed
    OBVIOUS
  <1>7. QED
    BY <1>3, <1>4, <1>5, <1>6, FlightShrinks

LEMMA KnownShrinks ==
    ASSUME \A r \in Reconcilers : pass'[r] \subseteq pass[r] /\ answer'[r] \in {answer[r], NoAnswer}
    PROVE  KnownStep /\ \A row \in Snapshot : Known(row)' => Known(row)
  BY DEF KnownStep, Known

(* What a lane, a task's own data and the others leave as they were. *)
LEMMA OnlyQueueTypes ==
    ASSUME Types, Q!TypeOK', UNCHANGED <<lane, prompt, tick, pass>>,
           task' \subseteq Task,
           answer' \in [Reconcilers -> {NoAnswer} \cup Answer],
           \A j \in Jobs : job'[j].current_attempt < AttemptBound
    PROVE  Types'
  BY DEF Types, TypeOK

-----------------------------------------------------------------------------
(* The actions, one group of components at a time. *)

LEMMA OutsideRows ==
    ASSUME Types, NEW j \in Jobs, Enqueue(j) \/ Cancel(j) \/ LeaseExpires(j) \/ BackoffElapses(j)
    PROVE  /\ Q!TypeOK' /\ OnlyRow(j) /\ RowsOnly
           /\ Kept(j) \/ Created(j) \/ Cancelled(j) \/ Due(j) \/ (LeaseExpires(j) /\ Expired(j))
  <1>1. Q!TypeOK
    BY DEF Types, TypeOK
  <1>2. CASE Enqueue(j)
    BY <1>1, <1>2, EnqueueRows DEF Enqueue
  <1>3. CASE Cancel(j)
    BY <1>1, <1>3, CancelRows DEF Cancel
  <1>4. CASE LeaseExpires(j)
    BY <1>1, <1>4, ExpireRows DEF LeaseExpires
  <1>5. CASE BackoffElapses(j)
    BY <1>1, <1>5, BackoffRows DEF BackoffElapses
  <1>6. QED
    BY <1>2, <1>3, <1>4, <1>5

(* A step that writes the rows and nothing else but tasks and answers. *)
LEMMA RowsAreAStep ==
    ASSUME Types, Q!TypeOK', \A j \in Jobs : RowStep(j),
           \A j \in Jobs : Retried(j) => job[j].current_attempt + 1 < AttemptBound,
           UNCHANGED <<lane, prompt, tick, pass>>,
           task' \subseteq Task, answer' \in [Reconcilers -> {NoAnswer} \cup Answer],
           FlightStep, KnownStep
    PROVE  Step
  <1>1. \A j \in Jobs : job'[j].current_attempt < AttemptBound
    BY CountsBounded
  <1>2. Types'
    BY <1>1, OnlyQueueTypes
  <1>3. QED
    BY <1>2, SamePrompts DEF Step

LEMMA OutsideStep ==
    ASSUME Inv, NEW j \in Jobs, Enqueue(j) \/ Cancel(j) \/ LeaseExpires(j) \/ BackoffElapses(j)
    PROVE  Step
  <1>1. Types /\ OneHolder /\ AcceptedWasSubmitted
    BY DEF Inv
  <1>2. /\ Q!TypeOK' /\ OnlyRow(j) /\ UNCHANGED <<lane, prompt, tick, task, pass, answer>>
        /\ Kept(j) \/ Created(j) \/ Cancelled(j) \/ Due(j) \/ Expired(j)
    BY <1>1, OutsideRows DEF RowsOnly
  <1>3. \A i \in Jobs : RowStep(i)
    BY <1>2, OneRowStep DEF RowStep
  <1>4. \A i \in Jobs : ~Retried(i)
    <2> SUFFICES ASSUME NEW i \in Jobs, Retried(i)
                 PROVE  FALSE
      OBVIOUS
    <2>1. job[i].current_attempt \in Nat /\ (~Q!Exists(i) => job[i].current_attempt = 0)
      BY RowTypes DEF Inv, Types, TypeOK, Q!AttemptsCounted
    <2>2. Kept(i) \/ Created(i) \/ Cancelled(i) \/ Due(i) \/ Expired(i)
      BY <1>2 DEF OnlyRow
    <2>3. QED
      BY <2>1, <2>2 DEF Retried, Kept, Created, Cancelled, Due, Expired, CountKept
  <1>5. FlightStep
    BY <1>1, <1>2, SameFlight, SamePrompts
  <1>6. KnownStep
    BY <1>2, KnownShrinks
  <1>7. task' \subseteq Task /\ answer' \in [Reconcilers -> {NoAnswer} \cup Answer]
    BY <1>1, <1>2 DEF Types, TypeOK
  <1>8. QED
    BY <1>1, <1>2, <1>3, <1>4, <1>5, <1>6, <1>7, RowsAreAStep

(* A step that leaves the rows alone. *)
LEMMA RowsKeptStep ==
    ASSUME Types, UNCHANGED queueVars
    PROVE  /\ Q!TypeOK' /\ \A j \in Jobs : Kept(j) /\ RowStep(j)
           /\ \A j \in Jobs : job'[j].current_attempt < AttemptBound
  BY KeepRows DEF Types, TypeOK, RowStep, Kept

LEMMA IdleTick == Idle.room = << >> /\ Idle.claimed = {} /\ Idle \in [room : Rooms, claimed : SUBSET Handle]
  BY DEF Idle, Rooms

LEMMA TickTypes ==
    ASSUME Types, NEW s \in Schedulers, NEW new \in [room : Rooms, claimed : SUBSET Handle],
           DOMAIN new.room \subseteq Lanes,
           tick' = [tick EXCEPT ![s] = new]
    PROVE  /\ tick' \in [Schedulers -> [room : Rooms, claimed : SUBSET Handle]]
           /\ tick'[s] = new
           /\ \A q \in Schedulers \ {s} : tick'[q] = tick[q]
           /\ \A q \in Schedulers : DOMAIN tick'[q].room \subseteq Lanes
                                    /\ tick'[q].claimed \subseteq Handle
  <1>1. /\ tick \in [Schedulers -> [room : Rooms, claimed : SUBSET Handle]]
        /\ \A q \in Schedulers : DOMAIN tick[q].room \subseteq Lanes /\ tick[q].claimed \subseteq Handle
    BY DEF Types, TypeOK
  <1>2. QED
    BY <1>1

LEMMA TickFailsStep ==
    ASSUME Inv, NEW s \in Schedulers, TickFails(s)
    PROVE  Step
  <1>1. Types /\ OneHolder /\ AcceptedWasSubmitted
    BY DEF Inv
  <1>2. UNCHANGED <<queueVars, lane, prompt, task, pass, answer>> /\ tick' = [tick EXCEPT ![s] = Idle]
    BY DEF TickFails
  <1>3. DOMAIN Idle.room \subseteq Lanes
    BY IdleTick
  <1>4. /\ tick' \in [Schedulers -> [room : Rooms, claimed : SUBSET Handle]]
        /\ tick'[s] = Idle
        /\ \A q \in Schedulers \ {s} : tick'[q] = tick[q]
        /\ \A q \in Schedulers : DOMAIN tick'[q].room \subseteq Lanes
                                    /\ tick'[q].claimed \subseteq Handle
    BY <1>1, <1>2, <1>3, IdleTick, TickTypes
  <1>5. Q!TypeOK' /\ (\A j \in Jobs : RowStep(j)) /\ \A j \in Jobs : job'[j].current_attempt < AttemptBound
    BY <1>1, <1>2, RowsKeptStep
  <1>6. Types'
    BY <1>1, <1>2, <1>4, <1>5 DEF Types, TypeOK
  <1>7. \A q \in Schedulers : tick'[q].claimed \subseteq tick[q].claimed
    BY <1>4, IdleTick
  <1>8. QED
    BY <1>1, <1>2, <1>5, <1>6, <1>7, TickFlight, SamePrompts, KnownShrinks DEF Step

LEMMA BudgetIsNat ==
    ASSUME NEW l \in Lanes, Q!TypeOK
    PROVE  Budget(l) \in Nat
  <1>1. IsFiniteSet(Q!ActiveIn(l))
    BY PipelineAssumption, FS_Subset DEF Q!ActiveIn
  <1>2. Cardinality(Q!ActiveIn(l)) \in Nat /\ Slots[l] \in Nat
    BY <1>1, FS_CardinalityType, PipelineAssumption
  <1>3. QED
    BY <1>2 DEF Budget, FreeSlots

LEMMA ReserveStep ==
    ASSUME Inv, NEW s \in Schedulers, Reserve(s)
    PROVE  Step
  <1> DEFINE rooms == [l \in Lanes |-> Budget(l)]
             new == [tick[s] EXCEPT !.room = rooms]
  <1>1. Types /\ OneHolder /\ AcceptedWasSubmitted /\ Q!TypeOK
    BY DEF Inv, Types, TypeOK
  <1>2. UNCHANGED <<queueVars, lane, prompt, task, pass, answer>> /\ tick' = [tick EXCEPT ![s] = new]
    BY DEF Reserve
  <1>3. rooms \in [Lanes -> Nat]
    BY <1>1, BudgetIsNat
  <1>4. rooms \in Rooms /\ DOMAIN rooms = Lanes
    BY <1>3 DEF Rooms
  <1> HIDE DEF rooms
  <1>5. /\ new \in [room : Rooms, claimed : SUBSET Handle]
        /\ new.room = rooms /\ new.claimed = tick[s].claimed
    BY <1>1, <1>4 DEF Types
  <1> HIDE DEF new
  <1>6. /\ tick' \in [Schedulers -> [room : Rooms, claimed : SUBSET Handle]]
        /\ tick'[s] = new
        /\ \A q \in Schedulers \ {s} : tick'[q] = tick[q]
        /\ \A q \in Schedulers : DOMAIN tick'[q].room \subseteq Lanes
                                    /\ tick'[q].claimed \subseteq Handle
    BY <1>1, <1>2, <1>4, <1>5, TickTypes
  <1>7. Q!TypeOK' /\ (\A j \in Jobs : RowStep(j)) /\ \A j \in Jobs : job'[j].current_attempt < AttemptBound
    BY <1>1, <1>2, RowsKeptStep
  <1>8. Types'
    BY <1>1, <1>2, <1>6, <1>7 DEF Types, TypeOK
  <1>9. \A q \in Schedulers : tick'[q].claimed \subseteq tick[q].claimed
    BY <1>5, <1>6
  <1>10. QED
    BY <1>1, <1>2, <1>7, <1>8, <1>9, TickFlight, SamePrompts, KnownShrinks DEF Step

(* What a claim hands out is new: nobody held the next attempt of the job. *)
HandleOf(j) == [job |-> j, no |-> job[j].current_attempt + 1]

LEMMA ClaimIsFresh ==
    ASSUME Inv, NEW j \in Jobs, Q!Waiting(j)
    PROVE  /\ HandleOf(j) \in Handle /\ HandleOf(j).job = j
           /\ HandleOf(j).no = job[j].current_attempt + 1
           /\ ~Holds(j, HandleOf(j).no)
           /\ \A s \in Schedulers : HandleOf(j) \notin tick[s].claimed
           /\ \A t \in task : ~(t.job = j /\ t.no = HandleOf(j).no)
  <1>1. /\ job[j].current_attempt \in Nat /\ attempt[j].no \in Nat
        /\ job[j].current_attempt < AttemptBound
        /\ attempt[j].no <= job[j].current_attempt
    BY RowTypes DEF Inv, Types, TypeOK, Q!AttemptsCounted
  <1>2. HandleOf(j).no \in 1..AttemptBound /\ HandleOf(j).no > attempt[j].no
    BY <1>1, PipelineAssumption DEF HandleOf
  <1>3. ~Holds(j, HandleOf(j).no)
    BY <1>1, <1>2 DEF Inv, HandlesOpened
  <1>4. QED
    BY <1>2, <1>3 DEF HandleOf, Handle, Holds

(* The jobs of a batch, the handles of a scheduler, and where they go. *)
ClaimedBy(s, C) == tick[s].claimed \cup {HandleOf(j) : j \in C}

LEMMA ClaimEffect ==
    ASSUME Inv, NEW s \in Schedulers, NEW l \in Lanes, ClaimLane(s, l)
    PROVE  \E C \in SUBSET Q!Eligible(l) :
              /\ l \in DOMAIN tick[s].room /\ Q!IsBatch(C, l, tick[s].room[l]) /\ Q!Claim(C)
              /\ \/ /\ DOMAIN tick[s].room \ {l} = {}
                    /\ task' = task \cup NewTasks(ClaimedBy(s, C))
                    /\ tick' = [tick EXCEPT ![s] = Idle]
                 \/ /\ tick' = [tick EXCEPT ![s] =
                                  [room    |-> [k \in DOMAIN tick[s].room \ {l} |-> tick[s].room[k]],
                                   claimed |-> ClaimedBy(s, C)]]
                    /\ UNCHANGED task
              /\ UNCHANGED <<lane, prompt, pass, answer>>
  BY DEF ClaimLane, ClaimedBy, HandleOf

LEMMA ClaimedByTypes ==
    ASSUME Inv, NEW s \in Schedulers, NEW l \in Lanes, NEW C \in SUBSET Q!Eligible(l)
    PROVE  /\ C \subseteq Jobs /\ \A j \in C : Q!Waiting(j)
           /\ ClaimedBy(s, C) \subseteq Handle
           /\ NewTasks(ClaimedBy(s, C)) \subseteq Task
           /\ \A u \in NewTasks(ClaimedBy(s, C)) :
                 /\ u.pc = "claimed"
                 /\ \E h \in ClaimedBy(s, C) :
                       /\ h = [job |-> u.job, no |-> u.no]
                       /\ u = [job |-> h.job, no |-> h.no, pc |-> "claimed"]
  <1>1. C \subseteq Jobs /\ \A j \in C : Q!Waiting(j)
    BY DEF Q!Eligible
  <1>2. \A j \in C : HandleOf(j) \in Handle
    BY <1>1, ClaimIsFresh
  <1>3. ClaimedBy(s, C) \subseteq Handle
    BY <1>2 DEF ClaimedBy, Inv, Types, TypeOK
  <1>4. ASSUME NEW u \in NewTasks(ClaimedBy(s, C))
        PROVE  /\ u \in Task
               /\ u.pc = "claimed"
               /\ \E h \in ClaimedBy(s, C) :
                       /\ h = [job |-> u.job, no |-> u.no]
                       /\ u = [job |-> h.job, no |-> h.no, pc |-> "claimed"]
    <2>1. PICK h \in ClaimedBy(s, C) : u = [job |-> h.job, no |-> h.no, pc |-> "claimed"]
      BY DEF NewTasks
    <2>2. h \in Handle
      BY <1>3, <2>1
    <2>3. h = [job |-> h.job, no |-> h.no] /\ u.job = h.job /\ u.no = h.no /\ u.pc = "claimed"
      BY <2>1, <2>2 DEF Handle
    <2>4. u \in Task
      BY <2>1, <2>2 DEF Handle, Task
    <2>5. QED
      BY <2>1, <2>3, <2>4
  <1>5. QED
    BY <1>1, <1>3, <1>4

(* The scheduler keeps what it claimed, or starts a task for each. *)
LEMMA ClaimFlight ==
    ASSUME Inv, NEW s \in Schedulers, NEW l \in Lanes, NEW C \in SUBSET Q!Eligible(l),
           \A j \in C : Claimed(j) /\ attempt'[j].no = job[j].current_attempt + 1,
           \A q \in Schedulers \ {s} : tick'[q] = tick[q],
           \/ task' = task \cup NewTasks(ClaimedBy(s, C)) /\ tick'[s].claimed = {}
           \/ task' = task /\ tick'[s].claimed = ClaimedBy(s, C),
           UNCHANGED prompt
    PROVE  FlightStep
  <1> DEFINE H == ClaimedBy(s, C)
             N == NewTasks(H)
  <1>1. OneHolder /\ AcceptedWasSubmitted
    BY DEF Inv
  <1>2. /\ C \subseteq Jobs
        /\ \A u \in N : u.pc = "claimed" /\ \E h \in H : /\ h = [job |-> u.job, no |-> u.no]
                                                         /\ u = [job |-> h.job, no |-> h.no, pc |-> "claimed"]
    BY ClaimedByTypes
  <1>3. \A h \in H : h \in tick[s].claimed \/ \E j \in C : h = HandleOf(j)
    BY DEF ClaimedBy
  <1>4. \A j \in C : /\ HandleOf(j).job = j /\ HandleOf(j).no = job[j].current_attempt + 1
                     /\ \A q \in Schedulers : HandleOf(j) \notin tick[q].claimed
                     /\ \A t \in task : ~(t.job = j /\ t.no = HandleOf(j).no)
    BY <1>2, ClaimIsFresh, ClaimedByTypes
  <1>5. \A t \in task : [job |-> t.job, no |-> t.no] \notin H
    <2> SUFFICES ASSUME NEW t \in task, [job |-> t.job, no |-> t.no] \in H
                 PROVE  FALSE
      OBVIOUS
    <2>1. PICK j \in C : [job |-> t.job, no |-> t.no] = HandleOf(j)
      BY <1>1, <1>3 DEF OneHolder
    <2>2. t.job = j /\ t.no = HandleOf(j).no
      BY <1>4, <2>1
    <2>3. QED
      BY <1>4, <2>2
  <1>6. \A q \in Schedulers \ {s} : H \cap tick[q].claimed = {}
    BY <1>1, <1>3, <1>4 DEF OneHolder
  <1> HIDE DEF H, N
  <1>7. OneHolder' /\ AcceptedWasSubmitted'
    <2>1. CASE task' = task \cup N /\ tick'[s].claimed = {}
      <3>1. \A t, u \in task' : t.job = u.job /\ t.no = u.no => t = u
        <4> SUFFICES ASSUME NEW t \in task', NEW u \in task', t.job = u.job, t.no = u.no
                     PROVE  t = u
          OBVIOUS
        <4>1. CASE t \in task /\ u \in task
          BY <1>1, <4>1 DEF OneHolder
        <4>2. CASE t \in N /\ u \in N
          BY <1>2, <4>2
        <4>3. CASE t \in task /\ u \in N
          BY <1>2, <1>5, <4>3
        <4>4. CASE t \in N /\ u \in task
          BY <1>2, <1>5, <4>4
        <4>5. QED
          BY <2>1, <4>1, <4>2, <4>3, <4>4
      <3>2. \A t \in task', q \in Schedulers : [job |-> t.job, no |-> t.no] \notin tick'[q].claimed
        <4> SUFFICES ASSUME NEW t \in task', NEW q \in Schedulers \ {s}
                     PROVE  [job |-> t.job, no |-> t.no] \notin tick[q].claimed
          BY <2>1
        <4>1. CASE t \in task
          BY <1>1, <4>1 DEF OneHolder
        <4>2. CASE t \in N
          BY <1>2, <1>6, <4>2
        <4>3. QED
          BY <2>1, <4>1, <4>2
      <3>3. \A p, q \in Schedulers : p # q => tick'[p].claimed \cap tick'[q].claimed = {}
        BY <1>1, <2>1 DEF OneHolder
      <3>4. AcceptedWasSubmitted'
        BY <1>1, <1>2, <2>1 DEF AcceptedWasSubmitted
      <3>5. QED
        BY <3>1, <3>2, <3>3, <3>4 DEF OneHolder
    <2>2. CASE task' = task /\ tick'[s].claimed = H
      <3>1. \A t \in task', q \in Schedulers : [job |-> t.job, no |-> t.no] \notin tick'[q].claimed
        BY <1>1, <1>5, <2>2 DEF OneHolder
      <3>2. \A p, q \in Schedulers : p # q => tick'[p].claimed \cap tick'[q].claimed = {}
        BY <1>1, <1>6, <2>2 DEF OneHolder
      <3>3. AcceptedWasSubmitted'
        BY <1>1, <2>2 DEF AcceptedWasSubmitted
      <3>4. QED
        BY <1>1, <2>2, <3>1, <3>2, <3>3 DEF OneHolder
    <2>3. QED
      BY <2>1, <2>2 DEF H, N
  <1>8. ASSUME NEW j \in Jobs, NEW n \in 1..AttemptBound, Holds(j, n)'
        PROVE  Holds(j, n) \/ (Claimed(j) /\ attempt'[j].no = n)
    <2>1. ASSUME [job |-> j, no |-> n] \in H
          PROVE  Holds(j, n) \/ (Claimed(j) /\ attempt'[j].no = n)
      <3>1. CASE [job |-> j, no |-> n] \in tick[s].claimed
        BY <3>1 DEF Holds
      <3>2. CASE \E i \in C : [job |-> j, no |-> n] = HandleOf(i)
        <4>1. PICK i \in C : [job |-> j, no |-> n] = HandleOf(i)
          BY <3>2
        <4>2. j = i /\ n = job[i].current_attempt + 1
          BY <1>4, <4>1
        <4>3. QED
          BY <4>1, <4>2
      <3>3. QED
        BY <1>3, <2>1, <3>1, <3>2 DEF H
    <2>2. CASE \E t \in task' : t.job = j /\ t.no = n
      <3>1. PICK t \in task' : t.job = j /\ t.no = n
        BY <2>2
      <3>2. CASE t \in task
        BY <3>1, <3>2 DEF Holds
      <3>3. CASE t \in N
        BY <1>2, <2>1, <3>1, <3>3
      <3>4. QED
        BY <3>1, <3>2, <3>3 DEF H, N
    <2>3. CASE \E q \in Schedulers : [job |-> j, no |-> n] \in tick'[q].claimed
      <3>1. PICK q \in Schedulers : [job |-> j, no |-> n] \in tick'[q].claimed
        BY <2>3
      <3>2. CASE q = s
        BY <2>1, <3>1, <3>2 DEF H
      <3>3. CASE q # s
        BY <3>1, <3>3 DEF Holds
      <3>4. QED
        BY <3>2, <3>3
    <2>4. QED
      BY <1>8, <2>2, <2>3 DEF Holds
  <1>9. QED
    BY <1>7, <1>8 DEF FlightStep

LEMMA ClaimLaneStep ==
    ASSUME Inv, NEW s \in Schedulers, NEW l \in Lanes, ClaimLane(s, l)
    PROVE  Step
  <1> DEFINE room == tick[s].room
  <1>1. Types /\ Q!TypeOK /\ Q!AttemptsCounted
    BY DEF Inv, Types, TypeOK
  <1>2. PICK C \in SUBSET Q!Eligible(l) :
              /\ l \in DOMAIN room /\ Q!IsBatch(C, l, room[l]) /\ Q!Claim(C)
              /\ \/ /\ DOMAIN room \ {l} = {}
                    /\ task' = task \cup NewTasks(ClaimedBy(s, C))
                    /\ tick' = [tick EXCEPT ![s] = Idle]
                 \/ /\ tick' = [tick EXCEPT ![s] = [room    |-> [k \in DOMAIN room \ {l} |-> room[k]],
                                                    claimed |-> ClaimedBy(s, C)]]
                    /\ UNCHANGED task
              /\ UNCHANGED <<lane, prompt, pass, answer>>
    BY ClaimEffect
  <1>3. /\ C \subseteq Jobs /\ \A j \in C : Q!Waiting(j)
        /\ ClaimedBy(s, C) \subseteq Handle
        /\ NewTasks(ClaimedBy(s, C)) \subseteq Task
    BY ClaimedByTypes
  <1>4. /\ Q!TypeOK'
        /\ \A j \in C : Claimed(j) /\ Opened(j) /\ attempt[j].no < attempt'[j].no
        /\ \A j \in Jobs \ C : Kept(j)
    BY <1>1, <1>2, <1>3, ClaimRows
  <1>5. \A j \in Jobs : RowStep(j)
    BY <1>4 DEF RowStep
  <1>6. \A j \in Jobs : job'[j].current_attempt < AttemptBound
    BY <1>1, <1>4 DEF Claimed, CountKept, Kept, Types
  <1>7. /\ tick' \in [Schedulers -> [room : Rooms, claimed : SUBSET Handle]]
        /\ \A q \in Schedulers \ {s} : tick'[q] = tick[q]
        /\ \A q \in Schedulers : DOMAIN tick'[q].room \subseteq Lanes /\ tick'[q].claimed \subseteq Handle
        /\ \/ task' = task \cup NewTasks(ClaimedBy(s, C)) /\ tick'[s].claimed = {}
           \/ task' = task /\ tick'[s].claimed = ClaimedBy(s, C)
    <2>1. CASE /\ task' = task \cup NewTasks(ClaimedBy(s, C))
               /\ tick' = [tick EXCEPT ![s] = Idle]
      <3>1. DOMAIN Idle.room \subseteq Lanes /\ Idle.claimed = {}
        BY IdleTick
      <3>2. QED
        BY <1>1, <2>1, <3>1, IdleTick, TickTypes
    <2>2. CASE /\ tick' = [tick EXCEPT ![s] = [room    |-> [k \in DOMAIN room \ {l} |-> room[k]],
                                                claimed |-> ClaimedBy(s, C)]]
               /\ UNCHANGED task
      <3> DEFINE left == [k \in DOMAIN room \ {l} |-> room[k]]
                 new  == [room |-> left, claimed |-> ClaimedBy(s, C)]
      <3>1. DOMAIN room \subseteq Lanes /\ room \in Rooms
        BY <1>1 DEF Types, TypeOK
      <3>2. room \in [DOMAIN room -> Nat]
        BY <1>2, <3>1, IdleTick DEF Rooms
      <3>3. left \in [DOMAIN room \ {l} -> Nat]
        BY <3>2
      <3>4. left \in Rooms /\ DOMAIN left \subseteq Lanes
        BY <3>1, <3>3 DEF Rooms
      <3> HIDE DEF left
      <3>5. /\ new \in [room : Rooms, claimed : SUBSET Handle]
            /\ new.room = left /\ new.claimed = ClaimedBy(s, C)
        BY <1>3, <3>4
      <3>6. tick' = [tick EXCEPT ![s] = new]
        BY <2>2 DEF left
      <3> HIDE DEF new
      <3>7. /\ tick' \in [Schedulers -> [room : Rooms, claimed : SUBSET Handle]]
            /\ tick'[s] = new
            /\ \A q \in Schedulers \ {s} : tick'[q] = tick[q]
            /\ \A q \in Schedulers : DOMAIN tick'[q].room \subseteq Lanes
                                        /\ tick'[q].claimed \subseteq Handle
        BY <1>1, <3>4, <3>5, <3>6, TickTypes
      <3>8. QED
        BY <2>2, <3>5, <3>7
    <2>3. QED
      BY <1>2, <2>1, <2>2
  <1>8. Types'
    <2>1. task' \subseteq Task
      BY <1>1, <1>3, <1>7 DEF Types, TypeOK
    <2>2. QED
      BY <1>1, <1>2, <1>4, <1>6, <1>7, <2>1 DEF Types, TypeOK
  <1>9. FlightStep
    BY <1>2, <1>4, <1>7, ClaimFlight DEF Opened
  <1>10. QED
    BY <1>2, <1>5, <1>8, <1>9, SamePrompts, KnownShrinks DEF Step

-----------------------------------------------------------------------------
(* The dispatch tasks. *)
LEMMA TaskTypes ==
    ASSUME Types, NEW t \in task
    PROVE  /\ t \in Task /\ t.job \in Jobs /\ t.no \in 1..AttemptBound
           /\ <<t.job, t.no>> \in PromptIds /\ Holds(t.job, t.no)
  BY DEF Types, TypeOK, Task, PromptIds, Holds

LEMMA NoRetry ==
    ASSUME NEW j \in Jobs, Q!TypeOK, OnlyRow(j),
           Kept(j) \/ Started(j) \/ \E p \in PromptIds : Prompted(j, p)
    PROVE  \A i \in Jobs : ~Retried(i)
  <1> SUFFICES ASSUME NEW i \in Jobs, Retried(i)
               PROVE  FALSE
    OBVIOUS
  <1>1. job[i].current_attempt \in Nat
    BY RowTypes
  <1>2. Kept(i) \/ Started(i) \/ \E p \in PromptIds : Prompted(i, p)
    BY DEF OnlyRow
  <1>3. QED
    BY <1>1, <1>2 DEF Retried, Kept, Started, Prompted, CountKept

LEMMA StartRunStep ==
    ASSUME Inv, NEW t \in task, StartRun(t)
    PROVE  Step
  <1> DEFINE j == t.job
  <1>1. Types /\ OneHolder /\ AcceptedWasSubmitted /\ Q!TypeOK
    BY DEF Inv, Types, TypeOK
  <1>2. j \in Jobs /\ t.no \in 1..AttemptBound /\ Holds(j, t.no)
    BY <1>1, TaskTypes
  <1>3. /\ Q!MarkRunning(j) /\ Move(t, "submitting")
        /\ UNCHANGED <<lane, prompt, tick, pass, answer>>
    BY DEF StartRun
  <1>4. Q!TypeOK' /\ OnlyRow(j) /\ (Kept(j) \/ Started(j))
    BY <1>1, <1>2, <1>3, MarkRunningRows
  <1>5. \A i \in Jobs : RowStep(i)
    BY <1>2, <1>4, OneRowStep DEF RowStep, MayStart
  <1>6. \A i \in Jobs : ~Retried(i)
    BY <1>1, <1>2, <1>4, NoRetry
  <1>7. FlightStep /\ task' \subseteq Task
    BY <1>1, <1>3, MoveFlight, SamePrompts
  <1>8. KnownStep /\ answer' \in [Reconcilers -> {NoAnswer} \cup Answer]
    BY <1>1, <1>3, KnownShrinks DEF Types, TypeOK
  <1>9. QED
    BY <1>1, <1>3, <1>4, <1>5, <1>6, <1>7, <1>8, RowsAreAStep

LEMMA SubmitStep ==
    ASSUME Inv, NEW t \in task, Submit(t)
    PROVE  Step
  <1> DEFINE p == <<t.job, t.no>>
  <1>1. Types /\ OneHolder /\ AcceptedWasSubmitted
    BY DEF Inv
  <1>2. p \in PromptIds /\ p[1] = t.job /\ p[2] = t.no /\ Holds(t.job, t.no)
    BY <1>1, TaskTypes
  <1>3. PICK s \in SubmitOutcomes(LaneOf[t.job]) : prompt' = [prompt EXCEPT ![p] = s]
    BY DEF Submit
  <1>4. Move(t, "accepted") /\ UNCHANGED <<queueVars, lane, tick, pass, answer>>
    BY DEF Submit
  <1>5. s \in {"succeeded", "failed", "rejected", "running"}
    BY DEF SubmitOutcomes
  <1>6. prompt \in [PromptIds -> PromptStates]
    BY <1>1 DEF Types, TypeOK
  <1> HIDE DEF p
  <1>7. /\ prompt' \in [PromptIds -> PromptStates] /\ prompt'[p] = s
        /\ \A q \in PromptIds \ {p} : prompt'[q] = prompt[q]
    BY <1>2, <1>3, <1>5, <1>6 DEF PromptStates
  <1>8. \A q \in PromptIds : PromptStep(q)
    BY <1>2, <1>5, <1>7 DEF PromptStep
  <1>9. prompt'[<<t.job, t.no>>] # "none"
    BY <1>5, <1>7 DEF p
  <1>10. FlightStep /\ task' \subseteq Task
    BY <1>1, <1>4, <1>8, <1>9, MoveFlight
  <1>11. Q!TypeOK' /\ (\A j \in Jobs : RowStep(j)) /\ \A j \in Jobs : job'[j].current_attempt < AttemptBound
    BY <1>1, <1>4, RowsKeptStep
  <1>12. Types'
    BY <1>1, <1>4, <1>7, <1>10, <1>11 DEF Types, TypeOK
  <1>13. QED
    BY <1>4, <1>8, <1>10, <1>11, <1>12, KnownShrinks DEF Step

LEMMA RecordStep ==
    ASSUME Inv, NEW t \in task, Record(t)
    PROVE  Step
  <1> DEFINE j == t.job
             p == <<t.job, t.no>>
  <1>1. Types /\ OneHolder /\ AcceptedWasSubmitted /\ Q!TypeOK /\ HandlesOpened
    BY DEF Inv, Types, TypeOK
  <1>2. j \in Jobs /\ t.no \in 1..AttemptBound /\ Holds(j, t.no) /\ p \in PromptIds
    BY <1>1, TaskTypes
  <1>3. /\ Q!SetPromptId(j, p) /\ task' = task \ {t} /\ t.pc = "accepted"
        /\ UNCHANGED <<lane, prompt, tick, pass, answer>>
    BY DEF Record
  <1>4. Q!TypeOK' /\ OnlyRow(j) /\ Prompted(j, p)
    BY <1>1, <1>2, <1>3, PromptRows
  <1>5. FlightStep /\ task' \subseteq Task /\ ~Holds(j, t.no)'
    BY <1>1, <1>3, DropFlight
  <1>6. MayRecord(j, p)
    <2>1. t.no <= attempt[j].no
      BY <1>1, <1>2 DEF HandlesOpened
    <2>2. prompt[p] # "none"
      BY <1>1, <1>3 DEF AcceptedWasSubmitted
    <2>3. p[1] = j /\ p[2] = t.no
      OBVIOUS
    <2>4. QED
      BY <1>3, <1>5, <2>1, <2>2, <2>3 DEF MayRecord
  <1>7. \A i \in Jobs : RowStep(i)
    BY <1>2, <1>4, <1>6, OneRowStep DEF RowStep
  <1>8. \A i \in Jobs : ~Retried(i)
    BY <1>1, <1>2, <1>4, NoRetry
  <1>9. KnownStep /\ answer' \in [Reconcilers -> {NoAnswer} \cup Answer]
    BY <1>1, <1>3, KnownShrinks DEF Types, TypeOK
  <1>10. QED
    BY <1>1, <1>3, <1>4, <1>5, <1>7, <1>8, <1>9, RowsAreAStep

LEMMA DispatchErrorStep ==
    ASSUME Inv, NEW t \in task, DispatchError(t)
    PROVE  Step
  <1>1. Types /\ OneHolder /\ AcceptedWasSubmitted
    BY DEF Inv
  <1>2. Move(t, "failing") /\ UNCHANGED <<queueVars, lane, prompt, tick, pass, answer>>
    BY DEF DispatchError
  <1>3. FlightStep /\ task' \subseteq Task
    BY <1>1, <1>2, MoveFlight, SamePrompts
  <1>4. Q!TypeOK' /\ (\A j \in Jobs : RowStep(j)) /\ \A j \in Jobs : job'[j].current_attempt < AttemptBound
    BY <1>1, <1>2, RowsKeptStep
  <1>5. Types'
    BY <1>1, <1>2, <1>3, <1>4 DEF Types, TypeOK
  <1>6. QED
    BY <1>2, <1>3, <1>4, <1>5, SamePrompts, KnownShrinks DEF Step

LEMMA RequeueStep ==
    ASSUME Inv, NEW t \in task, Requeue(t)
    PROVE  Step
  <1> DEFINE j == t.job
  <1>1. Types /\ OneHolder /\ AcceptedWasSubmitted /\ Q!TypeOK
    BY DEF Inv, Types, TypeOK
  <1>2. j \in Jobs
    BY <1>1, TaskTypes
  <1>3. /\ Q!MarkRetryWait(j) /\ job[j].current_attempt + 1 < AttemptBound
        /\ task' = task \ {t} /\ UNCHANGED <<lane, prompt, tick, pass, answer>>
    BY DEF Requeue, Retry
  <1>4. Q!TypeOK' /\ OnlyRow(j) /\ (Kept(j) \/ Retried(j))
    BY <1>1, <1>2, <1>3, RetryRows
  <1>5. \A i \in Jobs : RowStep(i)
    BY <1>2, <1>4, OneRowStep DEF RowStep
  <1>6. \A i \in Jobs : Retried(i) => job[i].current_attempt + 1 < AttemptBound
    <2>1. \A i \in Jobs \ {j} : ~Retried(i)
      BY <1>1, <1>4, RowTypes DEF OnlyRow, Kept, Retried
    <2>2. QED
      BY <1>3, <2>1
  <1>7. FlightStep /\ task' \subseteq Task
    BY <1>1, <1>3, DropFlight
  <1>8. KnownStep /\ answer' \in [Reconcilers -> {NoAnswer} \cup Answer]
    BY <1>1, <1>3, KnownShrinks DEF Types, TypeOK
  <1>9. QED
    BY <1>1, <1>3, <1>4, <1>5, <1>6, <1>7, <1>8, RowsAreAStep

LEMMA TaskDiesStep ==
    ASSUME Inv, NEW t \in task, TaskDies(t)
    PROVE  Step
  <1>1. Types /\ OneHolder /\ AcceptedWasSubmitted
    BY DEF Inv
  <1>2. task' = task \ {t} /\ UNCHANGED <<queueVars, lane, prompt, tick, pass, answer>>
    BY DEF TaskDies
  <1>3. FlightStep /\ task' \subseteq Task
    BY <1>1, <1>2, DropFlight
  <1>4. Q!TypeOK' /\ (\A j \in Jobs : RowStep(j)) /\ \A j \in Jobs : job'[j].current_attempt < AttemptBound
    BY <1>1, <1>2, RowsKeptStep
  <1>5. Types'
    BY <1>1, <1>2, <1>3, <1>4 DEF Types, TypeOK
  <1>6. QED
    BY <1>2, <1>3, <1>4, <1>5, SamePrompts, KnownShrinks DEF Step

-----------------------------------------------------------------------------
(* The lanes, the backends and what a reconciler reads: no row changes. *)
Lane == [up : BOOLEAN, online : BOOLEAN, outages : 0..1]

LEMMA ReadingStep ==
    ASSUME Inv, UNCHANGED <<queueVars, tick, task>>, \A p \in PromptIds : PromptStep(p), KnownStep,
           lane' \in [Lanes -> Lane], prompt' \in [PromptIds -> PromptStates],
           pass' \in [Reconcilers -> SUBSET Snapshot],
           answer' \in [Reconcilers -> {NoAnswer} \cup Answer]
    PROVE  Step
  <1>1. Types /\ OneHolder /\ AcceptedWasSubmitted
    BY DEF Inv
  <1>2. FlightStep
    BY <1>1, SameFlight
  <1>3. Q!TypeOK' /\ (\A j \in Jobs : RowStep(j)) /\ \A j \in Jobs : job'[j].current_attempt < AttemptBound
    BY <1>1, RowsKeptStep
  <1>4. Types'
    BY <1>1, <1>3 DEF Types, TypeOK, Lane
  <1>5. QED
    BY <1>2, <1>3, <1>4 DEF Step

LEMMA OtherTypes ==
    ASSUME Types
    PROVE  /\ lane \in [Lanes -> Lane]
           /\ prompt \in [PromptIds -> PromptStates]
           /\ pass \in [Reconcilers -> SUBSET Snapshot]
           /\ answer \in [Reconcilers -> {NoAnswer} \cup Answer]
  BY DEF Types, TypeOK, Lane

LEMMA LaneStep ==
    ASSUME Inv, NEW l \in Lanes, Heartbeat(l) \/ GoesDown(l) \/ ComesBack(l)
    PROVE  Step
  <1>1. /\ lane \in [Lanes -> Lane] /\ prompt \in [PromptIds -> PromptStates]
        /\ pass \in [Reconcilers -> SUBSET Snapshot]
        /\ answer \in [Reconcilers -> {NoAnswer} \cup Answer]
    BY OtherTypes DEF Inv
  <1>2. UNCHANGED <<queueVars, prompt, tick, task, pass, answer>>
    BY DEF Heartbeat, GoesDown, ComesBack
  <1>3. lane' \in [Lanes -> Lane]
    <2>1. CASE Heartbeat(l)
      BY <1>1, <2>1 DEF Heartbeat, Lane
    <2>2. CASE GoesDown(l)
      BY <1>1, <2>2 DEF GoesDown, Lane
    <2>3. CASE ComesBack(l)
      BY <1>1, <2>3 DEF ComesBack, Lane
    <2>4. QED
      BY <2>1, <2>2, <2>3
  <1>4. KnownStep
    BY <1>2, KnownShrinks
  <1>5. QED
    BY <1>1, <1>2, <1>3, <1>4, ReadingStep, SamePrompts

LEMMA PromptMoves ==
    ASSUME Types, NEW p \in PromptIds, NEW s \in {"succeeded", "failed", "forgotten"},
           prompt' = [prompt EXCEPT ![p] = s],
           \/ prompt[p] = "running"
           \/ prompt[p] \in {"succeeded", "failed"} /\ s = "forgotten"
    PROVE  prompt' \in [PromptIds -> PromptStates] /\ \A q \in PromptIds : PromptStep(q)
  <1>1. prompt \in [PromptIds -> PromptStates]
    BY OtherTypes
  <1>2. QED
    BY <1>1 DEF PromptStep, PromptStates

LEMMA BackendStep ==
    ASSUME Inv, NEW p \in PromptIds, Finishes(p) \/ Forgets(p)
    PROVE  Step
  <1>1. /\ lane \in [Lanes -> Lane] /\ pass \in [Reconcilers -> SUBSET Snapshot]
        /\ answer \in [Reconcilers -> {NoAnswer} \cup Answer] /\ Types
    BY OtherTypes DEF Inv
  <1>2. UNCHANGED <<queueVars, lane, tick, task, pass, answer>>
    BY DEF Finishes, Forgets
  <1>3. PICK s \in {"succeeded", "failed", "forgotten"} :
           /\ prompt' = [prompt EXCEPT ![p] = s]
           /\ \/ prompt[p] = "running"
              \/ prompt[p] \in {"succeeded", "failed"} /\ s = "forgotten"
    BY DEF Finishes, Forgets
  <1>4. prompt' \in [PromptIds -> PromptStates] /\ \A q \in PromptIds : PromptStep(q)
    BY <1>1, <1>3, PromptMoves
  <1>5. KnownStep
    BY <1>2, KnownShrinks
  <1>6. QED
    BY <1>1, <1>2, <1>4, <1>5, ReadingStep

LEMMA SnapshotTypes ==
    ASSUME Types, NEW j \in Jobs
    PROVE  SnapshotOf(j) \in Snapshot /\ SnapshotOf(j).job = j
  <1>1. /\ job[j].current_attempt \in Nat /\ job[j].current_attempt < AttemptBound
        /\ attempt[j].prompt \in PromptIds \cup {NoPrompt}
    BY RowTypes DEF Types, TypeOK
  <1>2. QED
    BY <1>1, PipelineAssumption DEF SnapshotOf, Snapshot

LEMMA ListActiveStep ==
    ASSUME Inv, NEW r \in Reconcilers, ListActive(r)
    PROVE  Step
  <1> DEFINE rows == {SnapshotOf(j) : j \in {i \in Jobs : Q!Active(i)}}
  <1>1. /\ lane \in [Lanes -> Lane] /\ prompt \in [PromptIds -> PromptStates]
        /\ pass \in [Reconcilers -> SUBSET Snapshot]
        /\ answer \in [Reconcilers -> {NoAnswer} \cup Answer] /\ Types
    BY OtherTypes DEF Inv
  <1>2. pass' = [pass EXCEPT ![r] = rows] /\ UNCHANGED <<queueVars, lane, prompt, tick, task, answer>>
    BY DEF ListActive
  <1>3. \A row \in rows : row \in Snapshot /\ row.job \in Jobs /\ row = SnapshotOf(row.job)
    BY <1>1, SnapshotTypes
  <1> HIDE DEF rows
  <1>4. pass' \in [Reconcilers -> SUBSET Snapshot]
    BY <1>1, <1>2, <1>3
  <1>5. KnownStep
    BY <1>1, <1>2, <1>3 DEF KnownStep, Known
  <1>6. QED
    BY <1>1, <1>2, <1>4, <1>5, ReadingStep, SamePrompts

LEMMA SkipStep ==
    ASSUME Inv, NEW r \in Reconcilers, Skip(r)
    PROVE  Step
  <1>1. /\ lane \in [Lanes -> Lane] /\ prompt \in [PromptIds -> PromptStates]
        /\ pass \in [Reconcilers -> SUBSET Snapshot]
        /\ answer \in [Reconcilers -> {NoAnswer} \cup Answer]
    BY OtherTypes DEF Inv
  <1>2. answer' = [answer EXCEPT ![r] = NoAnswer] /\ UNCHANGED <<queueVars, lane, prompt, tick, task, pass>>
    BY DEF Skip
  <1>3. KnownStep /\ answer' \in [Reconcilers -> {NoAnswer} \cup Answer]
    BY <1>1, <1>2, KnownShrinks
  <1>4. QED
    BY <1>1, <1>2, <1>3, ReadingStep, SamePrompts

LEMMA SkipRowStep ==
    ASSUME Inv, NEW r \in Reconcilers, NEW row \in pass[r], SkipRow(r, row)
    PROVE  Step
  <1>1. /\ lane \in [Lanes -> Lane] /\ prompt \in [PromptIds -> PromptStates]
        /\ pass \in [Reconcilers -> SUBSET Snapshot]
        /\ answer \in [Reconcilers -> {NoAnswer} \cup Answer]
    BY OtherTypes DEF Inv
  <1>2. /\ pass' = [pass EXCEPT ![r] = pass[r] \ {row}]
        /\ UNCHANGED <<queueVars, lane, prompt, tick, task, answer>>
    BY DEF SkipRow
  <1>3. pass' \in [Reconcilers -> SUBSET Snapshot] /\ \A q \in Reconcilers : pass'[q] \subseteq pass[q]
    BY <1>1, <1>2
  <1>4. KnownStep
    BY <1>1, <1>2, <1>3, KnownShrinks
  <1>5. QED
    BY <1>1, <1>2, <1>3, <1>4, ReadingStep, SamePrompts

(* A row of the pass that has a prompt, and what is known of that prompt. *)
LEMMA RowTypesOfPass ==
    ASSUME Inv, NEW r \in Reconcilers, NEW row \in pass[r]
    PROVE  /\ row \in Snapshot /\ row.job \in Jobs /\ Known(row)
           /\ row.prompt # NoPrompt =>
                 /\ row.prompt \in PromptIds /\ Asked(row.job, row.prompt)
                 /\ row.prompt[1] = row.job /\ prompt[row.prompt] \in PromptStates \ {"none"}
  <1>1. row \in Snapshot /\ prompt \in [PromptIds -> PromptStates]
    BY OtherTypes DEF Inv
  <1>2. row.job \in Jobs /\ row.prompt \in PromptIds \cup {NoPrompt}
    BY <1>1 DEF Snapshot
  <1>3. Known(row)
    BY DEF Known
  <1>4. CASE row.prompt # NoPrompt
    <2>1. row.prompt \in PromptIds /\ Asked(row.job, row.prompt)
      BY <1>1, <1>2, <1>3, <1>4 DEF Asked
    <2>2. row.prompt[1] = row.job /\ prompt[row.prompt] # "none"
      BY <1>2, <2>1 DEF Inv, AskedWasReleased
    <2>3. QED
      BY <1>1, <1>2, <1>3, <2>1, <2>2
  <1>5. QED
    BY <1>1, <1>2, <1>3, <1>4

(* What get_status says is what it saw. *)
LEMMA StatusIsSeen ==
    ASSUME NEW p \in PromptIds, prompt[p] \in PromptStates \ {"none"}
    PROVE  /\ StatusOf(p) \in {"running", "succeeded", "failed", "unknown"}
           /\ StatusOf(p) = "succeeded" => prompt[p] \in {"succeeded", "forgotten"}
           /\ StatusOf(p) = "failed" /\ CloudLanes = {}
                 => prompt[p] \in {"failed", "rejected", "forgotten"}
  <1>1. CASE prompt[p] = "rejected"
    BY <1>1 DEF StatusOf, PolledStatus
  <1>2. CASE prompt[p] = "forgotten"
    BY <1>2 DEF StatusOf, PolledStatus
  <1>3. CASE prompt[p] \in {"running", "succeeded", "failed"}
    BY <1>3 DEF StatusOf, PolledStatus
  <1>4. QED
    BY <1>1, <1>2, <1>3 DEF PromptStates

(* The answer about a row of the pass, and the rows that remain. *)
LEMMA AnswerStep ==
    ASSUME Inv, NEW r \in Reconcilers, NEW row \in pass[r], row.prompt # NoPrompt,
           NEW status \in {"running", "succeeded", "failed", "unknown"},
           UNCHANGED <<queueVars, lane, tick, task>>,
           answer' = [answer EXCEPT ![r] = [row |-> row, status |-> status]],
           pass' = [pass EXCEPT ![r] = pass[r] \ {row}],
           \A q \in PromptIds : PromptStep(q), prompt' \in [PromptIds -> PromptStates],
           status = "succeeded" => prompt'[row.prompt] \in {"succeeded", "forgotten"},
           status = "failed" /\ CloudLanes = {}
              => prompt'[row.prompt] \in {"failed", "rejected", "forgotten"}
    PROVE  Step
  <1> DEFINE new == [row |-> row, status |-> status]
  <1>1. /\ lane \in [Lanes -> Lane] /\ pass \in [Reconcilers -> SUBSET Snapshot]
        /\ answer \in [Reconcilers -> {NoAnswer} \cup Answer]
    BY OtherTypes DEF Inv
  <1>2. row \in Snapshot /\ Asked(row.job, row.prompt)
    BY RowTypesOfPass
  <1>3. new \in Answer /\ new.row = row /\ new.status = status
    BY <1>2 DEF Answer
  <1>4. answer' = [answer EXCEPT ![r] = new]
    OBVIOUS
  <1> HIDE DEF new
  <1>5. /\ answer' \in [Reconcilers -> {NoAnswer} \cup Answer] /\ answer'[r] = new
        /\ \A q \in Reconcilers \ {r} : answer'[q] = answer[q]
        /\ pass' \in [Reconcilers -> SUBSET Snapshot]
        /\ \A q \in Reconcilers : pass'[q] \subseteq pass[q]
    BY <1>1, <1>3, <1>4
  <1>6. \A x \in Snapshot : Known(x)' => Known(x)
    <2> SUFFICES ASSUME NEW x \in Snapshot, Known(x)'
                 PROVE  Known(x)
      OBVIOUS
    <2>1. PICK q \in Reconcilers : x \in pass'[q] \/ (answer'[q] # NoAnswer /\ answer'[q].row = x)
      BY DEF Known
    <2>2. CASE x \in pass'[q]
      BY <1>5, <2>2 DEF Known
    <2>3. CASE q = r /\ answer'[q].row = x
      BY <1>3, <1>5, <2>3 DEF Known
    <2>4. CASE q # r /\ answer'[q] # NoAnswer /\ answer'[q].row = x
      BY <1>5, <2>4 DEF Known
    <2>5. QED
      BY <2>1, <2>2, <2>3, <2>4
  <1>7. \A q \in Reconcilers :
          \/ answer'[q] \in {answer[q], NoAnswer}
          \/ /\ answer'[q].row.prompt # NoPrompt
             /\ Asked(answer'[q].row.job, answer'[q].row.prompt)
             /\ answer'[q].status = "succeeded"
                   => prompt'[answer'[q].row.prompt] \in {"succeeded", "forgotten"}
             /\ answer'[q].status = "failed" /\ CloudLanes = {}
                   => prompt'[answer'[q].row.prompt] \in {"failed", "rejected", "forgotten"}
    BY <1>2, <1>3, <1>5
  <1>8. KnownStep
    BY <1>6, <1>7 DEF KnownStep
  <1>9. QED
    BY <1>1, <1>5, <1>8, ReadingStep

LEMMA PollStep ==
    ASSUME Inv, NEW r \in Reconcilers, NEW row \in pass[r],
           Poll(r, row) \/ PollMisses(r, row) \/ PollFails(r, row)
    PROVE  Step
  <1> DEFINE p == row.prompt
  <1>1. lane \in [Lanes -> Lane] /\ prompt \in [PromptIds -> PromptStates] /\ Types
    BY OtherTypes DEF Inv
  <1>2. row.prompt # NoPrompt
    BY DEF Poll, PollMisses, PollFails
  <1>3. p \in PromptIds /\ prompt[p] \in PromptStates \ {"none"}
    BY <1>2, RowTypesOfPass
  <1>4. CASE Poll(r, row)
    <2> DEFINE status == StatusOf(p)
    <2>1. /\ UNCHANGED <<queueVars, lane, prompt, tick, task>>
          /\ answer' = [answer EXCEPT ![r] = [row |-> row, status |-> status]]
          /\ pass' = [pass EXCEPT ![r] = pass[r] \ {row}]
      BY <1>4 DEF Poll
    <2>2. /\ status \in {"running", "succeeded", "failed", "unknown"}
          /\ status = "succeeded" => prompt[p] \in {"succeeded", "forgotten"}
          /\ status = "failed" /\ CloudLanes = {} => prompt[p] \in {"failed", "rejected", "forgotten"}
      BY <1>1, <1>3, StatusIsSeen
    <2> HIDE DEF status
    <2>3. QED
      BY <1>1, <1>2, <2>1, <2>2, AnswerStep, SamePrompts
  <1>5. CASE PollMisses(r, row)
    <2>1. PICK s \in {"succeeded", "failed", "forgotten"} :
             prompt' = [prompt EXCEPT ![p] = s] /\ prompt[p] = "running"
      BY <1>5 DEF PollMisses
    <2>2. prompt' \in [PromptIds -> PromptStates] /\ \A q \in PromptIds : PromptStep(q)
      BY <1>1, <1>3, <2>1, PromptMoves
    <2>3. /\ UNCHANGED <<queueVars, lane, tick, task>>
          /\ answer' = [answer EXCEPT ![r] = [row |-> row, status |-> "unknown"]]
          /\ pass' = [pass EXCEPT ![r] = pass[r] \ {row}]
      BY <1>5 DEF PollMisses
    <2>4. QED
      BY <1>2, <2>2, <2>3, AnswerStep
  <1>6. CASE PollFails(r, row)
    <2>1. /\ UNCHANGED <<queueVars, lane, prompt, tick, task>>
          /\ answer' = [answer EXCEPT ![r] = [row |-> row, status |-> "running"]]
          /\ pass' = [pass EXCEPT ![r] = pass[r] \ {row}]
      BY <1>6 DEF PollFails
    <2>2. QED
      BY <1>1, <1>2, <2>1, AnswerStep, SamePrompts
  <1>7. QED
    BY <1>4, <1>5, <1>6

-----------------------------------------------------------------------------
(* What a reconciler does about a row it read. *)
LEMMA VerdictRows ==
    ASSUME Inv, NEW row \in Snapshot, Known(row), FailOrRetry(row)
    PROVE  /\ row.job \in Jobs /\ Q!TypeOK' /\ OnlyRow(row.job)
           /\ \/ Kept(row.job)
              \/ Retried(row.job) /\ job[row.job].current_attempt + 1 < AttemptBound
              \/ Failed(row.job) /\ MayFail(row.job)
  <1> DEFINE j == row.job
  <1>1. Q!TypeOK /\ RowsBehind
    BY DEF Inv, Types, TypeOK
  <1>2. /\ j \in Jobs /\ row.current_attempt \in Nat /\ job[j].current_attempt \in Nat
        /\ MaxAttempts \in Nat
    <2>1. j \in Jobs /\ row.current_attempt \in 0..AttemptBound
      BY DEF Snapshot
    <2>2. MaxAttempts \in Nat
      BY PipelineAssumption
    <2>3. job[j].current_attempt \in Nat
      BY <1>1, <2>1, RowTypes
    <2>4. QED
      BY <2>1, <2>2, <2>3
  <1>3. row.current_attempt <= job[j].current_attempt
    BY <1>1 DEF RowsBehind
  <1>4. CASE Retryable(row)
    <2>1. Q!MarkRetryWait(j) /\ job[j].current_attempt + 1 < AttemptBound
      BY <1>4 DEF FailOrRetry, Retry
    <2>2. QED
      BY <1>1, <1>2, <2>1, RetryRows
  <1>5. CASE ~Retryable(row)
    <2>1. Q!MarkFailed(j)
      BY <1>5 DEF FailOrRetry
    <2>2. MayFail(j)
      BY <1>2, <1>3, <1>5 DEF Retryable, MayFail
    <2>3. QED
      BY <1>1, <1>2, <2>1, <2>2, FailRows
  <1>6. QED
    BY <1>4, <1>5

LEMMA ResolveRows ==
    ASSUME Inv, NEW r \in Reconcilers, answer[r] # NoAnswer, Resolve(r)
    PROVE  LET j == answer[r].row.job
               p == answer[r].row.prompt
           IN  /\ j \in Jobs /\ p \in PromptIds /\ Q!TypeOK' /\ OnlyRow(j)
               /\ \/ Kept(j)
                  \/ Renewed(j)
                  \/ Retried(j) /\ job[j].current_attempt + 1 < AttemptBound
                  \/ Failed(j) /\ MayFail(j)
                  \/ Succeeded(j, p) /\ MaySucceed(j, p)
  <1> DEFINE row == answer[r].row
             j == row.job
             p == row.prompt
  <1>1. Types /\ Q!TypeOK /\ AnswersHold
    BY DEF Inv, Types, TypeOK
  <1>2. /\ row \in Snapshot /\ j \in Jobs /\ Known(row) /\ Asked(j, p)
        /\ p \in PromptIds \cup {NoPrompt} /\ answer[r] \in Answer
    BY <1>1, AnswerKnown
  <1>3. p \in PromptIds
    BY <1>1, <1>2 DEF AnswersHold
  <1>4. answer[r].status \in {"running", "succeeded", "failed", "unknown"}
    BY <1>2 DEF Answer
  <1>5. CASE answer[r].status = "succeeded"
    <2>1. Q!MarkSucceeded(j, p)
      BY <1>5 DEF Resolve
    <2>2. prompt[p] \in {"succeeded", "forgotten"}
      BY <1>1, <1>5 DEF AnswersHold
    <2> HIDE DEF j, p
    <2>3. Q!TypeOK' /\ OnlyRow(j) /\ (Kept(j) \/ Succeeded(j, p))
      BY <1>1, <1>2, <1>3, <2>1, SucceedRows
    <2>4. MaySucceed(j, p)
      BY <1>2, <2>2 DEF MaySucceed
    <2>5. QED
      BY <1>2, <1>3, <2>3, <2>4 DEF j, p
  <1>6. CASE answer[r].status = "running"
    <2>1. Q!RenewLease(j)
      BY <1>6 DEF Resolve
    <2>2. Q!TypeOK' /\ OnlyRow(j) /\ Renewed(j)
      BY <1>1, <1>2, <2>1, RenewRows
    <2>3. QED
      BY <1>2, <1>3, <2>2
  <1>7. CASE UNCHANGED queueVars
    <2>1. Q!TypeOK' /\ \A i \in Jobs : Kept(i)
      BY <1>1, <1>7, KeepRows
    <2>2. OnlyRow(j) /\ Kept(j)
      BY <1>2, <2>1 DEF OnlyRow
    <2>3. QED
      BY <1>2, <1>3, <2>1, <2>2
  <1>8. CASE FailOrRetry(row)
    BY <1>2, <1>3, <1>8, VerdictRows
  <1>9. UNCHANGED queueVars \/ FailOrRetry(row)
           \/ answer[r].status = "succeeded" \/ answer[r].status = "running"
    <2>1. CASE answer[r].status = "unknown"
      BY <2>1 DEF Resolve
    <2>2. CASE answer[r].status = "failed"
      BY <2>2 DEF Resolve
    <2>3. QED
      BY <1>4, <2>1, <2>2
  <1>10. QED
    BY <1>5, <1>6, <1>7, <1>8, <1>9

LEMMA RetriesWithinBound ==
    ASSUME NEW j \in Jobs, Q!TypeOK, OnlyRow(j),
           \/ Kept(j) \/ Renewed(j)
           \/ Retried(j) /\ job[j].current_attempt + 1 < AttemptBound
           \/ Failed(j) \/ \E p \in PromptIds : Succeeded(j, p)
    PROVE  \A i \in Jobs : Retried(i) => job[i].current_attempt + 1 < AttemptBound
  <1> SUFFICES ASSUME NEW i \in Jobs, Retried(i)
               PROVE  job[i].current_attempt + 1 < AttemptBound
    OBVIOUS
  <1>1. job[i].current_attempt \in Nat
    BY RowTypes
  <1>2. ~Kept(i)
    BY <1>1 DEF Kept, Retried
  <1>3. i = j
    BY <1>2 DEF OnlyRow
  <1>4. ~Renewed(i) /\ ~Failed(i) /\ \A p \in PromptIds : ~Succeeded(i, p)
    BY <1>1 DEF Retried, Renewed, Failed, Succeeded
  <1>5. QED
    BY <1>2, <1>3, <1>4

LEMMA ResolveStep ==
    ASSUME Inv, NEW r \in Reconcilers, answer[r] # NoAnswer, Resolve(r)
    PROVE  Step
  <1> DEFINE j == answer[r].row.job
             p == answer[r].row.prompt
  <1>1. Types /\ OneHolder /\ AcceptedWasSubmitted /\ Q!TypeOK
    BY DEF Inv, Types, TypeOK
  <1>2. /\ answer' = [answer EXCEPT ![r] = NoAnswer]
        /\ UNCHANGED <<lane, prompt, tick, task, pass>>
    BY DEF Resolve
  <1>3. /\ j \in Jobs /\ p \in PromptIds /\ Q!TypeOK' /\ OnlyRow(j)
        /\ \/ Kept(j)
           \/ Renewed(j)
           \/ Retried(j) /\ job[j].current_attempt + 1 < AttemptBound
           \/ Failed(j) /\ MayFail(j)
           \/ Succeeded(j, p) /\ MaySucceed(j, p)
    BY ResolveRows
  <1> HIDE DEF j, p
  <1>4. \A i \in Jobs : RowStep(i)
    BY <1>3, OneRowStep DEF RowStep
  <1>5. \A i \in Jobs : Retried(i) => job[i].current_attempt + 1 < AttemptBound
    BY <1>1, <1>3, RetriesWithinBound
  <1>6. answer \in [Reconcilers -> {NoAnswer} \cup Answer]
    BY <1>1, OtherTypes
  <1>7. KnownStep /\ answer' \in [Reconcilers -> {NoAnswer} \cup Answer]
    BY <1>2, <1>6, KnownShrinks
  <1>8. FlightStep /\ task' \subseteq Task
    BY <1>1, <1>2, SameFlight, SamePrompts DEF Types, TypeOK
  <1>9. QED
    BY <1>1, <1>2, <1>3, <1>4, <1>5, <1>7, <1>8, RowsAreAStep

LEMMA UnpromptedRows ==
    ASSUME Inv, NEW r \in Reconcilers, NEW row \in pass[r], ResolveUnprompted(r, row)
    PROVE  /\ row.job \in Jobs /\ Q!TypeOK' /\ OnlyRow(row.job)
           /\ \/ Kept(row.job)
              \/ row.expired /\ Retried(row.job) /\ job[row.job].current_attempt + 1 < AttemptBound
              \/ row.expired /\ Failed(row.job) /\ MayFail(row.job)
  <1>1. row \in Snapshot /\ row.job \in Jobs /\ Known(row) /\ Q!TypeOK
    BY RowTypesOfPass DEF Inv, Types, TypeOK
  <1>2. CASE row.expired /\ FailOrRetry(row)
    BY <1>1, <1>2, VerdictRows
  <1>3. CASE UNCHANGED queueVars
    BY <1>1, <1>3, KeepRows DEF OnlyRow
  <1>4. QED
    BY <1>2, <1>3 DEF ResolveUnprompted

LEMMA ResolveUnpromptedStep ==
    ASSUME Inv, NEW r \in Reconcilers, NEW row \in pass[r], ResolveUnprompted(r, row)
    PROVE  Step
  <1> DEFINE j == row.job
  <1>1. Types /\ OneHolder /\ AcceptedWasSubmitted /\ Q!TypeOK
    BY DEF Inv, Types, TypeOK
  <1>2. /\ pass' = [pass EXCEPT ![r] = pass[r] \ {row}]
        /\ UNCHANGED <<lane, prompt, tick, task, answer>>
    BY DEF ResolveUnprompted
  <1>3. /\ j \in Jobs /\ Q!TypeOK' /\ OnlyRow(j)
        /\ \/ Kept(j)
           \/ Retried(j) /\ job[j].current_attempt + 1 < AttemptBound
           \/ Failed(j) /\ MayFail(j)
    BY UnpromptedRows
  <1>4. \A i \in Jobs : RowStep(i)
    BY <1>3, OneRowStep DEF RowStep
  <1>5. \A i \in Jobs : job'[i].current_attempt < AttemptBound
    BY <1>1, <1>3, <1>4, RetriesWithinBound, CountsBounded
  <1>6. pass \in [Reconcilers -> SUBSET Snapshot]
    BY <1>1, OtherTypes
  <1>7. /\ pass' \in [Reconcilers -> SUBSET Snapshot]
        /\ \A q \in Reconcilers : pass'[q] \subseteq pass[q]
    BY <1>2, <1>6
  <1>8. KnownStep
    BY <1>2, <1>7, KnownShrinks
  <1>9. FlightStep
    BY <1>1, <1>2, SameFlight, SamePrompts
  <1>10. Types'
    BY <1>1, <1>2, <1>3, <1>5, <1>7 DEF Types, TypeOK
  <1>11. QED
    BY <1>2, <1>4, <1>8, <1>9, <1>10, SamePrompts DEF Step

LEMMA IdleStep ==
    ASSUME Inv, UNCHANGED vars
    PROVE  Step
  <1>1. Types
    BY DEF Inv
  <1>2. UNCHANGED <<queueVars, lane, prompt, tick, task, pass, answer>>
    BY DEF vars, queueVars
  <1>3. KnownStep
    BY <1>2, KnownShrinks
  <1>4. QED
    BY <1>1, <1>2, <1>3, OtherTypes, ReadingStep, SamePrompts

-----------------------------------------------------------------------------
LEMMA EveryStep ==
    ASSUME Inv, [Next]_vars
    PROVE  Step
  <1>1. ASSUME NEW j \in Jobs, Enqueue(j) \/ Cancel(j) \/ LeaseExpires(j) \/ BackoffElapses(j)
        PROVE  Step
    BY <1>1, OutsideStep
  <1>2. ASSUME NEW s \in Schedulers,
               Reserve(s) \/ TickFails(s) \/ \E l \in Lanes : ClaimLane(s, l)
        PROVE  Step
    BY <1>2, ReserveStep, TickFailsStep, ClaimLaneStep
  <1>3. ASSUME NEW t \in task,
               \/ StartRun(t) \/ Submit(t) \/ Record(t)
               \/ DispatchError(t) \/ Requeue(t) \/ TaskDies(t)
        PROVE  Step
    BY <1>3, StartRunStep, SubmitStep, RecordStep, DispatchErrorStep, RequeueStep, TaskDiesStep
  <1>4. ASSUME NEW l \in Lanes, Heartbeat(l) \/ GoesDown(l) \/ ComesBack(l)
        PROVE  Step
    BY <1>4, LaneStep
  <1>5. ASSUME NEW p \in PromptIds, Finishes(p) \/ Forgets(p)
        PROVE  Step
    BY <1>5, BackendStep
  <1>6. ASSUME NEW r \in Reconcilers,
               \/ ListActive(r) \/ Skip(r)
               \/ answer[r] # NoAnswer /\ Resolve(r)
               \/ \E row \in pass[r] : ReconcileJob(r, row)
        PROVE  Step
    BY <1>6, ListActiveStep, SkipStep, SkipRowStep, ResolveStep, PollStep, ResolveUnpromptedStep
       DEF ReconcileJob
  <1>7. QED
    BY <1>1, <1>2, <1>3, <1>4, <1>5, <1>6, IdleStep DEF Next

LEMMA InvInit == Init => Inv
  <1> SUFFICES ASSUME Init
               PROVE  Inv
    OBVIOUS
  <1>1. \A j \in Jobs : job[j] = Q!NoJob /\ attempt[j] = Q!NoAttempt
    BY DEF Init, Q!Init
  <1>2. Q!TypeOK
    BY DEF Init, Q!Init, Q!TypeOK, Q!NoJob, Q!NoAttempt, Q!JobRow, Q!AttemptRow, Q!JobStates,
           Q!AttemptStates
  <1>3. Types
    <2>1. lane \in [Lanes -> [up : BOOLEAN, online : BOOLEAN, outages : 0..1]]
      BY DEF Init
    <2>2. prompt \in [PromptIds -> PromptStates]
      BY DEF Init, PromptStates
    <2>3. /\ tick \in [Schedulers -> [room : Rooms, claimed : SUBSET Handle]]
          /\ \A s \in Schedulers : /\ DOMAIN tick[s].room \subseteq Lanes
                                   /\ tick[s].claimed \subseteq Handle
      BY IdleTick DEF Init
    <2>4. \A j \in Jobs : job[j].current_attempt < AttemptBound
      <3>1. 0 < AttemptBound
        BY PipelineAssumption
      <3>2. QED
        BY <1>1, <3>1 DEF Q!NoJob
    <2>5. /\ task \subseteq Task /\ pass \in [Reconcilers -> SUBSET Snapshot]
          /\ answer \in [Reconcilers -> {NoAnswer} \cup Answer]
      BY DEF Init
    <2>6. QED
      BY <1>2, <2>1, <2>2, <2>3, <2>4, <2>5 DEF Types, TypeOK
  <1>4. \A j \in Jobs, n \in 1..AttemptBound : ~Holds(j, n)
    BY IdleTick DEF Init, Holds
  <1>5. \A row \in Snapshot : ~Known(row)
    BY DEF Init, Known
  <1>6. \A j \in Jobs, p \in PromptIds : ~Asked(j, p)
    BY <1>1, <1>5, NoPromptAssumption DEF Asked, Q!NoAttempt
  <1>7. Q!AttemptsCounted /\ Leased /\ SucceededIsGenuine /\ FailedOnlyAtBudget
    BY <1>1 DEF Q!AttemptsCounted, Leased, SucceededIsGenuine, FailedOnlyAtBudget, Q!NoJob,
                Q!NoAttempt, Q!Waiting, Q!Active, Q!Exists, Q!BacklogStates, Q!ActiveStates
  <1>8. OneHolder /\ AcceptedWasSubmitted /\ AnswersHold
    BY IdleTick DEF Init, OneHolder, AcceptedWasSubmitted, AnswersHold
  <1>9. QED
    BY <1>3, <1>4, <1>5, <1>6, <1>7, <1>8 DEF Inv, HandlesOpened, AskedWasReleased, RowsBehind

LEMMA InvStep == Inv /\ [Next]_vars => Inv'
  BY EveryStep, StepKeepsInv, NoPromptAssumption

LEMMA InvAlways == Spec => []Inv
  BY InvInit, InvStep, PTL DEF Spec

(* The rows, tasks, passes and answers keep to their domains. *)
THEOREM PipelineTypeCorrect == Spec => []TypeOK
  <1>1. Inv => TypeOK
    BY DEF Inv, Types
  <1>2. QED
    BY <1>1, InvAlways, PTL

(* queue/__init__.py:41-47: however late a poll's answer is acted upon, a
   succeeded job has the result of a prompt submitted for it, which ended
   well. *)
THEOREM SuccessIsGenuine == Spec => []SucceededIsGenuine
  <1>1. Inv => SucceededIsGenuine
    BY DEF Inv
  <1>2. QED
    BY <1>1, InvAlways, PTL

(* retry.py:28-33: no job fails before its retries reached the limit, though
   the decision is taken on a row that may be old. *)
THEOREM NoEarlyFailure == Spec => []FailedOnlyAtBudget
  <1>1. Inv => FailedOnlyAtBudget
    BY DEF Inv
  <1>2. QED
    BY <1>1, InvAlways, PTL

(* reconciler.py:1-3: an active job always has an attempt with a lease, by
   which a pass can tell that its worker is gone. *)
THEOREM ActiveCanBeRecovered == Spec => []ActiveIsRecoverable
  <1>1. Inv => ActiveIsRecoverable
    <2> SUFFICES ASSUME Inv, NEW j \in Jobs, Q!Active(j)
                 PROVE  attempt[j].no > 0 /\ attempt[j].lease # "none"
      BY DEF ActiveIsRecoverable
    <2>1. attempt[j].no > 0
      BY DEF Inv, Leased
    <2>2. QED
      BY <2>1 DEF Inv, Leased
  <1>2. QED
    BY <1>1, InvAlways, PTL

(* comfyui/live.py:488-567: with ComfyUI servers only, a prompt is called
   failed when it failed, was refused or was lost, and still is when the
   verdict is written. *)
THEOREM FailuresAreGenuine == CloudLanes = {} => (Spec => []FailureIsGenuine)
  <1> SUFFICES ASSUME CloudLanes = {}
               PROVE  Spec => []FailureIsGenuine
    OBVIOUS
  <1>1. Inv => FailureIsGenuine
    <2> SUFFICES ASSUME Inv, NEW r \in Reconcilers, answer[r].status = "failed"
                 PROVE  prompt[answer[r].row.prompt] \in {"failed", "rejected", "forgotten"}
      BY DEF FailureIsGenuine
    <2>1. answer[r] # NoAnswer
      BY DEF NoAnswer
    <2>2. QED
      BY <2>1 DEF Inv, AnswersHold
  <1>2. QED
    BY <1>1, InvAlways, PTL

-----------------------------------------------------------------------------
(* From here on: dispatches end before their leases, and one reconciler
   looks at the jobs. *)
Alone == ~SlowDispatch /\ \A r, q \in Reconcilers : r = q

Unheld(j) == \A n \in 1..AttemptBound : ~Holds(j, n)

NoDecisiveRow(j) == \A row \in Snapshot : Known(row) /\ Decisive(row) => row.job # j

SoloRow(j) ==
    \/ Kept(j) \/ Created(j) \/ Due(j) \/ Cancelled(j) \/ Renewed(j)
    \/ Started(j) /\ Q!Active(j)
    \/ Expired(j) /\ Unheld(j)
    \/ Failed(j) /\ Unheld(j)'
    \/ Retried(j) /\ Unheld(j)' /\ NoDecisiveRow(j)'
    \/ \E p \in PromptIds : Succeeded(j, p) /\ Unheld(j)'
    \/ \E p \in PromptIds : Prompted(j, p) /\ p = <<j, attempt[j].no>> /\ Unheld(j)'
    \/ Claimed(j) /\ Opened(j) /\ tick' # tick

SoloKnown ==
    /\ OneRowPerJob'
    /\ \A row \in Snapshot :
          Known(row)' => \/ Known(row)
                         \/ /\ row.job \in Jobs /\ row = SnapshotOf(row.job)
                            /\ Q!Active(row.job) /\ Kept(row.job)
                            /\ \A n \in 1..AttemptBound : Holds(row.job, n)' => Holds(row.job, n)

SoloStep == (\A j \in Jobs : SoloRow(j)) /\ SoloKnown

LEMMA StateSets ==
    ASSUME NEW j \in Jobs
    PROVE  /\ Q!Waiting(j) <=> job[j].state \in {"queued", "retry_wait"}
           /\ Q!Active(j) <=> job[j].state \in {"dispatched", "running"}
           /\ Q!Exists(j) <=> job[j].state # "absent"
           /\ Q!Unfinished(j) <=> job[j].state \notin {"absent", "succeeded", "failed", "cancelled"}
           /\ Q!Waiting(j)' <=> job'[j].state \in {"queued", "retry_wait"}
           /\ Q!Active(j)' <=> job'[j].state \in {"dispatched", "running"}
           /\ Q!Exists(j)' <=> job'[j].state # "absent"
  BY DEF Q!Waiting, Q!Active, Q!Exists, Q!Unfinished, Q!Terminal, Q!BacklogStates, Q!ActiveStates,
         Q!TerminalStates

LEMMA ClaimedOwns ==
    ASSUME Inv, NEW j \in Jobs, Claimed(j), NEW n \in 1..AttemptBound, attempt'[j].no = n
    PROVE  OwnsAttempt(j, n)'
  <1>1. /\ job[j].current_attempt \in Nat /\ attempt[j].no \in Nat
        /\ attempt[j].no <= job[j].current_attempt
    BY RowTypes DEF Inv, Types, TypeOK, Q!AttemptsCounted, Claimed
  <1>2. ~(attempt[j].no >= job[j].current_attempt + 1)
    BY <1>1
  <1>3. attempt'[j] = [no |-> job[j].current_attempt + 1, state |-> "dispatched",
                       lease |-> "live", prompt |-> NoPrompt, result |-> NoPrompt]
    BY <1>2 DEF Claimed, Q!LeasedAttempt, Q!NoAttempt
  <1>4. job'[j].state = "dispatched" /\ job'[j].current_attempt = job[j].current_attempt
    BY DEF Claimed, CountKept
  <1>5. QED
    BY <1>3, <1>4, StateSets DEF OwnsAttempt

LEMMA OwnedStep ==
    ASSUME SoloInv, Step, SoloStep
    PROVE  Owned'
  <1> SUFFICES ASSUME NEW j \in Jobs, NEW n \in 1..AttemptBound, Holds(j, n)'
               PROVE  OwnsAttempt(j, n)'
    BY DEF Owned
  <1>1. Inv /\ Owned /\ SoloRow(j) /\ FlightStep
    BY DEF SoloInv, SoloStep, Step
  <1>2. Holds(j, n) \/ (Claimed(j) /\ attempt'[j].no = n)
    BY <1>1 DEF FlightStep
  <1>3. CASE Claimed(j) /\ attempt'[j].no = n
    BY <1>1, <1>3, ClaimedOwns
  <1>4. CASE Holds(j, n)
    <2>1. OwnsAttempt(j, n)
      BY <1>1, <1>4 DEF Owned
    <2>2. /\ attempt[j].no = n /\ attempt[j].prompt = NoPrompt /\ attempt[j].lease = "live"
          /\ job[j].current_attempt + 1 = n
          /\ job[j].state \in {"dispatched", "running", "cancelled"}
      BY <2>1, StateSets DEF OwnsAttempt
    <2>3. ~Unheld(j) /\ ~Unheld(j)'
      BY <1>4 DEF Unheld
    <2>4. ~Created(j) /\ ~Due(j) /\ ~Claimed(j)
      BY <2>2, StateSets DEF Created, Due, Claimed
    <2>5. CASE Kept(j)
      BY <2>1, <2>2, <2>5, StateSets DEF Kept, OwnsAttempt
    <2>6. CASE Cancelled(j) \/ Started(j)
      BY <2>2, <2>6, StateSets DEF Cancelled, Started, CountKept, OwnsAttempt
    <2>7. CASE Renewed(j)
      BY <2>2, <2>7, StateSets DEF Renewed, OwnsAttempt
    <2>8. QED
      BY <1>1, <2>3, <2>4, <2>5, <2>6, <2>7 DEF SoloRow
  <1>5. QED
    BY <1>2, <1>3, <1>4

LEMMA RowsSettledStep ==
    ASSUME SoloInv, Step, SoloStep
    PROVE  RowsSettled'
  <1> SUFFICES ASSUME NEW row \in Snapshot, Known(row)', Decisive(row)
               PROVE  Settled(row.job)'
    BY DEF RowsSettled, Decisive
  <1> DEFINE j == row.job
  <1>1. Owned /\ RowsSettled /\ SoloKnown /\ FlightStep
    BY DEF SoloInv, SoloStep, Step
  <1>2. j \in Jobs
    BY DEF Snapshot
  <1>3. SoloRow(j)
    BY <1>2 DEF SoloStep
  <1>4. CASE Known(row)
    <2>1. Settled(j)
      BY <1>1, <1>4 DEF RowsSettled
    <2>2. /\ job[j].state \notin {"absent", "queued", "retry_wait"}
          /\ \A n \in 1..AttemptBound : ~Holds(j, n)
      BY <1>2, <2>1, StateSets DEF Settled
    <2> HIDE DEF j
    <2>3. ~Created(j) /\ ~Due(j) /\ ~Claimed(j)
      BY <1>2, <2>2, StateSets DEF Created, Due, Claimed
    <2>4. \A n \in 1..AttemptBound : ~Holds(j, n)'
      BY <1>1, <1>2, <2>2, <2>3 DEF FlightStep
    <2>5. ~NoDecisiveRow(j)'
      BY DEF NoDecisiveRow, j, Decisive
    <2>6. job'[j].state \notin {"absent", "queued", "retry_wait"}
      <3>1. CASE Kept(j) \/ Renewed(j) \/ Expired(j) \/ \E p \in PromptIds : Prompted(j, p)
        BY <2>2, <3>1 DEF Kept, Renewed, Expired, Prompted
      <3>2. CASE Cancelled(j) \/ Started(j) \/ Failed(j) \/ \E p \in PromptIds : Succeeded(j, p)
        BY <2>2, <3>2 DEF Cancelled, Started, Failed, Succeeded
      <3>3. QED
        BY <1>3, <2>3, <2>5, <3>1, <3>2 DEF SoloRow
    <2>7. QED
      BY <1>2, <2>4, <2>6, StateSets DEF Settled, j
  <1>5. CASE /\ row = SnapshotOf(j) /\ Q!Active(j) /\ Kept(j)
             /\ \A n \in 1..AttemptBound : Holds(j, n)' => Holds(j, n)
    <2>1. row.prompt = attempt[j].prompt /\ row.expired = (attempt[j].lease = "expired")
      BY <1>5 DEF SnapshotOf
    <2> HIDE DEF j
    <2>2. \A n \in 1..AttemptBound : ~Holds(j, n)
      BY <1>1, <1>2, <2>1 DEF Owned, OwnsAttempt, Decisive
    <2>3. job'[j].state \notin {"absent", "queued", "retry_wait"}
      BY <1>2, <1>5, StateSets DEF Kept
    <2>4. QED
      BY <1>2, <1>5, <2>2, <2>3, StateSets DEF Settled, j
  <1>6. QED
    BY <1>1, <1>4, <1>5 DEF SoloKnown

LEMMA PromptOfAttemptStep ==
    ASSUME SoloInv, SoloStep
    PROVE  PromptOfAttempt'
  <1> SUFFICES ASSUME NEW j \in Jobs
               PROVE  attempt'[j].prompt \in {NoPrompt, <<j, attempt'[j].no>>}
    BY DEF PromptOfAttempt
  <1>1. attempt[j].prompt \in {NoPrompt, <<j, attempt[j].no>>} /\ SoloRow(j)
    BY DEF SoloInv, SoloStep, PromptOfAttempt
  <1>2. CASE Kept(j) \/ Created(j) \/ Due(j) \/ Started(j) \/ Cancelled(j)
    BY <1>1, <1>2 DEF Kept, Created, Due, Started, Cancelled
  <1>3. CASE \/ Failed(j) \/ Retried(j) \/ Renewed(j) \/ Expired(j)
             \/ \E p \in PromptIds : Succeeded(j, p)
    BY <1>1, <1>3 DEF Failed, Retried, Renewed, Expired, Succeeded, LeaseKept
  <1>4. CASE \E p \in PromptIds : Prompted(j, p) /\ p = <<j, attempt[j].no>>
    BY <1>1, <1>4 DEF Prompted
  <1>5. CASE Opened(j)
    BY <1>5 DEF Opened
  <1>6. QED
    BY <1>1, <1>2, <1>3, <1>4, <1>5 DEF SoloRow

LEMMA StepKeepsSoloInv ==
    ASSUME SoloInv, Step, SoloStep
    PROVE  SoloInv'
  <1>1. Inv'
    BY StepKeepsInv, NoPromptAssumption DEF SoloInv
  <1>2. OneRowPerJob'
    BY DEF SoloStep, SoloKnown
  <1>3. QED
    BY <1>1, <1>2, OwnedStep, RowsSettledStep, PromptOfAttemptStep DEF SoloInv

LEMMA SameRowsKnown ==
    ASSUME SoloInv,
           \A r \in Reconcilers : pass'[r] \subseteq pass[r] /\ answer'[r] \in {answer[r], NoAnswer}
    PROVE  SoloKnown
  <1>1. OneRowPerJob
    BY DEF SoloInv
  <1>2. OneRowPerJob'
    <2>1. ASSUME NEW r \in Reconcilers
          PROVE  /\ \A row, other \in pass'[r] : row.job = other.job => row = other
                 /\ answer'[r] # NoAnswer => \A row \in pass'[r] : row.job # answer'[r].row.job
      <3>1. pass'[r] \subseteq pass[r] /\ answer'[r] \in {answer[r], NoAnswer}
        OBVIOUS
      <3>2. QED
        BY <1>1, <3>1 DEF OneRowPerJob
    <2>2. QED
      BY <2>1 DEF OneRowPerJob
  <1>3. \A row \in Snapshot : Known(row)' => Known(row)
    BY KnownShrinks
  <1>4. QED
    BY <1>2, <1>3 DEF SoloKnown

(* The owner of an attempt is alone with its job. *)
LEMMA LastHolder ==
    ASSUME SoloInv, NEW j \in Jobs, NEW n \in 1..AttemptBound, Holds(j, n), ~Holds(j, n)',
           \A m \in 1..AttemptBound : Holds(j, m)' => Holds(j, m)
    PROVE  Unheld(j)'
  BY DEF SoloInv, Owned, OwnsAttempt, Unheld

LEMMA OneSoloRow ==
    ASSUME NEW j \in Jobs, OnlyRow(j), SoloRow(j)
    PROVE  \A i \in Jobs : SoloRow(i)
  BY DEF OnlyRow, SoloRow

LEMMA OutsideSolo ==
    ASSUME SoloInv, Alone, NEW j \in Jobs,
           Enqueue(j) \/ Cancel(j) \/ LeaseExpires(j) \/ BackoffElapses(j)
    PROVE  SoloStep
  <1>1. Types
    BY DEF SoloInv, Inv
  <1>2. /\ OnlyRow(j) /\ UNCHANGED <<pass, answer>>
        /\ Kept(j) \/ Created(j) \/ Cancelled(j) \/ Due(j) \/ (LeaseExpires(j) /\ Expired(j))
    BY <1>1, OutsideRows DEF RowsOnly
  <1>3. LeaseExpires(j) => Unheld(j)
    <2> SUFFICES ASSUME LeaseExpires(j), NEW n \in 1..AttemptBound, Holds(j, n)
                 PROVE  FALSE
      BY DEF Unheld
    <2>1. ~Dispatching(j)
      BY DEF LeaseExpires, Alone
    <2>2. PICK h \in InFlight : h.job = j
      BY DEF Holds, InFlight
    <2>3. QED
      BY <2>1, <2>2 DEF Dispatching
  <1>4. SoloRow(j)
    BY <1>2, <1>3 DEF SoloRow
  <1>5. SoloKnown
    BY <1>2, SameRowsKnown
  <1>6. QED
    BY <1>2, <1>4, <1>5, OneSoloRow DEF SoloStep

LEMMA ClaimLaneRows ==
    ASSUME Inv, NEW s \in Schedulers, NEW l \in Lanes, ClaimLane(s, l)
    PROVE  \E C \in SUBSET Q!Eligible(l) :
              /\ C \subseteq Jobs /\ l \in DOMAIN tick[s].room
              /\ Q!IsBatch(C, l, tick[s].room[l])
              /\ \A j \in C : Claimed(j) /\ Opened(j)
              /\ \A j \in Jobs \ C : Kept(j)
              /\ \/ tick' = [tick EXCEPT ![s] = Idle]
                 \/ tick' = [tick EXCEPT ![s] =
                                  [room    |-> [k \in DOMAIN tick[s].room \ {l} |-> tick[s].room[k]],
                                   claimed |-> ClaimedBy(s, C)]]
              /\ UNCHANGED <<pass, answer>>
  <1>1. Q!TypeOK /\ Q!AttemptsCounted
    BY DEF Inv, Types, TypeOK
  <1>2. PICK C \in SUBSET Q!Eligible(l) :
              /\ l \in DOMAIN tick[s].room /\ Q!IsBatch(C, l, tick[s].room[l]) /\ Q!Claim(C)
              /\ \/ /\ DOMAIN tick[s].room \ {l} = {}
                    /\ task' = task \cup NewTasks(ClaimedBy(s, C))
                    /\ tick' = [tick EXCEPT ![s] = Idle]
                 \/ /\ tick' = [tick EXCEPT ![s] =
                                  [room    |-> [k \in DOMAIN tick[s].room \ {l} |-> tick[s].room[k]],
                                   claimed |-> ClaimedBy(s, C)]]
                    /\ UNCHANGED task
              /\ UNCHANGED <<lane, prompt, pass, answer>>
    BY ClaimEffect
  <1>3. C \subseteq Jobs /\ \A j \in C : Q!Waiting(j)
    BY ClaimedByTypes
  <1>4. (\A j \in C : Claimed(j) /\ Opened(j)) /\ \A j \in Jobs \ C : Kept(j)
    BY <1>1, <1>2, <1>3, ClaimRows
  <1>5. QED
    BY <1>2, <1>3, <1>4

LEMMA ClaimMovesTick ==
    ASSUME Types, NEW s \in Schedulers, NEW l \in Lanes, ClaimLane(s, l)
    PROVE  tick' # tick
  <1>1. /\ l \in DOMAIN tick[s].room
        /\ \/ tick' = [tick EXCEPT ![s] = Idle]
           \/ \E handles : tick' = [tick EXCEPT ![s] =
                  [room    |-> [k \in DOMAIN tick[s].room \ {l} |-> tick[s].room[k]],
                   claimed |-> handles]]
    BY DEF ClaimLane
  <1>2. \/ tick'[s].room = << >>
        \/ tick'[s].room = [k \in DOMAIN tick[s].room \ {l} |-> tick[s].room[k]]
    BY <1>1, IdleTick DEF Types
  <1>3. l \notin DOMAIN tick'[s].room
    BY <1>2
  <1>4. QED
    BY <1>1, <1>3

LEMMA SchedulerSolo ==
    ASSUME SoloInv, NEW s \in Schedulers,
           Reserve(s) \/ TickFails(s) \/ \E l \in Lanes : ClaimLane(s, l)
    PROVE  SoloStep
  <1>1. Inv /\ Types
    BY DEF SoloInv, Inv
  <1>2. CASE Reserve(s) \/ TickFails(s)
    <2>1. UNCHANGED <<queueVars, pass, answer>>
      BY <1>2 DEF Reserve, TickFails
    <2>2. \A j \in Jobs : SoloRow(j)
      BY <1>1, <2>1, RowsKeptStep DEF SoloRow
    <2>3. QED
      BY <2>1, <2>2, SameRowsKnown DEF SoloStep
  <1>3. ASSUME NEW l \in Lanes, ClaimLane(s, l)
        PROVE  SoloStep
    <2>1. UNCHANGED <<pass, answer>> /\ \A j \in Jobs : Kept(j) \/ (Claimed(j) /\ Opened(j))
      BY <1>1, <1>3, ClaimLaneRows
    <2>2. tick' # tick
      BY <1>1, <1>3, ClaimMovesTick
    <2>3. \A j \in Jobs : SoloRow(j)
      BY <2>1, <2>2 DEF SoloRow
    <2>4. QED
      BY <2>1, <2>3, SameRowsKnown DEF SoloStep
  <1>4. QED
    BY <1>2, <1>3

LEMMA TaskSolo ==
    ASSUME SoloInv, NEW t \in task,
           \/ StartRun(t) \/ Submit(t) \/ Record(t)
           \/ DispatchError(t) \/ Requeue(t) \/ TaskDies(t)
    PROVE  SoloStep
  <1> DEFINE j == t.job
  <1>1. Inv /\ Types /\ Q!TypeOK /\ Owned /\ OneHolder /\ AcceptedWasSubmitted /\ RowsSettled
    BY DEF SoloInv, Inv, Types, TypeOK
  <1>2. j \in Jobs /\ t.no \in 1..AttemptBound /\ Holds(j, t.no) /\ <<j, t.no>> \in PromptIds
    BY <1>1, TaskTypes
  <1>3. UNCHANGED <<pass, answer>>
    BY DEF StartRun, Submit, Record, DispatchError, Requeue, TaskDies
  <1>4. SoloKnown
    BY <1>3, SameRowsKnown
  <1>5. OwnsAttempt(j, t.no)
    BY <1>1, <1>2 DEF Owned
  <1>6. CASE Submit(t) \/ DispatchError(t) \/ TaskDies(t)
    <2>1. UNCHANGED queueVars
      BY <1>6 DEF Submit, DispatchError, TaskDies
    <2>2. QED
      BY <1>1, <1>4, <2>1, RowsKeptStep DEF SoloRow, SoloStep
  <1>7. CASE StartRun(t)
    <2>1. OnlyRow(j) /\ (Kept(j) \/ Started(j))
      BY <1>1, <1>2, <1>7, MarkRunningRows DEF StartRun
    <2>2. Started(j) => Q!Active(j)
      BY <1>2, <1>5, StateSets DEF OwnsAttempt, Started
    <2>3. SoloRow(j)
      BY <2>1, <2>2 DEF SoloRow
    <2>4. QED
      BY <1>2, <1>4, <2>1, <2>3, OneSoloRow DEF SoloStep
  <1>8. CASE Record(t) \/ Requeue(t)
    <2>1. task' = task \ {t} /\ UNCHANGED <<tick, prompt>>
      BY <1>8 DEF Record, Requeue
    <2>2. /\ ~Holds(j, t.no)'
          /\ \A i \in Jobs, n \in 1..AttemptBound : Holds(i, n)' => Holds(i, n)
      BY <1>1, <2>1, DropFlight
    <2>3. Unheld(j)'
      BY <1>2, <2>2, LastHolder
    <2>4. CASE Record(t)
      <3>1. OnlyRow(j) /\ Prompted(j, <<j, t.no>>)
        BY <1>1, <1>2, <2>4, PromptRows DEF Record
      <3>2. t.no = attempt[j].no
        BY <1>5 DEF OwnsAttempt
      <3>3. SoloRow(j)
        BY <1>2, <2>3, <3>1, <3>2 DEF SoloRow
      <3>4. QED
        BY <1>2, <1>4, <3>1, <3>3, OneSoloRow DEF SoloStep
    <2>5. CASE Requeue(t)
      <3>1. OnlyRow(j) /\ (Kept(j) \/ Retried(j))
        BY <1>1, <1>2, <2>5, RetryRows DEF Requeue, Retry
      <3>2. NoDecisiveRow(j)'
        <4> SUFFICES ASSUME NEW row \in Snapshot, Known(row)', Decisive(row), row.job = j
                     PROVE  FALSE
          BY DEF NoDecisiveRow, Decisive
        <4>1. Known(row)
          BY <1>3 DEF Known
        <4>2. Settled(j)
          BY <1>1, <4>1 DEF RowsSettled
        <4>3. QED
          BY <1>2, <4>2 DEF Settled
      <3>3. SoloRow(j)
        BY <2>3, <3>1, <3>2 DEF SoloRow
      <3>4. QED
        BY <1>2, <1>4, <3>1, <3>3, OneSoloRow DEF SoloStep
    <2>6. QED
      BY <1>8, <2>4, <2>5
  <1>9. QED
    BY <1>6, <1>7, <1>8

LEMMA EnvironmentSolo ==
    ASSUME SoloInv, UNCHANGED <<queueVars, pass, answer>>
    PROVE  SoloStep
  <1>1. Types
    BY DEF SoloInv, Inv
  <1>2. \A j \in Jobs : SoloRow(j)
    BY <1>1, RowsKeptStep DEF SoloRow
  <1>3. QED
    BY <1>2, SameRowsKnown DEF SoloStep

LEMMA ListActiveSolo ==
    ASSUME SoloInv, NEW r \in Reconcilers, ListActive(r)
    PROVE  SoloStep
  <1> DEFINE rows == {SnapshotOf(j) : j \in {i \in Jobs : Q!Active(i)}}
  <1>1. Types /\ OneRowPerJob /\ pass \in [Reconcilers -> SUBSET Snapshot]
    BY OtherTypes DEF SoloInv, Inv
  <1>2. /\ pass' = [pass EXCEPT ![r] = rows] /\ answer[r] = NoAnswer
        /\ UNCHANGED <<queueVars, tick, task, answer>>
    BY DEF ListActive
  <1>3. \A row \in rows : row.job \in Jobs /\ Q!Active(row.job) /\ row = SnapshotOf(row.job)
    BY <1>1, SnapshotTypes
  <1> HIDE DEF rows
  <1>4. /\ pass'[r] = rows
        /\ \A q \in Reconcilers \ {r} : pass'[q] = pass[q]
    BY <1>1, <1>2
  <1>5. OneRowPerJob'
    <2>1. ASSUME NEW q \in Reconcilers
          PROVE  /\ \A row, other \in pass'[q] : row.job = other.job => row = other
                 /\ answer'[q] # NoAnswer => \A row \in pass'[q] : row.job # answer'[q].row.job
      <3>1. CASE q = r
        BY <1>2, <1>3, <1>4, <3>1
      <3>2. CASE q # r
        BY <1>1, <1>2, <1>4, <3>2 DEF OneRowPerJob
      <3>3. QED
        BY <3>1, <3>2
    <2>2. QED
      BY <2>1 DEF OneRowPerJob
  <1>6. \A j \in Jobs : Kept(j) /\ SoloRow(j)
    BY <1>1, <1>2, RowsKeptStep DEF SoloRow
  <1>7. \A j \in Jobs, n \in 1..AttemptBound : Holds(j, n)' => Holds(j, n)
    BY <1>2 DEF Holds
  <1>8. ASSUME NEW row \in Snapshot, Known(row)'
        PROVE  \/ Known(row)
               \/ /\ row.job \in Jobs /\ row = SnapshotOf(row.job)
                  /\ Q!Active(row.job) /\ Kept(row.job)
                  /\ \A n \in 1..AttemptBound : Holds(row.job, n)' => Holds(row.job, n)
    <2>1. CASE row \in rows
      BY <1>3, <1>6, <1>7, <2>1
    <2>2. CASE row \notin rows
      BY <1>2, <1>4, <1>8, <2>2 DEF Known
    <2>3. QED
      BY <2>1, <2>2
  <1>9. QED
    BY <1>5, <1>6, <1>8 DEF SoloStep, SoloKnown

LEMMA PollSolo ==
    ASSUME SoloInv, NEW r \in Reconcilers, NEW row \in pass[r],
           Poll(r, row) \/ PollMisses(r, row) \/ PollFails(r, row)
    PROVE  SoloStep
  <1>1. /\ Types /\ Inv /\ OneRowPerJob /\ pass \in [Reconcilers -> SUBSET Snapshot]
        /\ answer \in [Reconcilers -> {NoAnswer} \cup Answer]
    BY OtherTypes DEF SoloInv, Inv
  <1>2. PICK status \in {"running", "succeeded", "failed", "unknown", StatusOf(row.prompt)} :
           /\ UNCHANGED queueVars
           /\ answer' = [answer EXCEPT ![r] = [row |-> row, status |-> status]]
           /\ pass' = [pass EXCEPT ![r] = pass[r] \ {row}]
    BY DEF Poll, PollMisses, PollFails
  <1>3. /\ answer'[r].row = row /\ pass'[r] = pass[r] \ {row}
        /\ \A q \in Reconcilers \ {r} : answer'[q] = answer[q] /\ pass'[q] = pass[q]
    BY <1>1, <1>2
  <1>4. OneRowPerJob'
    <2>1. ASSUME NEW q \in Reconcilers
          PROVE  /\ \A one, other \in pass'[q] : one.job = other.job => one = other
                 /\ answer'[q] # NoAnswer => \A one \in pass'[q] : one.job # answer'[q].row.job
      <3>1. CASE q = r
        BY <1>1, <1>3, <3>1 DEF OneRowPerJob
      <3>2. CASE q # r
        BY <1>1, <1>3, <3>2 DEF OneRowPerJob
      <3>3. QED
        BY <3>1, <3>2
    <2>2. QED
      BY <2>1 DEF OneRowPerJob
  <1>5. \A x \in Snapshot : Known(x)' => Known(x)
    <2> SUFFICES ASSUME NEW x \in Snapshot, NEW q \in Reconcilers,
                        x \in pass'[q] \/ (answer'[q] # NoAnswer /\ answer'[q].row = x)
                 PROVE  Known(x)
      BY DEF Known
    <2>1. CASE q = r
      BY <1>3, <2>1 DEF Known
    <2>2. CASE q # r
      BY <1>3, <2>2 DEF Known
    <2>3. QED
      BY <2>1, <2>2
  <1>6. \A j \in Jobs : SoloRow(j)
    BY <1>1, <1>2, RowsKeptStep DEF SoloRow
  <1>7. QED
    BY <1>4, <1>5, <1>6 DEF SoloStep, SoloKnown

LEMMA SkipRowSolo ==
    ASSUME SoloInv, NEW r \in Reconcilers, NEW row \in pass[r], SkipRow(r, row)
    PROVE  SoloStep
  <1>1. /\ Types /\ Inv /\ OneRowPerJob /\ pass \in [Reconcilers -> SUBSET Snapshot]
    BY OtherTypes DEF SoloInv, Inv
  <1>2. /\ UNCHANGED <<queueVars, answer>>
        /\ pass' = [pass EXCEPT ![r] = pass[r] \ {row}]
    BY DEF SkipRow
  <1>3. \A q \in Reconcilers : pass'[q] \subseteq pass[q]
    BY <1>1, <1>2
  <1>4. OneRowPerJob'
    BY <1>1, <1>2, <1>3 DEF OneRowPerJob
  <1>5. \A x \in Snapshot : Known(x)' => Known(x)
    BY <1>2, <1>3 DEF Known
  <1>6. \A j \in Jobs : SoloRow(j)
    BY <1>1, <1>2, RowsKeptStep DEF SoloRow
  <1>7. QED
    BY <1>4, <1>5, <1>6 DEF SoloStep, SoloKnown

(* Acting on a row: nobody dispatches the job, and no other row of it is left. *)
LEMMA ResolveSolo ==
    ASSUME SoloInv, Alone, NEW r \in Reconcilers, answer[r] # NoAnswer, Resolve(r)
    PROVE  SoloStep
  <1>0. PICK row \in Snapshot, j \in Jobs, p \in PromptIds \cup {NoPrompt} :
           answer[r].row = row /\ j = row.job /\ p = row.prompt
    <2>1. answer[r].row \in Snapshot
      BY OtherTypes DEF SoloInv, Inv, Answer
    <2>2. answer[r].row.job \in Jobs /\ answer[r].row.prompt \in PromptIds \cup {NoPrompt}
      BY <2>1 DEF Snapshot
    <2>3. QED
      BY <2>1, <2>2
  <1>1. /\ Types /\ Inv /\ OneRowPerJob /\ RowsSettled /\ AnswersHold
        /\ answer \in [Reconcilers -> {NoAnswer} \cup Answer]
    BY OtherTypes DEF SoloInv, Inv
  <1>2. answer' = [answer EXCEPT ![r] = NoAnswer] /\ UNCHANGED <<prompt, tick, task, pass>>
    BY DEF Resolve
  <1>3. /\ j \in Jobs /\ p \in PromptIds /\ OnlyRow(j)
        /\ \/ Kept(j) \/ Renewed(j) \/ Retried(j) \/ Failed(j) \/ Succeeded(j, p)
    <2>1. /\ answer[r].row.job \in Jobs /\ answer[r].row.prompt \in PromptIds
          /\ OnlyRow(answer[r].row.job)
          /\ \/ Kept(answer[r].row.job) \/ Renewed(answer[r].row.job) \/ Retried(answer[r].row.job)
             \/ Failed(answer[r].row.job) \/ Succeeded(answer[r].row.job, answer[r].row.prompt)
      BY <1>1, ResolveRows
    <2>2. QED
      BY <1>0, <2>1
  <1>4. Settled(j)
    BY <1>0, <1>1, AnswerKnown DEF AnswersHold, RowsSettled, Decisive
  <1>5. Unheld(j)'
    BY <1>2, <1>4 DEF Settled, Unheld, Holds
  <1>6. answer'[r] = NoAnswer
    BY <1>1, <1>2
  <1>7. NoDecisiveRow(j)'
    <2> SUFFICES ASSUME NEW x \in Snapshot, Known(x)', x.job = j
                 PROVE  FALSE
      BY DEF NoDecisiveRow
    <2>1. PICK q \in Reconcilers : x \in pass'[q] \/ (answer'[q] # NoAnswer /\ answer'[q].row = x)
      BY DEF Known
    <2>2. q = r
      BY DEF Alone
    <2>3. x \in pass[r]
      BY <1>2, <1>6, <2>1, <2>2
    <2>4. QED
      BY <1>0, <1>1, <2>3 DEF OneRowPerJob
  <1>8. SoloRow(j)
    BY <1>3, <1>5, <1>7 DEF SoloRow
  <1>9. SoloKnown
    BY <1>1, <1>2, SameRowsKnown
  <1>10. QED
    BY <1>3, <1>8, <1>9, OneSoloRow DEF SoloStep

LEMMA ResolveUnpromptedSolo ==
    ASSUME SoloInv, Alone, NEW r \in Reconcilers, NEW row \in pass[r], ResolveUnprompted(r, row)
    PROVE  SoloStep
  <1> DEFINE j == row.job
  <1>1. /\ Types /\ Inv /\ OneRowPerJob /\ RowsSettled
        /\ pass \in [Reconcilers -> SUBSET Snapshot]
    BY OtherTypes DEF SoloInv, Inv
  <1>2. /\ pass' = [pass EXCEPT ![r] = pass[r] \ {row}] /\ answer[r] = NoAnswer
        /\ UNCHANGED <<prompt, tick, task, answer>>
    BY DEF ResolveUnprompted
  <1>3. /\ j \in Jobs /\ OnlyRow(j)
        /\ Kept(j) \/ (row.expired /\ Retried(j)) \/ (row.expired /\ Failed(j))
    BY <1>1, UnpromptedRows
  <1>4. /\ pass'[r] = pass[r] \ {row}
        /\ \A q \in Reconcilers : pass'[q] \subseteq pass[q]
    BY <1>1, <1>2
  <1>5. SoloKnown
    BY <1>2, <1>4, SameRowsKnown
  <1>6. row.expired => Unheld(j)'
    <2>1. row.expired => Settled(j)
      BY <1>1, RowTypesOfPass DEF RowsSettled, Decisive
    <2>2. QED
      BY <1>2, <2>1 DEF Settled, Unheld, Holds
  <1>7. NoDecisiveRow(j)'
    <2> SUFFICES ASSUME NEW x \in Snapshot, Known(x)', x.job = j
                 PROVE  FALSE
      BY DEF NoDecisiveRow
    <2>1. PICK q \in Reconcilers : x \in pass'[q] \/ (answer'[q] # NoAnswer /\ answer'[q].row = x)
      BY DEF Known
    <2>2. q = r
      BY DEF Alone
    <2>3. x \in pass[r] /\ x # row
      BY <1>2, <1>4, <2>1, <2>2
    <2>4. QED
      BY <1>1, <2>3 DEF OneRowPerJob
  <1>8. SoloRow(j)
    BY <1>3, <1>6, <1>7 DEF SoloRow
  <1>9. QED
    BY <1>3, <1>5, <1>8, OneSoloRow DEF SoloStep

LEMMA EverySoloStep ==
    ASSUME SoloInv, Alone, [Next]_vars
    PROVE  SoloStep
  <1>1. ASSUME NEW j \in Jobs, Enqueue(j) \/ Cancel(j) \/ LeaseExpires(j) \/ BackoffElapses(j)
        PROVE  SoloStep
    BY <1>1, OutsideSolo
  <1>2. ASSUME NEW s \in Schedulers,
               Reserve(s) \/ TickFails(s) \/ \E l \in Lanes : ClaimLane(s, l)
        PROVE  SoloStep
    BY <1>2, SchedulerSolo
  <1>3. ASSUME NEW t \in task,
               \/ StartRun(t) \/ Submit(t) \/ Record(t)
               \/ DispatchError(t) \/ Requeue(t) \/ TaskDies(t)
        PROVE  SoloStep
    BY <1>3, TaskSolo
  <1>4. ASSUME NEW l \in Lanes, Heartbeat(l) \/ GoesDown(l) \/ ComesBack(l)
        PROVE  SoloStep
    <2>1. UNCHANGED <<queueVars, pass, answer>>
      BY <1>4 DEF Heartbeat, GoesDown, ComesBack
    <2>2. QED
      BY <2>1, EnvironmentSolo
  <1>5. ASSUME NEW p \in PromptIds, Finishes(p) \/ Forgets(p)
        PROVE  SoloStep
    <2>1. UNCHANGED <<queueVars, pass, answer>>
      BY <1>5 DEF Finishes, Forgets
    <2>2. QED
      BY <2>1, EnvironmentSolo
  <1>6. ASSUME NEW r \in Reconcilers,
               \/ ListActive(r) \/ Skip(r)
               \/ answer[r] # NoAnswer /\ Resolve(r)
               \/ \E row \in pass[r] : ReconcileJob(r, row)
        PROVE  SoloStep
    <2>1. CASE Skip(r)
      <3>1. /\ answer \in [Reconcilers -> {NoAnswer} \cup Answer] /\ Types
            /\ answer' = [answer EXCEPT ![r] = NoAnswer] /\ UNCHANGED <<queueVars, pass>>
        BY <2>1, OtherTypes DEF SoloInv, Inv, Skip
      <3>2. SoloKnown
        BY <3>1, SameRowsKnown
      <3>3. QED
        BY <3>1, <3>2, RowsKeptStep DEF SoloRow, SoloStep
    <2>2. QED
      BY <1>6, <2>1, ListActiveSolo, ResolveSolo, PollSolo, ResolveUnpromptedSolo, SkipRowSolo
         DEF ReconcileJob
  <1>7. CASE UNCHANGED vars
    <2>1. UNCHANGED <<queueVars, pass, answer>>
      BY <1>7 DEF vars, queueVars
    <2>2. QED
      BY <2>1, EnvironmentSolo
  <1>8. QED
    BY <1>1, <1>2, <1>3, <1>4, <1>5, <1>6, <1>7 DEF Next

LEMMA SoloInit == Init => SoloInv
  <1> SUFFICES ASSUME Init
               PROVE  SoloInv
    OBVIOUS
  <1>1. Inv
    BY InvInit
  <1>2. \A j \in Jobs, n \in 1..AttemptBound : ~Holds(j, n)
    BY IdleTick DEF Init, Holds
  <1>3. \A row \in Snapshot : ~Known(row)
    BY DEF Init, Known
  <1>4. OneRowPerJob
    BY DEF Init, OneRowPerJob
  <1>5. PromptOfAttempt
    BY DEF Init, Q!Init, Q!NoAttempt, PromptOfAttempt
  <1>6. QED
    BY <1>1, <1>2, <1>3, <1>4, <1>5 DEF SoloInv, Owned, RowsSettled

LEMMA SoloAlways == Alone => (Spec => []SoloInv)
  <1> SUFFICES ASSUME Alone
               PROVE  Spec => []SoloInv
    OBVIOUS
  <1>1. SoloInv /\ [Next]_vars => SoloInv'
    BY EveryStep, EverySoloStep, StepKeepsSoloInv DEF SoloInv
  <1>2. QED
    BY <1>1, SoloInit, PTL DEF Spec

(* What is in flight holds an attempt. *)
LEMMA FlightHolds ==
    ASSUME Inv, NEW t \in InFlight
    PROVE  /\ t.job \in Jobs /\ t.no \in 1..AttemptBound /\ Holds(t.job, t.no)
           /\ t \in task \/ (t = [job |-> t.job, no |-> t.no] /\ \E s \in Schedulers : t \in tick[s].claimed)
  <1>1. /\ task \subseteq Task
        /\ \A s \in Schedulers : tick[s].claimed \subseteq Handle
    BY DEF Inv, Types, TypeOK
  <1>2. CASE t \in task
    BY <1>1, <1>2 DEF Task, Holds
  <1>3. ASSUME NEW s \in Schedulers, t \in tick[s].claimed
        PROVE  /\ t.job \in Jobs /\ t.no \in 1..AttemptBound /\ t = [job |-> t.job, no |-> t.no]
    BY <1>1, <1>3 DEF Handle
  <1>4. QED
    BY <1>2, <1>3 DEF InFlight, Holds

(* scheduler.py:151-173: a dispatch works on the attempt it claimed, alone,
   until it ends. *)
THEOREM DispatchesOwnAttempts == Alone => (Spec => []DispatchOwnsAttempt)
  <1> SUFFICES ASSUME Alone
               PROVE  Spec => []DispatchOwnsAttempt
    OBVIOUS
  <1>1. SoloInv => DispatchOwnsAttempt
    <2> SUFFICES ASSUME SoloInv, NEW t \in InFlight
                 PROVE  /\ \A u \in InFlight : u.job = t.job => u = t
                        /\ attempt[t.job].no = t.no
                        /\ attempt[t.job].prompt = NoPrompt
                        /\ job[t.job].current_attempt + 1 = t.no
                        /\ Q!Active(t.job) \/ job[t.job].state = "cancelled"
      BY DEF DispatchOwnsAttempt
    <2>1. Inv /\ Owned /\ OneHolder
      BY DEF SoloInv, Inv
    <2>2. \A u \in InFlight : OwnsAttempt(u.job, u.no)
      BY <2>1, FlightHolds DEF Owned
    <2>3. ASSUME NEW u \in InFlight, u.job = t.job
          PROVE  u = t
      <3>1. u.no = t.no
        BY <2>2, <2>3 DEF OwnsAttempt
      <3>2. /\ t \in task \/ (t = [job |-> t.job, no |-> t.no] /\ \E s \in Schedulers : t \in tick[s].claimed)
            /\ u \in task \/ (u = [job |-> u.job, no |-> u.no] /\ \E s \in Schedulers : u \in tick[s].claimed)
        BY <2>1, FlightHolds
      <3>3. QED
        BY <2>1, <2>3, <3>1, <3>2 DEF OneHolder
    <2>4. QED
      BY <2>2, <2>3 DEF OwnsAttempt
  <1>2. QED
    BY <1>1, SoloAlways, PTL

(* postgres.py:33-39: an attempt carries the prompt of its own dispatch. *)
THEOREM PromptsMatchAttempts == Alone => (Spec => []PromptOfAttempt)
  <1> SUFFICES ASSUME Alone
               PROVE  Spec => []PromptOfAttempt
    OBVIOUS
  <1>1. SoloInv => PromptOfAttempt
    BY DEF SoloInv
  <1>2. QED
    BY <1>1, SoloAlways, PTL

-----------------------------------------------------------------------------
(* From here on: one scheduler as well.  The rooms of its tick stay free
   until it claims for them, since only it makes a job active. *)
OneScheduler == \A s, q \in Schedulers : s = q

LEMMA ActiveFinite ==
    ASSUME NEW l \in Lanes
    PROVE  /\ IsFiniteSet(Q!ActiveIn(l)) /\ Cardinality(Q!ActiveIn(l)) \in Nat
           /\ Q!ActiveIn(l) \subseteq Jobs
           /\ IsFiniteSet(Q!ActiveIn(l)') /\ Cardinality(Q!ActiveIn(l)') \in Nat
           /\ Q!ActiveIn(l)' \subseteq Jobs
  <1>1. Q!ActiveIn(l) \in SUBSET Jobs /\ Q!ActiveIn(l)' \in SUBSET Jobs
    BY DEF Q!ActiveIn
  <1>2. IsFiniteSet(Q!ActiveIn(l)) /\ IsFiniteSet(Q!ActiveIn(l)')
    BY <1>1, FS_Subset, PipelineAssumption
  <1>3. QED
    BY <1>1, <1>2, FS_CardinalityType

(* The youngest job of a batch: the set of the jobs younger than it is the
   smallest there is, so it is empty. *)
LEMMA Youngest ==
    ASSUME NEW C \in SUBSET Jobs, C # {}
    PROVE  \E m \in C : \A j \in C : j <= m
  <1> DEFINE Younger(j) == {i \in C : i > j}
             Sets == {Younger(j) : j \in C}
  <1>1. IsFiniteSet(C) /\ C \subseteq Nat
    BY FS_Subset, PipelineAssumption
  <1>2. IsWellFoundedOn(StrictSubsetOrdering(C), FiniteSubsetsOf(C))
    BY FS_StrictSubsetOrderingWellFounded
  <1>3. FiniteSubsetsOf(C) = SUBSET C
    BY <1>1, FS_FiniteSubsetsOfFinite
  <1>4. Sets \subseteq SUBSET C /\ Sets # {}
    OBVIOUS
  <1>5. PICK Y \in Sets : \A Z \in Sets : <<Z, Y>> \notin StrictSubsetOrdering(C)
    <2> HIDE DEF Sets
    <2>1. QED
      BY <1>2, <1>3, <1>4, WFMin
  <1>6. PICK m \in C : Y = Younger(m)
    BY <1>5
  <1>7. ASSUME NEW j \in C, j > m
        PROVE  FALSE
    <2>1. /\ \A i \in C : i > j => i > m
          /\ ~(j > j)
      BY <1>1, <1>7
    <2>2. Younger(j) \subseteq Younger(m) /\ j \in Younger(m) /\ j \notin Younger(j)
      BY <1>7, <2>1
    <2>3. <<Younger(j), Younger(m)>> \in StrictSubsetOrdering(C)
      BY <2>2 DEF StrictSubsetOrdering
    <2>4. QED
      BY <1>5, <1>6, <2>3
  <1>8. QED
    BY <1>1, <1>7

LEMMA SameCardinality == \A S : Q!Cardinality(S) = Cardinality(S)
  BY DEF Q!Cardinality, Cardinality

LEMMA BatchFits ==
    ASSUME NEW l \in Lanes, NEW room \in Nat, NEW C \in SUBSET Q!Eligible(l),
           Q!IsBatch(C, l, room)
    PROVE  IsFiniteSet(C) /\ Cardinality(C) \in Nat /\ Cardinality(C) <= room
  <1>1. C \in SUBSET Jobs
    BY DEF Q!Eligible
  <1>2. IsFiniteSet(C) /\ Cardinality(C) \in Nat
    BY <1>1, FS_Subset, FS_CardinalityType, PipelineAssumption
  <1>3. CASE C = {}
    BY <1>2, <1>3, FS_EmptySet
  <1>4. CASE C # {}
    <2>1. PICK m \in C : \A j \in C : j <= m
      BY <1>1, <1>4, Youngest
    <2>2. m \in Q!Eligible(l) /\ m \in C
      BY <2>1
    <2>3. Cardinality(Q!TakenBefore(C, m)) < room
      BY <2>2, SameCardinality DEF Q!IsBatch
    <2>4. \A j \in C : j < m <=> j # m
      <3>1. C \subseteq Nat
        BY <1>1, PipelineAssumption
      <3>2. QED
        BY <2>1, <3>1
    <2>5. Q!TakenBefore(C, m) = C \ {m}
      BY <2>4 DEF Q!TakenBefore
    <2>6. Cardinality(C \ {m}) = Cardinality(C) - 1
      BY <1>2, <2>1, FS_RemoveElement
    <2>7. QED
      BY <1>2, <2>3, <2>5, <2>6
  <1>5. QED
    BY <1>2, <1>3, <1>4

(* Without a claim no job becomes active. *)
LEMMA ActiveShrinks ==
    ASSUME SoloStep, UNCHANGED tick, NEW l \in Lanes
    PROVE  Cardinality(Q!ActiveIn(l)') <= Cardinality(Q!ActiveIn(l))
  <1>1. ASSUME NEW j \in Jobs, Q!Active(j)'
        PROVE  Q!Active(j)
    <2>1. SoloRow(j)
      BY DEF SoloStep
    <2>2. CASE Kept(j) \/ Renewed(j) \/ Expired(j) \/ \E p \in PromptIds : Prompted(j, p)
      BY <1>1, <2>2, StateSets DEF Kept, Renewed, Expired, Prompted
    <2>3. CASE \/ Created(j) \/ Due(j) \/ Cancelled(j) \/ Failed(j) \/ Retried(j)
               \/ \E p \in PromptIds : Succeeded(j, p)
      BY <1>1, <2>3, StateSets DEF Created, Due, Cancelled, Failed, Retried, Succeeded
    <2>4. QED
      BY <2>1, <2>2, <2>3 DEF SoloRow
  <1>2. Q!ActiveIn(l)' \in SUBSET Q!ActiveIn(l)
    BY <1>1 DEF Q!ActiveIn
  <1>3. QED
    BY <1>2, ActiveFinite, FS_Subset

LEMMA RoomTypes ==
    ASSUME Types, NEW s \in Schedulers, NEW l \in DOMAIN tick[s].room
    PROVE  l \in Lanes /\ tick[s].room[l] \in Nat
  <1>1. tick[s].room \in Rooms /\ DOMAIN tick[s].room \subseteq Lanes
    BY DEF Types, TypeOK
  <1>2. tick[s].room # Idle.room
    BY IdleTick
  <1>3. QED
    BY <1>1, <1>2 DEF Rooms

LEMMA SameSlots ==
    ASSUME SlotInv, SoloStep, UNCHANGED tick
    PROVE  SlotsHold' /\ RoomIsFree'
  <1>1. ASSUME NEW l \in Lanes
        PROVE  /\ Cardinality(Q!ActiveIn(l)) \in Nat /\ Cardinality(Q!ActiveIn(l)') \in Nat
               /\ Cardinality(Q!ActiveIn(l)') <= Cardinality(Q!ActiveIn(l))
               /\ Slots[l] \in Nat
    BY ActiveFinite, ActiveShrinks, PipelineAssumption
  <1>2. SlotsHold'
    BY <1>1 DEF SlotInv, SlotsHold
  <1>3. RoomIsFree'
    <2> SUFFICES ASSUME NEW s \in Schedulers, tick[s] # Idle, NEW l \in DOMAIN tick[s].room
                 PROVE  Cardinality(Q!ActiveIn(l)') + tick[s].room[l] <= Slots[l]
      BY DEF RoomIsFree
    <2>1. l \in Lanes /\ tick[s].room[l] \in Nat
      BY RoomTypes DEF SlotInv, SoloInv, Inv
    <2>2. Cardinality(Q!ActiveIn(l)) + tick[s].room[l] <= Slots[l]
      BY DEF SlotInv, RoomIsFree
    <2>3. QED
      BY <1>1, <2>1, <2>2
  <1>4. QED
    BY <1>2, <1>3

(* A tick reads the rooms: what it reads is free. *)
LEMMA ReserveSlots ==
    ASSUME SlotInv, OneScheduler, NEW s \in Schedulers, Reserve(s)
    PROVE  SlotsHold' /\ RoomIsFree'
  <1>1. Types
    BY DEF SlotInv, SoloInv, Inv
  <1>2. UNCHANGED queueVars /\ tick' = [tick EXCEPT ![s].room = [l \in Lanes |-> Budget(l)]]
    BY DEF Reserve
  <1>3. \A l \in Lanes : Q!ActiveIn(l)' = Q!ActiveIn(l)
    BY <1>2 DEF queueVars, Q!ActiveIn, Q!Active
  <1>4. SlotsHold'
    BY <1>3 DEF SlotInv, SlotsHold
  <1>5. RoomIsFree'
    <2> SUFFICES ASSUME NEW q \in Schedulers, NEW l \in DOMAIN tick'[q].room
                 PROVE  Cardinality(Q!ActiveIn(l)') + tick'[q].room[l] <= Slots[l]
      BY DEF RoomIsFree
    <2>1. q = s
      BY DEF OneScheduler
    <2>2. tick'[q].room = [k \in Lanes |-> Budget(k)]
      BY <1>1, <1>2, <2>1 DEF Types
    <2>3. l \in Lanes /\ tick'[q].room[l] = Budget(l)
      BY <2>2
    <2>4. /\ Cardinality(Q!ActiveIn(l)) \in Nat /\ Slots[l] \in Nat
          /\ Cardinality(Q!ActiveIn(l)) <= Slots[l]
      BY <2>3, ActiveFinite, PipelineAssumption DEF SlotInv, SlotsHold
    <2>5. Cardinality(Q!ActiveIn(l)) + Budget(l) <= Slots[l]
      BY <2>4 DEF Budget, FreeSlots
    <2>6. QED
      BY <1>3, <2>3, <2>5
  <1>6. QED
    BY <1>4, <1>5

LEMMA TickFailsSlots ==
    ASSUME SlotInv, OneScheduler, NEW s \in Schedulers, TickFails(s)
    PROVE  SlotsHold' /\ RoomIsFree'
  <1>1. UNCHANGED queueVars /\ tick' = [tick EXCEPT ![s] = Idle] /\ Types
    BY DEF TickFails, SlotInv, SoloInv, Inv
  <1>2. \A l \in Lanes : Q!ActiveIn(l)' = Q!ActiveIn(l)
    BY <1>1 DEF queueVars, Q!ActiveIn, Q!Active
  <1>3. \A q \in Schedulers : tick'[q] = Idle
    BY <1>1 DEF OneScheduler, Types
  <1>4. QED
    BY <1>2, <1>3 DEF SlotInv, SlotsHold, RoomIsFree

(* A claim fills the room of its lane, at most, and no other lane. *)
LEMMA ClaimSlots ==
    ASSUME SlotInv, OneScheduler, NEW s \in Schedulers, NEW l \in Lanes, ClaimLane(s, l)
    PROVE  SlotsHold' /\ RoomIsFree'
  <1>1. Inv /\ Types
    BY DEF SlotInv, SoloInv, Inv
  <1>2. PICK C \in SUBSET Q!Eligible(l) :
              /\ C \subseteq Jobs /\ l \in DOMAIN tick[s].room
              /\ Q!IsBatch(C, l, tick[s].room[l])
              /\ \A j \in C : Claimed(j)
              /\ \A j \in Jobs \ C : Kept(j)
              /\ \/ tick' = [tick EXCEPT ![s] = Idle]
                 \/ tick' = [tick EXCEPT ![s] =
                                  [room    |-> [k \in DOMAIN tick[s].room \ {l} |-> tick[s].room[k]],
                                   claimed |-> ClaimedBy(s, C)]]
    BY <1>1, ClaimLaneRows
  <1>3. PICK room \in Nat : room = tick[s].room[l]
    BY <1>1, <1>2, RoomTypes
  <1>4. IsFiniteSet(C) /\ Cardinality(C) \in Nat /\ Cardinality(C) <= room
    BY <1>2, <1>3, BatchFits
  <1>5. /\ Q!ActiveIn(l)' = Q!ActiveIn(l) \cup C
        /\ \A k \in Lanes \ {l} : Q!ActiveIn(k)' = Q!ActiveIn(k)
    <2>1. \A j \in C : j \in Jobs /\ LaneOf[j] = l
      BY DEF Q!Eligible
    <2>2. \A j \in C : Q!Active(j)'
      BY <1>2, <2>1, StateSets DEF Claimed
    <2>3. \A j \in Jobs \ C : Q!Active(j)' <=> Q!Active(j)
      BY <1>2, StateSets DEF Kept
    <2>4. \A j \in C : ~Q!Active(j)
      BY <1>2, <2>1, StateSets DEF Claimed
    <2>5. QED
      BY <2>1, <2>2, <2>3, <2>4 DEF Q!ActiveIn
  <1>6. tick[s] # Idle
    BY <1>2, IdleTick
  <1>7. /\ Cardinality(Q!ActiveIn(l)) \in Nat /\ Slots[l] \in Nat
        /\ Cardinality(Q!ActiveIn(l)) + room <= Slots[l]
    BY <1>2, <1>3, <1>6, ActiveFinite, PipelineAssumption DEF SlotInv, RoomIsFree
  <1>8. Cardinality(Q!ActiveIn(l)') <= Slots[l]
    <2>1. /\ Cardinality(Q!ActiveIn(l) \cup C) =
                 Cardinality(Q!ActiveIn(l)) + Cardinality(C) - Cardinality(Q!ActiveIn(l) \cap C)
          /\ Cardinality(Q!ActiveIn(l) \cap C) \in Nat
      <3>1. IsFiniteSet(Q!ActiveIn(l))
        BY ActiveFinite
      <3>2. QED
        BY <1>4, <3>1, FS_Union, FS_Intersection, FS_CardinalityType
    <2>2. QED
      BY <1>4, <1>5, <1>7, <2>1
  <1>9. SlotsHold'
    BY <1>5, <1>8 DEF SlotInv, SlotsHold
  <1>10. RoomIsFree'
    <2> SUFFICES ASSUME NEW q \in Schedulers, NEW k \in DOMAIN tick'[q].room
                 PROVE  Cardinality(Q!ActiveIn(k)') + tick'[q].room[k] <= Slots[k]
      BY DEF RoomIsFree
    <2>1. q = s
      BY DEF OneScheduler
    <2>2. \/ tick'[s].room = Idle.room
          \/ tick'[s].room = [i \in DOMAIN tick[s].room \ {l} |-> tick[s].room[i]]
      BY <1>1, <1>2 DEF Types
    <2>3. k \in DOMAIN tick[s].room \ {l} /\ tick'[q].room[k] = tick[s].room[k]
      BY <2>1, <2>2, IdleTick
    <2>4. k \in Lanes /\ Q!ActiveIn(k)' = Q!ActiveIn(k)
      BY <1>1, <1>5, <2>3, RoomTypes
    <2>5. QED
      BY <1>6, <2>3, <2>4 DEF SlotInv, RoomIsFree
  <1>11. QED
    BY <1>9, <1>10

LEMMA SlotStep ==
    ASSUME SlotInv, Alone, OneScheduler, [Next]_vars
    PROVE  SlotInv'
  <1>1. SoloInv /\ Inv
    BY DEF SlotInv, SoloInv
  <1>2. SoloStep /\ SoloInv'
    BY <1>1, EveryStep, EverySoloStep, StepKeepsSoloInv
  <1>3. CASE UNCHANGED tick
    BY <1>2, <1>3, SameSlots DEF SlotInv
  <1>4. ASSUME NEW s \in Schedulers,
               Reserve(s) \/ TickFails(s) \/ \E l \in Lanes : ClaimLane(s, l)
        PROVE  SlotInv'
    BY <1>2, <1>4, ReserveSlots, TickFailsSlots, ClaimSlots DEF SlotInv
  <1>5. UNCHANGED tick \/ \E s \in Schedulers :
                             Reserve(s) \/ TickFails(s) \/ \E l \in Lanes : ClaimLane(s, l)
    BY DEF Next, vars, Enqueue, Cancel, LeaseExpires, BackoffElapses, RowsOnly, StartRun, Submit,
           Record, DispatchError, Requeue, TaskDies, Heartbeat, GoesDown, ComesBack, Finishes,
           Forgets, ListActive, Skip, SkipRow, Resolve, ReconcileJob, Poll, PollMisses, PollFails,
           ResolveUnprompted
  <1>6. QED
    BY <1>3, <1>4, <1>5

(* scheduler.py:90-149: no lane ever has more active jobs than it has slots,
   though the rooms are read once a tick and the claims come later. *)
THEOREM SlotsAreNeverExceeded == Alone /\ OneScheduler => (Spec => []SlotsHold)
  <1> SUFFICES ASSUME Alone, OneScheduler
               PROVE  Spec => []SlotsHold
    OBVIOUS
  <1>1. Init => SlotInv
    <2> SUFFICES ASSUME Init
                 PROVE  SlotsHold /\ RoomIsFree
      BY SoloInit DEF SlotInv
    <2>1. \A l \in Lanes : Q!ActiveIn(l) = {}
      BY StateSets DEF Init, Q!Init, Q!NoJob, Q!ActiveIn
    <2>2. SlotsHold
      <3>1. \A l \in Lanes : Slots[l] \in Nat
        BY PipelineAssumption
      <3>2. QED
        BY <2>1, <3>1, FS_EmptySet DEF SlotsHold
    <2>3. RoomIsFree
      BY DEF Init, RoomIsFree
    <2>4. QED
      BY <2>2, <2>3
  <1>2. SlotInv /\ [Next]_vars => SlotInv'
    BY SlotStep
  <1>3. SlotInv => SlotsHold
    BY DEF SlotInv
  <1>4. QED
    BY <1>1, <1>2, <1>3, PTL DEF Spec

-----------------------------------------------------------------------------
(* The pipeline only does what the queue's module lets any caller do. *)
LEMMA QueueOperations ==
    ASSUME NEW j \in Jobs,
           \/ Q!Enqueue(j) \/ Q!MarkRunning(j) \/ Q!MarkFailed(j)
           \/ job[j].current_attempt < AttemptBound /\ Q!MarkRetryWait(j)
           \/ Q!RenewLease(j) \/ Q!Cancel(j) \/ Q!LeaseExpires(j) \/ Q!BackoffElapses(j)
           \/ \E p \in PromptIds : Q!SetPromptId(j, p) \/ Q!MarkSucceeded(j, p)
    PROVE  Q!Next
  <1>1. CASE \E p \in PromptIds : Q!SetPromptId(j, p) \/ Q!MarkSucceeded(j, p)
    BY <1>1 DEF Q!Next
  <1>2. CASE \/ Q!Enqueue(j) \/ Q!MarkRunning(j) \/ Q!MarkFailed(j)
             \/ job[j].current_attempt < AttemptBound /\ Q!MarkRetryWait(j)
             \/ Q!RenewLease(j) \/ Q!Cancel(j) \/ Q!LeaseExpires(j) \/ Q!BackoffElapses(j)
    BY <1>2 DEF Q!Next
  <1>3. QED
    BY <1>1, <1>2

LEMMA RetryIsCounted ==
    ASSUME Types, NEW j \in Jobs, Retry(j)
    PROVE  job[j].current_attempt < AttemptBound /\ Q!MarkRetryWait(j)
  BY RowTypes DEF Types, Retry

LEMMA VerdictOfQueue ==
    ASSUME Types, NEW row \in Snapshot, FailOrRetry(row)
    PROVE  Q!Next
  <1>1. row.job \in Jobs
    BY DEF Snapshot
  <1>2. CASE Retry(row.job)
    BY <1>1, <1>2, RetryIsCounted, QueueOperations
  <1>3. CASE Q!MarkFailed(row.job)
    BY <1>1, <1>3, QueueOperations
  <1>4. QED
    BY <1>2, <1>3 DEF FailOrRetry

(* A claim of nothing changes nothing, and more room than there are jobs is
   no different from room for all of them. *)
LEMMA ClaimOfQueue ==
    ASSUME Inv, NEW s \in Schedulers, NEW l \in Lanes, ClaimLane(s, l)
    PROVE  [Q!Next]_(Q!vars)
  <1>1. PICK C \in SUBSET Q!Eligible(l) :
           l \in DOMAIN tick[s].room /\ Q!IsBatch(C, l, tick[s].room[l]) /\ Q!Claim(C)
    BY ClaimEffect
  <1>2. PICK room \in Nat : room = tick[s].room[l]
    BY <1>1, RoomTypes DEF Inv
  <1>3. Cardinality(Jobs) \in Nat
    BY FS_CardinalityType, PipelineAssumption
  <1>4. \A j \in Q!Eligible(l) :
           /\ Cardinality(Q!TakenBefore(C, j)) \in Nat
           /\ Cardinality(Q!TakenBefore(C, j)) < Cardinality(Jobs)
    <2> SUFFICES ASSUME NEW j \in Q!Eligible(l)
                 PROVE  /\ Cardinality(Q!TakenBefore(C, j)) \in Nat
                        /\ Cardinality(Q!TakenBefore(C, j)) < Cardinality(Jobs)
      OBVIOUS
    <2>1. j \in Jobs /\ C \subseteq Jobs
      BY DEF Q!Eligible
    <2>2. ~(j < j)
      BY <2>1, PipelineAssumption
    <2>3. Q!TakenBefore(C, j) \in SUBSET (Jobs \ {j})
      BY <2>1, <2>2 DEF Q!TakenBefore
    <2>4. IsFiniteSet(Jobs \ {j}) /\ Cardinality(Jobs \ {j}) = Cardinality(Jobs) - 1
      BY <2>1, FS_RemoveElement, PipelineAssumption
    <2>5. /\ IsFiniteSet(Q!TakenBefore(C, j))
          /\ Cardinality(Q!TakenBefore(C, j)) <= Cardinality(Jobs \ {j})
      BY <2>3, <2>4, FS_Subset
    <2>6. QED
      BY <1>3, <2>4, <2>5, FS_CardinalityType
  <1>5. CASE C = {}
    <2>1. job' = job /\ attempt' = attempt
      BY <1>1, <1>5 DEF Q!Claim, Inv, Types, TypeOK, Q!TypeOK
    <2>2. QED
      BY <2>1 DEF Q!vars
  <1>6. CASE C # {}
    <2>1. PICK m \in C : m \in Q!Eligible(l)
      BY <1>6
    <2>2. Cardinality(Q!TakenBefore(C, m)) < room
      BY <1>1, <1>2, <2>1, SameCardinality DEF Q!IsBatch
    <2>3. 0 < room /\ 0 < Cardinality(Jobs)
      BY <1>3, <1>4, <2>1, <2>2
    <2>4. PICK capacity \in 1..Cardinality(Jobs) :
             \A j \in Q!Eligible(l) : Cardinality(Q!TakenBefore(C, j)) < capacity
                                          <=> Cardinality(Q!TakenBefore(C, j)) < room
      <3>1. CASE room <= Cardinality(Jobs)
        BY <1>3, <2>3, <3>1
      <3>2. CASE Cardinality(Jobs) < room
        BY <1>3, <1>4, <2>3, <3>2
      <3>3. QED
        BY <1>3, <3>1, <3>2
    <2>5. Q!IsBatch(C, l, capacity)
      BY <1>1, <1>2, <2>4, SameCardinality DEF Q!IsBatch
    <2>6. QED
      BY <1>1, <2>4, <2>5, SameCardinality DEF Q!Next, Q!ClaimNext
  <1>7. QED
    BY <1>5, <1>6

LEMMA TaskOfQueue ==
    ASSUME Inv, NEW t \in task,
           \/ StartRun(t) \/ Submit(t) \/ Record(t)
           \/ DispatchError(t) \/ Requeue(t) \/ TaskDies(t)
    PROVE  [Q!Next]_(Q!vars)
  <1>1. Types /\ t.job \in Jobs /\ t.no \in 1..AttemptBound
    BY DEF Inv, Types, TypeOK, Task
  <1>2. CASE StartRun(t)
    BY <1>1, <1>2, QueueOperations DEF StartRun
  <1>3. CASE Record(t)
    <2>1. <<t.job, t.no>> \in PromptIds /\ Q!SetPromptId(t.job, <<t.job, t.no>>)
      BY <1>1, <1>3 DEF PromptIds, Record
    <2>2. QED
      BY <1>1, <2>1, QueueOperations
  <1>4. CASE Requeue(t)
    BY <1>1, <1>4, RetryIsCounted, QueueOperations DEF Requeue
  <1>5. CASE Submit(t) \/ DispatchError(t) \/ TaskDies(t)
    BY <1>5 DEF Submit, DispatchError, TaskDies, queueVars, Q!vars
  <1>6. QED
    BY <1>2, <1>3, <1>4, <1>5

LEMMA ResolveOfQueue ==
    ASSUME Inv, NEW r \in Reconcilers, answer[r] # NoAnswer, Resolve(r)
    PROVE  [Q!Next]_(Q!vars)
  <1>1. /\ Types /\ AnswersHold /\ answer \in [Reconcilers -> {NoAnswer} \cup Answer]
    BY OtherTypes DEF Inv
  <1>2. PICK row \in Snapshot : answer[r].row = row
    BY <1>1 DEF Answer
  <1>3. row.job \in Jobs /\ row.prompt \in PromptIds
    BY <1>1, <1>2 DEF AnswersHold, Snapshot
  <1>4. \/ Q!MarkSucceeded(row.job, row.prompt)
        \/ Q!RenewLease(row.job)
        \/ FailOrRetry(row)
        \/ UNCHANGED queueVars
    <2>1. answer[r].status \in {"running", "succeeded", "failed", "unknown"}
      BY <1>1 DEF Answer
    <2>2. QED
      BY <1>2, <2>1 DEF Resolve
  <1>5. CASE UNCHANGED queueVars
    BY <1>5 DEF queueVars, Q!vars
  <1>6. CASE Q!MarkSucceeded(row.job, row.prompt) \/ Q!RenewLease(row.job)
    BY <1>3, <1>6, QueueOperations
  <1>7. QED
    BY <1>1, <1>4, <1>5, <1>6, VerdictOfQueue

LEMMA UnpromptedOfQueue ==
    ASSUME Inv, NEW r \in Reconcilers, NEW row \in pass[r], ResolveUnprompted(r, row)
    PROVE  [Q!Next]_(Q!vars)
  <1>1. Types /\ row \in Snapshot
    BY OtherTypes DEF Inv
  <1>2. CASE FailOrRetry(row)
    BY <1>1, <1>2, VerdictOfQueue
  <1>3. CASE UNCHANGED queueVars
    BY <1>3 DEF queueVars, Q!vars
  <1>4. QED
    BY <1>2, <1>3 DEF ResolveUnprompted

LEMMA StepOfQueue ==
    ASSUME Inv, [Next]_vars
    PROVE  [Q!Next]_(Q!vars)
  <1>1. ASSUME NEW j \in Jobs, Enqueue(j) \/ Cancel(j) \/ LeaseExpires(j) \/ BackoffElapses(j)
        PROVE  Q!Next
    BY <1>1, QueueOperations DEF Enqueue, Cancel, LeaseExpires, BackoffElapses
  <1>2. ASSUME NEW s \in Schedulers, NEW l \in Lanes, ClaimLane(s, l)
        PROVE  [Q!Next]_(Q!vars)
    BY <1>2, ClaimOfQueue
  <1>3. ASSUME NEW t \in task,
               \/ StartRun(t) \/ Submit(t) \/ Record(t)
               \/ DispatchError(t) \/ Requeue(t) \/ TaskDies(t)
        PROVE  [Q!Next]_(Q!vars)
    BY <1>3, TaskOfQueue
  <1>4. ASSUME NEW r \in Reconcilers,
               \/ answer[r] # NoAnswer /\ Resolve(r)
               \/ \E row \in pass[r] : ResolveUnprompted(r, row)
        PROVE  [Q!Next]_(Q!vars)
    BY <1>4, ResolveOfQueue, UnpromptedOfQueue
  <1>5. CASE UNCHANGED queueVars
    BY <1>5 DEF queueVars, Q!vars
  <1>6. \/ UNCHANGED queueVars
        \/ \E j \in Jobs : Enqueue(j) \/ Cancel(j) \/ LeaseExpires(j) \/ BackoffElapses(j)
        \/ \E s \in Schedulers, l \in Lanes : ClaimLane(s, l)
        \/ \E t \in task : \/ StartRun(t) \/ Submit(t) \/ Record(t)
                           \/ DispatchError(t) \/ Requeue(t) \/ TaskDies(t)
        \/ \E r \in Reconcilers : \/ answer[r] # NoAnswer /\ Resolve(r)
                                  \/ \E row \in pass[r] : ResolveUnprompted(r, row)
    BY DEF Next, vars, queueVars, Reserve, TickFails, Heartbeat, GoesDown, ComesBack, Finishes,
           Forgets, ListActive, Skip, SkipRow, ReconcileJob, Poll, PollMisses, PollFails
  <1>7. QED
    BY <1>1, <1>2, <1>3, <1>4, <1>5, <1>6

(* Every step of the API, the scheduler and the reconciler is an operation of
   PostgresJobQueue as its module describes it, or leaves the rows alone. *)
THEOREM PipelineImplementsQueue == Spec => ImplementsQueue
  <1>1. Init => Q!Init
    BY DEF Init
  <1>2. Inv /\ [Next]_vars => [Q!Next]_(Q!vars)
    BY StepOfQueue
  <1>3. QED
    BY <1>1, <1>2, InvAlways, PTL DEF Spec, ImplementsQueue, Q!Spec

-----------------------------------------------------------------------------
(* What is proved of the queue carries over.  The theorems come with an
   instance of their own, whose operators are those of Q. *)
QP == INSTANCE JobQueueProofs WITH Prompts <- PromptIds, RetryBound <- AttemptBound

LEMMA QueueAssumed == QP!QueueAssumption
  BY PipelineAssumption, NoPromptAssumption DEF QP!QueueAssumption, QP!IsFiniteSet, IsFiniteSet

LEMMA SameQueueStates ==
    /\ \A j : /\ Q!Exists(j) <=> QP!Exists(j)
              /\ Q!Unfinished(j) <=> QP!Unfinished(j)
              /\ Q!Active(j) <=> QP!Active(j)
              /\ Q!Waiting(j) <=> QP!Waiting(j)
              /\ Q!Attempted(j) <=> QP!Attempted(j)
    /\ Q!NoJob = QP!NoJob
    /\ Q!NoAttempt = QP!NoAttempt
    /\ Q!vars = QP!vars
  BY DEF Q!Exists, QP!Exists, Q!Unfinished, QP!Unfinished, Q!Terminal, QP!Terminal,
         Q!TerminalStates, QP!TerminalStates, Q!Active, QP!Active, Q!ActiveStates,
         QP!ActiveStates, Q!Waiting, QP!Waiting, Q!BacklogStates, QP!BacklogStates,
         Q!Attempted, QP!Attempted, Q!NoJob, QP!NoJob, Q!NoAttempt, QP!NoAttempt, Q!vars, QP!vars

LEMMA SameClaim == \A l, k : Q!ClaimNext(l, k) <=> QP!ClaimNext(l, k)
  <1>1. \A S : Q!Cardinality(S) = QP!Cardinality(S)
    BY DEF Q!Cardinality, QP!Cardinality
  <1>2. \A l : Q!Eligible(l) = QP!Eligible(l)
    BY SameQueueStates DEF Q!Eligible, QP!Eligible
  <1>3. \A C, j : Q!TakenBefore(C, j) = QP!TakenBefore(C, j)
    BY DEF Q!TakenBefore, QP!TakenBefore
  <1>4. \A u : Q!ActiveOf(u) = QP!ActiveOf(u)
    BY SameQueueStates DEF Q!ActiveOf, QP!ActiveOf
  <1>5. \A u, S : Q!BelowUserCap(u, S) <=> QP!BelowUserCap(u, S)
    BY <1>1, <1>4 DEF Q!BelowUserCap, QP!BelowUserCap
  <1>6. \A C, l, k : Q!IsBatch(C, l, k) <=> QP!IsBatch(C, l, k)
    BY <1>1, <1>2, <1>3, <1>5 DEF Q!IsBatch, QP!IsBatch
  <1>7. \A C : Q!Claim(C) <=> QP!Claim(C)
    BY SameQueueStates DEF Q!Claim, QP!Claim, Q!LeasedAttempt, QP!LeasedAttempt
  <1>8. QED
    BY <1>2, <1>6, <1>7 DEF Q!ClaimNext, QP!ClaimNext

LEMMA SameOperations ==
    \A j : /\ Q!Enqueue(j) <=> QP!Enqueue(j)
           /\ Q!MarkRunning(j) <=> QP!MarkRunning(j)
           /\ Q!MarkFailed(j) <=> QP!MarkFailed(j)
           /\ Q!MarkRetryWait(j) <=> QP!MarkRetryWait(j)
           /\ Q!RenewLease(j) <=> QP!RenewLease(j)
           /\ Q!Cancel(j) <=> QP!Cancel(j)
           /\ Q!LeaseExpires(j) <=> QP!LeaseExpires(j)
           /\ Q!BackoffElapses(j) <=> QP!BackoffElapses(j)
           /\ \A p : /\ Q!SetPromptId(j, p) <=> QP!SetPromptId(j, p)
                     /\ Q!MarkSucceeded(j, p) <=> QP!MarkSucceeded(j, p)
  <1>1. \A j, row : /\ Q!UpdateJob(j, row) <=> QP!UpdateJob(j, row)
                    /\ Q!UpdateLatestAttempt(j, row) <=> QP!UpdateLatestAttempt(j, row)
    BY SameQueueStates DEF Q!UpdateJob, QP!UpdateJob, Q!UpdateLatestAttempt, QP!UpdateLatestAttempt
  <1>2. UNCHANGED Q!vars <=> UNCHANGED QP!vars
    BY DEF Q!vars, QP!vars
  <1>3. \A j : /\ Q!Enqueue(j) <=> QP!Enqueue(j)
               /\ Q!LeaseExpires(j) <=> QP!LeaseExpires(j)
               /\ Q!BackoffElapses(j) <=> QP!BackoffElapses(j)
    BY SameQueueStates DEF Q!Enqueue, QP!Enqueue, Q!LeaseExpires, QP!LeaseExpires,
                           Q!BackoffElapses, QP!BackoffElapses
  <1>4. \A j : /\ Q!MarkRunning(j) <=> QP!MarkRunning(j)
               /\ Q!Cancel(j) <=> QP!Cancel(j)
               /\ Q!RenewLease(j) <=> QP!RenewLease(j)
               /\ \A p : Q!SetPromptId(j, p) <=> QP!SetPromptId(j, p)
    BY <1>1, <1>2, SameQueueStates
    DEF Q!MarkRunning, QP!MarkRunning, Q!Cancel, QP!Cancel, Q!RenewLease, QP!RenewLease,
        Q!SetPromptId, QP!SetPromptId
  <1>5. \A j : /\ Q!MarkFailed(j) <=> QP!MarkFailed(j)
               /\ Q!MarkRetryWait(j) <=> QP!MarkRetryWait(j)
    BY <1>1, <1>2, SameQueueStates
    DEF Q!MarkFailed, QP!MarkFailed, Q!MarkRetryWait, QP!MarkRetryWait
  <1>6. \A j, p : Q!MarkSucceeded(j, p) <=> QP!MarkSucceeded(j, p)
    BY <1>1, <1>2, SameQueueStates DEF Q!MarkSucceeded, QP!MarkSucceeded
  <1>7. QED
    BY <1>3, <1>4, <1>5, <1>6

LEMMA SameQueue == Q!Init = QP!Init /\ (Q!Next <=> QP!Next)
  <1>1. Q!Init = QP!Init
    BY SameQueueStates DEF Q!Init, QP!Init
  <1>2. Q!Cardinality(Jobs) = QP!Cardinality(Jobs)
    BY DEF Q!Cardinality, QP!Cardinality
  <1>3. Q!Next <=> QP!Next
    BY <1>2, SameClaim, SameOperations DEF Q!Next, QP!Next
  <1>4. QED
    BY <1>1, <1>3

(* postgres.py:22-39 and config.py:80-86, of the processes that really call the
   queue: however they interleave, and whatever each of them remembers, a
   finished job stays as it ended, each claim opens a fresh attempt and respects
   the user's cap, and every job goes through the life JobLifecycle states. *)
THEOREM PipelineKeepsQueuePromises ==
    Spec => /\ QP!TerminalIsFinal
            /\ QP!ClaimOpensNewAttempt
            /\ QP!ClaimRespectsUserCap
            /\ QP!ImplementsLifecycle
  <1>1. Init => QP!Init
    BY SameQueue DEF Init
  <1>2. Inv /\ [Next]_vars => [QP!Next]_(QP!vars)
    BY StepOfQueue, SameQueue DEF Q!vars, QP!vars
  <1>3. Spec => QP!Spec
    BY <1>1, <1>2, InvAlways, PTL DEF Spec, QP!Spec
  <1>4. QP!Spec => /\ QP!TerminalIsFinal
                   /\ QP!ClaimOpensNewAttempt
                   /\ QP!ClaimRespectsUserCap
                   /\ QP!ImplementsLifecycle
    BY QueueAssumed, QP!FinishedStaysFinished, QP!ClaimsOpenNewAttempts, QP!ClaimsRespectUserCap,
       QP!QueueImplementsLifecycle
  <1>5. QED
    BY <1>3, <1>4

=============================================================================
