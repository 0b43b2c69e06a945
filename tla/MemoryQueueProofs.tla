-------------------------- MODULE MemoryQueueProofs --------------------------
(***************************************************************************)
(* The in-memory queue answers as the one in the database does, for any    *)
(* jobs, users, backends and prompts, any cap, and any sequence of calls.  *)
(***************************************************************************)
EXTENDS MemoryQueue, JobQueueProofs

-----------------------------------------------------------------------------
(* The inductive invariant. *)

(* What the rows of a job and its record have in common.  Only success
   leaves a result, so a job that can still be claimed has none, in either
   queue; only a claim dispatches, so a dispatched job has an attempt. *)
Match(row, att, rec) ==
    /\ rec.state = row.state
    /\ rec.current_attempt = row.current_attempt
    /\ rec.error = row.error
    /\ rec.due = row.due
    /\ row.state # "succeeded" => rec.result = NoPrompt
    /\ att.no > 0 => rec.result = att.result
    /\ row.state = "dispatched" => att.no > 0 /\ rec.lease = att.lease
    /\ row.state = "running" /\ att.no > 0 => rec.prompt \in {NoPrompt, att.prompt}

Alike == \A j \in Jobs : Match(job[j], attempt[j], mem[j])

ParityInv ==
    /\ ParityTypeOK
    /\ AttemptsCounted
    /\ ~revived => Alike

(* The rows of one job change, in both queues. *)
Write(j, row, att, rec) ==
    /\ job' = [job EXCEPT ![j] = row]
    /\ attempt' = [attempt EXCEPT ![j] = att]
    /\ mem' = [mem EXCEPT ![j] = rec]

Agree == mem' \in [Jobs -> Record] /\ Alike'

LEMMA OneJobWritten ==
    ASSUME ParityTypeOK, Alike, NEW j \in Jobs, NEW row, NEW att, NEW rec,
           Write(j, row, att, rec), rec \in Record, Match(row, att, rec)
    PROVE  Agree
  <1>1. /\ job \in [Jobs -> JobRow] /\ attempt \in [Jobs -> AttemptRow] /\ mem \in [Jobs -> Record]
    BY DEF ParityTypeOK, TypeOK
  <1>2. mem' \in [Jobs -> Record]
    BY <1>1 DEF Write
  <1>3. ASSUME NEW i \in Jobs PROVE Match(job'[i], attempt'[i], mem'[i])
    <2>1. CASE i = j
      <3>1. job'[i] = row /\ attempt'[i] = att /\ mem'[i] = rec
        BY <1>1, <2>1 DEF Write
      <3>2. QED
        BY <3>1
    <2>2. CASE i # j
      <3>1. job'[i] = job[i] /\ attempt'[i] = attempt[i] /\ mem'[i] = mem[i]
        BY <1>1, <2>2 DEF Write
      <3>2. Match(job[i], attempt[i], mem[i])
        BY DEF Alike
      <3>3. QED
        BY <3>1, <3>2
    <2>3. QED
      BY <2>1, <2>2
  <1>4. QED
    BY <1>2, <1>3 DEF Agree, Alike

LEMMA NothingWritten ==
    ASSUME ParityTypeOK, Alike, UNCHANGED <<job, attempt, mem>>
    PROVE  Agree
  BY DEF ParityTypeOK, Agree, Alike

(* The rows of a job, to speak of them as they were. *)
LEMMA RowsOf ==
    ASSUME ParityTypeOK, AttemptsCounted, Alike, NEW j \in Jobs
    PROVE  \E row \in JobRow, att \in AttemptRow, rec \in Record :
              /\ row = job[j] /\ att = attempt[j] /\ rec = mem[j]
              /\ Match(row, att, rec)
              /\ row.state = "absent" => att.no = 0
              /\ Attempted(j) <=> att.no > 0
              /\ Exists(j) <=> row.state # "absent"
              /\ Terminal(j) <=> row.state \in {"succeeded", "failed", "cancelled"}
              /\ Unfinished(j) <=> row.state \in {"queued", "retry_wait", "dispatched", "running"}
              /\ Open(j) <=> Unfinished(j)
              /\ InFlight(j) <=> row.state \in {"dispatched", "running"}
              /\ attempt = [attempt EXCEPT ![j] = att] /\ job = [job EXCEPT ![j] = row]
              /\ mem = [mem EXCEPT ![j] = rec]
  <1>1. job \in [Jobs -> JobRow] /\ attempt \in [Jobs -> AttemptRow] /\ mem \in [Jobs -> Record]
    BY DEF ParityTypeOK, TypeOK
  <1>2. PICK row \in JobRow, att \in AttemptRow, rec \in Record :
           row = job[j] /\ att = attempt[j] /\ rec = mem[j]
    BY <1>1
  <1>3. Match(row, att, rec)
    BY <1>2 DEF Alike
  <1>4. row.state \in JobStates /\ rec.state = row.state
    BY <1>3 DEF JobRow, Match
  <1>5. /\ row.state = "absent" => att.no = 0
        /\ Attempted(j) <=> att.no > 0
    BY <1>2 DEF AttemptsCounted, Exists, Attempted
  <1>6. /\ Exists(j) <=> row.state # "absent"
        /\ Terminal(j) <=> row.state \in {"succeeded", "failed", "cancelled"}
        /\ Unfinished(j) <=> row.state \in {"queued", "retry_wait", "dispatched", "running"}
        /\ Open(j) <=> Unfinished(j)
        /\ InFlight(j) <=> row.state \in {"dispatched", "running"}
    BY <1>2, <1>4 DEF Exists, Terminal, Unfinished, Open, InFlight, Ended, JobStates, BacklogStates,
                      ActiveStates, TerminalStates
  <1>7. /\ attempt = [attempt EXCEPT ![j] = att] /\ job = [job EXCEPT ![j] = row]
        /\ mem = [mem EXCEPT ![j] = rec]
    BY <1>1, <1>2
  <1>8. QED
    BY <1>2, <1>3, <1>5, <1>6, <1>7

-----------------------------------------------------------------------------
(* The calls on one job.  Each lemma is about the rows it writes. *)
LEMMA EnqueueAgrees ==
    ASSUME ParityTypeOK, AttemptsCounted, Alike, NEW j \in Jobs, Enqueue(j), MemEnqueue(j)
    PROVE  Agree
  <1> DEFINE newRow == [NoJob EXCEPT !.state = "queued", !.due = TRUE]
             newRec == [NoRecord EXCEPT !.state = "queued", !.due = TRUE]
  <1>1. PICK row \in JobRow, att \in AttemptRow, rec \in Record :
           /\ row = job[j] /\ att = attempt[j] /\ rec = mem[j]
           /\ row.state = "absent" => att.no = 0
           /\ Exists(j) <=> row.state # "absent"
           /\ attempt = [attempt EXCEPT ![j] = att]
    BY RowsOf
  <1>2. att.no = 0
    BY <1>1 DEF Enqueue
  <1>3. newRec \in Record /\ Match(newRow, att, newRec)
    <2>1. NoRecord \in Record /\ NoRecord.current_attempt = 0 /\ NoRecord.error = FALSE
          /\ NoRecord.result = NoPrompt
      BY DEF NoRecord, Record, JobStates
    <2>2. /\ newRow.state = "queued" /\ newRow.current_attempt = 0 /\ newRow.error = FALSE
          /\ newRow.due = TRUE
      BY DEF NoJob
    <2>3. /\ newRec \in Record /\ newRec.state = "queued" /\ newRec.current_attempt = 0
          /\ newRec.error = FALSE /\ newRec.due = TRUE /\ newRec.result = NoPrompt
      BY <2>1, StateNames DEF Record
    <2>4. ~(att.no > 0)
      BY <1>2
    <2> HIDE DEF newRow, newRec
    <2>5. QED
      BY <2>1, <2>2, <2>3, <2>4 DEF Match
  <1>4. Write(j, newRow, att, newRec)
    BY <1>1 DEF Enqueue, MemEnqueue, Put, Write
  <1> HIDE DEF newRow, newRec
  <1>5. QED
    BY <1>3, <1>4, OneJobWritten

(* mark_running of a job that has not ended: the prompt of the record is
   cleared. *)
LEMMA MarkRunningAgrees ==
    ASSUME ParityTypeOK, AttemptsCounted, Alike, NEW j \in Jobs, BothMarkRunning(j), ~revived'
    PROVE  Agree
  <1>1. PICK row \in JobRow, att \in AttemptRow, rec \in Record :
           /\ row = job[j] /\ att = attempt[j] /\ rec = mem[j]
           /\ Match(row, att, rec)
           /\ Exists(j) <=> row.state # "absent"
           /\ attempt = [attempt EXCEPT ![j] = att]
    BY RowsOf
  <1> DEFINE newRow == [row EXCEPT !.state = "running"]
             newRec == [rec EXCEPT !.state = "running", !.prompt = NoPrompt]
  <1>2. ~Terminal(j) /\ (Unfinished(j) <=> row.state # "absent") /\ rec.state = row.state
    BY <1>1 DEF BothMarkRunning, Unfinished, Match
  <1>3. CASE Unfinished(j)
    <2>1. newRec \in Record /\ Match(newRow, att, newRec)
      <3>1. row.state # "succeeded"
        BY <1>1, <1>2 DEF Terminal, TerminalStates
      <3>2. newRec \in Record
        BY StateNames DEF Record
      <3>3. /\ newRow.state = "running" /\ newRec.state = "running"
            /\ newRow.current_attempt = row.current_attempt /\ newRow.error = row.error
            /\ newRow.due = row.due
            /\ newRec.current_attempt = rec.current_attempt /\ newRec.error = rec.error
            /\ newRec.due = rec.due /\ newRec.result = rec.result /\ newRec.prompt = NoPrompt
        BY DEF JobRow, Record
      <3> HIDE DEF newRow, newRec
      <3>4. QED
        BY <1>1, <3>1, <3>2, <3>3 DEF Match
    <2>2. Write(j, newRow, att, newRec)
      BY <1>1, <1>2, <1>3 DEF BothMarkRunning, MarkRunning, UpdateJob, MemMarkRunning, PutIf, Write
    <2> HIDE DEF newRow, newRec
    <2>3. QED
      BY <2>1, <2>2, OneJobWritten
  <1>4. CASE ~Unfinished(j)
    BY <1>1, <1>2, <1>4, NothingWritten
       DEF BothMarkRunning, MarkRunning, MemMarkRunning, PutIf, vars
  <1>5. QED
    BY <1>3, <1>4

LEMMA MarkSucceededAgrees ==
    ASSUME ParityTypeOK, AttemptsCounted, Alike, NEW j \in Jobs, NEW p \in Prompts,
           MarkSucceeded(j, p), MemMarkSucceeded(j, p)
    PROVE  Agree
  <1>1. PICK row \in JobRow, att \in AttemptRow, rec \in Record :
           /\ row = job[j] /\ att = attempt[j] /\ rec = mem[j]
           /\ Match(row, att, rec)
           /\ Attempted(j) <=> att.no > 0
           /\ Open(j) <=> Unfinished(j)
           /\ attempt = [attempt EXCEPT ![j] = att]
    BY RowsOf
  <1> DEFINE newRow == [row EXCEPT !.state = "succeeded", !.error = FALSE]
             newAtt == IF att.no > 0 THEN [att EXCEPT !.state = "succeeded", !.result = p] ELSE att
             newRec == [rec EXCEPT !.state = "succeeded", !.result = p, !.error = FALSE,
                                   !.lease = "none"]
  <1>2. CASE Unfinished(j)
    <2>1. newRec \in Record /\ Match(newRow, newAtt, newRec)
      BY <1>1, StateNames DEF JobRow, AttemptRow, Record, Match
    <2>2. attempt' = [attempt EXCEPT ![j] = newAtt]
      BY <1>1, <1>2 DEF MarkSucceeded, UpdateLatestAttempt
    <2>3. job' = [job EXCEPT ![j] = newRow] /\ mem' = [mem EXCEPT ![j] = newRec]
      BY <1>1, <1>2 DEF MarkSucceeded, UpdateJob, MemMarkSucceeded, PutIf
    <2> HIDE DEF newRow, newAtt, newRec
    <2>4. QED
      BY <2>1, <2>2, <2>3, OneJobWritten DEF Write
  <1>3. CASE ~Unfinished(j)
    BY <1>1, <1>3, NothingWritten DEF MarkSucceeded, MemMarkSucceeded, PutIf, vars
  <1>4. QED
    BY <1>2, <1>3


LEMMA MarkFailedAgrees ==
    ASSUME ParityTypeOK, AttemptsCounted, Alike, NEW j \in Jobs, MarkFailed(j), MemMarkFailed(j)
    PROVE  Agree
  <1>1. PICK row \in JobRow, att \in AttemptRow, rec \in Record :
           /\ row = job[j] /\ att = attempt[j] /\ rec = mem[j]
           /\ Match(row, att, rec)
           /\ Attempted(j) <=> att.no > 0
           /\ Unfinished(j) <=> row.state \in {"queued", "retry_wait", "dispatched", "running"}
           /\ Open(j) <=> Unfinished(j)
           /\ attempt = [attempt EXCEPT ![j] = att]
    BY RowsOf
  <1> DEFINE newRow == [row EXCEPT !.state = "failed", !.error = TRUE]
             newAtt == IF att.no > 0 THEN [att EXCEPT !.state = "failed"] ELSE att
             newRec == [rec EXCEPT !.state = "failed", !.error = TRUE, !.lease = "none"]
  <1>2. CASE Unfinished(j)
    <2>1. newRec \in Record /\ Match(newRow, newAtt, newRec)
      BY <1>1, <1>2, StateNames DEF JobRow, AttemptRow, Record, Match
    <2>2. attempt' = [attempt EXCEPT ![j] = newAtt]
      BY <1>1, <1>2 DEF MarkFailed, UpdateLatestAttempt
    <2>3. job' = [job EXCEPT ![j] = newRow] /\ mem' = [mem EXCEPT ![j] = newRec]
      BY <1>1, <1>2 DEF MarkFailed, UpdateJob, MemMarkFailed, PutIf
    <2> HIDE DEF newRow, newAtt, newRec
    <2>4. QED
      BY <2>1, <2>2, <2>3, OneJobWritten DEF Write
  <1>3. CASE ~Unfinished(j)
    BY <1>1, <1>3, NothingWritten DEF MarkFailed, MemMarkFailed, PutIf, vars
  <1>4. QED
    BY <1>2, <1>3

LEMMA MarkRetryWaitAgrees ==
    ASSUME ParityTypeOK, AttemptsCounted, Alike, NEW j \in Jobs,
           MarkRetryWait(j), MemMarkRetryWait(j)
    PROVE  Agree
  <1>1. PICK row \in JobRow, att \in AttemptRow, rec \in Record :
           /\ row = job[j] /\ att = attempt[j] /\ rec = mem[j]
           /\ Match(row, att, rec)
           /\ Attempted(j) <=> att.no > 0
           /\ Unfinished(j) <=> row.state \in {"queued", "retry_wait", "dispatched", "running"}
           /\ Open(j) <=> Unfinished(j)
           /\ attempt = [attempt EXCEPT ![j] = att]
    BY RowsOf
  <1> DEFINE newRow == [state |-> "retry_wait", current_attempt |-> row.current_attempt + 1,
                        error |-> TRUE, due |-> FALSE]
             newAtt == IF att.no > 0 THEN [att EXCEPT !.state = "retry_wait"] ELSE att
             newRec == [rec EXCEPT !.state = "retry_wait", !.error = TRUE, !.lease = "none",
                                   !.current_attempt = @ + 1, !.due = FALSE]
  <1>2. CASE Unfinished(j)
    <2>1. /\ newRec \in Record /\ newRec.state = "retry_wait" /\ newRec.error = TRUE
          /\ newRec.current_attempt = rec.current_attempt + 1 /\ newRec.due = FALSE
          /\ newRec.result = rec.result
      <3>1. rec.current_attempt + 1 \in Nat
        BY DEF Record
      <3>2. newRec = [rec EXCEPT !.state = "retry_wait", !.error = TRUE, !.lease = "none",
                                 !.current_attempt = rec.current_attempt + 1, !.due = FALSE]
        BY DEF Record
      <3>3. QED
        BY <3>1, <3>2, StateNames DEF Record
    <2>2. /\ newAtt.no = att.no /\ newAtt.result = att.result
          /\ newRow.state = "retry_wait" /\ newRow.error = TRUE
          /\ newRow.current_attempt = row.current_attempt + 1 /\ newRow.due = FALSE
      BY DEF AttemptRow
    <2>3. Match(newRow, newAtt, newRec)
      <3> HIDE DEF newRow, newAtt, newRec
      <3>1. QED
        BY <1>1, <1>2, <2>1, <2>2 DEF Match
    <2>4. attempt' = [attempt EXCEPT ![j] = newAtt]
      BY <1>1, <1>2 DEF MarkRetryWait, UpdateLatestAttempt
    <2>5. job' = [job EXCEPT ![j] = newRow] /\ mem' = [mem EXCEPT ![j] = newRec]
      BY <1>1, <1>2 DEF MarkRetryWait, UpdateJob, MemMarkRetryWait, PutIf
    <2> HIDE DEF newRow, newAtt, newRec
    <2>6. QED
      BY <2>1, <2>3, <2>4, <2>5, OneJobWritten DEF Write
  <1>3. CASE ~Unfinished(j)
    BY <1>1, <1>3, NothingWritten DEF MarkRetryWait, MemMarkRetryWait, PutIf, vars
  <1>4. QED
    BY <1>2, <1>3

LEMMA CancelAgrees ==
    ASSUME ParityTypeOK, AttemptsCounted, Alike, NEW j \in Jobs, Cancel(j), MemCancel(j)
    PROVE  Agree
  <1>1. PICK row \in JobRow, att \in AttemptRow, rec \in Record :
           /\ row = job[j] /\ att = attempt[j] /\ rec = mem[j]
           /\ Match(row, att, rec)
           /\ Unfinished(j) <=> row.state \in {"queued", "retry_wait", "dispatched", "running"}
           /\ Open(j) <=> Unfinished(j)
           /\ attempt = [attempt EXCEPT ![j] = att]
    BY RowsOf
  <1> DEFINE newRow == [row EXCEPT !.state = "cancelled"]
             newRec == [rec EXCEPT !.state = "cancelled"]
  <1>2. CASE Unfinished(j)
    <2>1. newRec \in Record /\ Match(newRow, att, newRec)
      BY <1>1, <1>2, StateNames DEF JobRow, AttemptRow, Record, Match
    <2>2. Write(j, newRow, att, newRec)
      BY <1>1, <1>2 DEF Cancel, UpdateJob, MemCancel, PutIf, Write
    <2> HIDE DEF newRow, newRec
    <2>3. QED
      BY <2>1, <2>2, OneJobWritten
  <1>3. CASE ~Unfinished(j)
    BY <1>1, <1>3, NothingWritten DEF Cancel, MemCancel, PutIf, vars
  <1>4. QED
    BY <1>2, <1>3

(* The prompt goes to the latest attempt and to the record: to neither, to
   both, or only to the record of a job without an attempt. *)
LEMMA SetPromptIdAgrees ==
    ASSUME ParityTypeOK, AttemptsCounted, Alike, NEW j \in Jobs, NEW p \in Prompts,
           SetPromptId(j, p), MemSetPromptId(j, p)
    PROVE  Agree
  <1>1. PICK row \in JobRow, att \in AttemptRow, rec \in Record :
           /\ row = job[j] /\ att = attempt[j] /\ rec = mem[j]
           /\ Match(row, att, rec)
           /\ row.state = "absent" => att.no = 0
           /\ Attempted(j) <=> att.no > 0
           /\ attempt = [attempt EXCEPT ![j] = att] /\ job = [job EXCEPT ![j] = row]
           /\ mem = [mem EXCEPT ![j] = rec]
    BY RowsOf
  <1> DEFINE newAtt == IF att.no > 0 THEN [att EXCEPT !.prompt = p] ELSE att
             newRec == IF rec.state # "absent" THEN [rec EXCEPT !.prompt = p] ELSE rec
  <1>2. newRec \in Record
    BY <1>1 DEF Record
  <1>3. Match(row, newAtt, newRec)
    BY <1>1 DEF JobRow, AttemptRow, Record, Match
  <1>4. attempt' = [attempt EXCEPT ![j] = newAtt]
    BY <1>1 DEF SetPromptId, UpdateLatestAttempt
  <1>5. job' = [job EXCEPT ![j] = row] /\ mem' = [mem EXCEPT ![j] = newRec]
    BY <1>1 DEF SetPromptId, MemSetPromptId, PutIf
  <1> HIDE DEF newAtt, newRec
  <1>6. QED
    BY <1>2, <1>3, <1>4, <1>5, OneJobWritten DEF Write

(* A renewal reaches the latest attempt of any job, and the record of one in
   flight; the leases need only agree while the job is dispatched. *)
LEMMA RenewLeaseAgrees ==
    ASSUME ParityTypeOK, AttemptsCounted, Alike, NEW j \in Jobs, RenewLease(j), MemRenewLease(j)
    PROVE  Agree
  <1>1. PICK row \in JobRow, att \in AttemptRow, rec \in Record :
           /\ row = job[j] /\ att = attempt[j] /\ rec = mem[j]
           /\ Match(row, att, rec)
           /\ Attempted(j) <=> att.no > 0
           /\ InFlight(j) <=> row.state \in {"dispatched", "running"}
           /\ attempt = [attempt EXCEPT ![j] = att] /\ job = [job EXCEPT ![j] = row]
           /\ mem = [mem EXCEPT ![j] = rec]
    BY RowsOf
  <1> DEFINE newAtt == IF att.no > 0 THEN [att EXCEPT !.lease = "live"] ELSE att
             newRec == IF row.state \in {"dispatched", "running"}
                       THEN [rec EXCEPT !.lease = "live"] ELSE rec
  <1>2. newRec \in Record
    BY <1>1 DEF Record
  <1>3. Match(row, newAtt, newRec)
    BY <1>1 DEF JobRow, AttemptRow, Record, Match
  <1>4. attempt' = [attempt EXCEPT ![j] = newAtt]
    BY <1>1 DEF RenewLease, UpdateLatestAttempt
  <1>5. job' = [job EXCEPT ![j] = row] /\ mem' = [mem EXCEPT ![j] = newRec]
    BY <1>1 DEF RenewLease, MemRenewLease, PutIf
  <1> HIDE DEF newAtt, newRec
  <1>6. QED
    BY <1>2, <1>3, <1>4, <1>5, OneJobWritten DEF Write

LEMMA LeaseExpiresAgrees ==
    ASSUME ParityTypeOK, AttemptsCounted, Alike, NEW j \in Jobs,
           LeaseExpires(j), MemLeaseExpires(j)
    PROVE  Agree
  <1>1. PICK row \in JobRow, att \in AttemptRow, rec \in Record :
           /\ row = job[j] /\ att = attempt[j] /\ rec = mem[j]
           /\ Match(row, att, rec)
           /\ job = [job EXCEPT ![j] = row] /\ mem = [mem EXCEPT ![j] = rec]
    BY RowsOf
  <1> DEFINE newAtt == [att EXCEPT !.lease = "expired"]
             newRec == IF rec.lease = "live" THEN [rec EXCEPT !.lease = "expired"] ELSE rec
  <1>2. newRec \in Record
    BY <1>1 DEF Record
  <1>3. Match(row, newAtt, newRec)
    BY <1>1 DEF JobRow, AttemptRow, Record, Match, LeaseExpires
  <1>4. Write(j, row, newAtt, newRec)
    BY <1>1 DEF LeaseExpires, MemLeaseExpires, PutIf, Write
  <1> HIDE DEF newAtt, newRec
  <1>5. QED
    BY <1>2, <1>3, <1>4, OneJobWritten

LEMMA BackoffElapsesAgrees ==
    ASSUME ParityTypeOK, AttemptsCounted, Alike, NEW j \in Jobs,
           BackoffElapses(j), MemBackoffElapses(j)
    PROVE  Agree
  <1>1. PICK row \in JobRow, att \in AttemptRow, rec \in Record :
           /\ row = job[j] /\ att = attempt[j] /\ rec = mem[j]
           /\ Match(row, att, rec)
           /\ attempt = [attempt EXCEPT ![j] = att]
    BY RowsOf
  <1> DEFINE newRow == [row EXCEPT !.due = TRUE]
             newRec == [rec EXCEPT !.due = TRUE]
  <1>2. row.state = "retry_wait" /\ rec.state = "retry_wait"
    BY <1>1 DEF BackoffElapses, Match
  <1>3. newRec \in Record /\ Match(newRow, att, newRec)
    BY <1>1, <1>2 DEF JobRow, AttemptRow, Record, Match
  <1>4. Write(j, newRow, att, newRec)
    BY <1>1, <1>2 DEF BackoffElapses, MemBackoffElapses, PutIf, Write
  <1> HIDE DEF newRow, newRec
  <1>5. QED
    BY <1>3, <1>4, OneJobWritten

-----------------------------------------------------------------------------
(* Claims.  Both queues find the same jobs and count the same owners, and
   the batch is determined by them. *)
LEMMA SameEligible ==
    ASSUME Alike, NEW l \in Lanes
    PROVE  MemEligible(l) = Eligible(l)
  BY DEF Alike, Match, MemEligible, Eligible, InBacklog, Waiting

LEMMA SameBatch ==
    ASSUME Alike, NEW l \in Lanes, NEW capacity \in Nat, NEW C \in SUBSET Eligible(l),
           MemIsBatch(C, l, capacity)
    PROVE  IsBatch(C, l, capacity)
  <1>1. ASSUME NEW u \in Users, NEW taken \in SUBSET Jobs
        PROVE  {j \in Jobs : (InFlight(j) \/ j \in taken) /\ OwnerOf[j] = u}
                  = ActiveOf(u) \cup {i \in taken : OwnerOf[i] = u}
    BY DEF Alike, Match, InFlight, Active, ActiveOf
  <1>2. ASSUME NEW u \in Users, NEW taken \in SUBSET Jobs
        PROVE  MemOwnerActive(u, taken)
                  = Cardinality(ActiveOf(u) \cup {i \in taken : OwnerOf[i] = u})
    BY <1>1 DEF MemOwnerActive
  <1>3. ASSUME NEW u \in Users, NEW taken \in SUBSET Jobs
        PROVE  (MaxActivePerUser > 0 => MemOwnerActive(u, taken) < MaxActivePerUser)
                  <=> BelowUserCap(u, taken)
    BY <1>2, QueueAssumption DEF BelowUserCap
  <1>4. ASSUME NEW j \in Eligible(l)
        PROVE  OwnerOf[j] \in Users /\ TakenBefore(C, j) \in SUBSET Jobs
    BY QueueAssumption DEF Eligible, TakenBefore
  <1>5. QED
    BY <1>3, <1>4, SameEligible DEF MemIsBatch, IsBatch

(* The first of a set of jobs, as the youngest was found. *)
LEMMA Oldest ==
    ASSUME NEW C \in SUBSET Jobs, C # {}
    PROVE  \E m \in C : \A j \in C : ~(j < m)
  <1> DEFINE Older(j) == {i \in C : i < j}
             Sets == {Older(j) : j \in C}
  <1>1. IsFiniteSet(C) /\ C \subseteq Nat
    BY FS_Subset, QueueAssumption
  <1>2. IsWellFoundedOn(StrictSubsetOrdering(C), FiniteSubsetsOf(C))
    BY FS_StrictSubsetOrderingWellFounded
  <1>3. FiniteSubsetsOf(C) = SUBSET C
    BY <1>1, FS_FiniteSubsetsOfFinite
  <1>4. Sets \subseteq SUBSET C /\ Sets # {}
    OBVIOUS
  <1>5. PICK Y \in Sets : \A Z \in Sets : <<Z, Y>> \notin StrictSubsetOrdering(C)
    <2> HIDE DEF Sets
    <2>1. QED
      BY <1>2, <1>3, <1>4, WFMin
  <1>6. PICK m \in C : Y = Older(m)
    BY <1>5
  <1>7. ASSUME NEW j \in C, j < m
        PROVE  FALSE
    <2>1. (\A i \in C : i < j => i < m) /\ ~(j < j)
      BY <1>1, <1>7
    <2>2. Older(j) \subseteq Older(m) /\ j \in Older(m) /\ j \notin Older(j)
      BY <1>7, <2>1
    <2>3. <<Older(j), Older(m)>> \in StrictSubsetOrdering(C)
      BY <2>2 DEF StrictSubsetOrdering
    <2>4. QED
      BY <1>5, <1>6, <2>3
  <1>8. QED
    BY <1>7

(* The first job that only one of two batches has would see the same jobs
   taken before it in both. *)
LEMMA OneBatch ==
    ASSUME NEW l \in Lanes, NEW capacity \in Nat,
           NEW C \in SUBSET Eligible(l), NEW D \in SUBSET Eligible(l),
           IsBatch(C, l, capacity), IsBatch(D, l, capacity)
    PROVE  C = D
  <1> DEFINE Apart == (C \ D) \cup (D \ C)
  <1>1. Apart \in SUBSET Jobs
    BY DEF Eligible
  <1>2. SUFFICES ASSUME Apart # {} PROVE FALSE
    OBVIOUS
  <1>3. PICK m \in Apart : \A j \in Apart : ~(j < m)
    <2> HIDE DEF Apart
    <2>1. QED
      BY <1>1, <1>2, Oldest
  <1>4. TakenBefore(C, m) = TakenBefore(D, m)
    BY <1>3 DEF TakenBefore
  <1>5. m \in Eligible(l)
    OBVIOUS
  <1>6. m \in C <=> m \in D
    BY <1>4, <1>5 DEF IsBatch
  <1>7. QED
    BY <1>6

LEMMA ClaimAgrees ==
    ASSUME ParityTypeOK, AttemptsCounted, Alike, NEW l \in Lanes, NEW capacity \in Nat,
           ClaimNext(l, capacity), MemClaimNext(l, capacity)
    PROVE  Agree
  <1>1. PICK C \in SUBSET Eligible(l) : IsBatch(C, l, capacity) /\ Claim(C)
    BY DEF ClaimNext
  <1>2. PICK D \in SUBSET Eligible(l) :
           /\ MemIsBatch(D, l, capacity)
           /\ mem' = [j \in Jobs |-> IF j \in D
                                     THEN [mem[j] EXCEPT !.state = "dispatched", !.lease = "live"]
                                     ELSE mem[j]]
    BY SameEligible DEF MemClaimNext
  <1>3. C = D
    BY <1>1, <1>2, SameBatch, OneBatch
  <1>4. ASSUME NEW j \in Jobs
        PROVE  mem'[j] \in Record /\ Match(job'[j], attempt'[j], mem'[j])
    <2>1. PICK row \in JobRow, att \in AttemptRow, rec \in Record :
             /\ row = job[j] /\ att = attempt[j] /\ rec = mem[j]
             /\ Match(row, att, rec)
      BY RowsOf
    <2>2. CASE j \notin C
      <3>1. job'[j] = row /\ attempt'[j] = att /\ mem'[j] = rec
        BY <1>1, <1>2, <1>3, <2>1, <2>2 DEF Claim
      <3>2. QED
        BY <2>1, <3>1
    <2>3. CASE j \in C
      <3> DEFINE newRow == [row EXCEPT !.state = "dispatched"]
                 newAtt == [NoAttempt EXCEPT !.no = row.current_attempt + 1,
                                             !.state = "dispatched", !.lease = "live"]
                 newRec == [rec EXCEPT !.state = "dispatched", !.lease = "live"]
      <3>1. row.state \in {"queued", "retry_wait"} /\ Waiting(j)
        BY <1>1, <2>1, <2>3 DEF Eligible, Waiting, BacklogStates
      <3>2. /\ attempt[j].no <= job[j].current_attempt /\ row.current_attempt \in Nat
            /\ att.no \in Nat
        BY <2>1, <3>1 DEF AttemptsCounted, JobRow, AttemptRow
      <3>3. LeasedAttempt(j) = newAtt
        <4>1. ~(attempt[j].no >= job[j].current_attempt + 1)
          BY <2>1, <3>2
        <4>2. QED
          BY <2>1, <4>1 DEF LeasedAttempt
      <3>4. job'[j] = newRow /\ attempt'[j] = newAtt /\ mem'[j] = newRec
        BY <1>1, <1>2, <1>3, <2>1, <2>3, <3>3 DEF Claim
      <3>5. /\ newRow.state = "dispatched" /\ newRow.current_attempt = row.current_attempt
            /\ newRow.error = row.error /\ newRow.due = row.due
        BY DEF JobRow
      <3>6. /\ newRec \in Record /\ newRec.state = "dispatched" /\ newRec.lease = "live"
            /\ newRec.current_attempt = rec.current_attempt /\ newRec.error = rec.error
            /\ newRec.due = rec.due /\ newRec.result = rec.result
        BY StateNames DEF Record
      <3>7. newAtt.no > 0 /\ newAtt.lease = "live" /\ newAtt.result = NoPrompt
        BY <3>2 DEF NoAttempt
      <3> HIDE DEF newRow, newAtt, newRec
      <3>8. Match(newRow, newAtt, newRec)
        BY <2>1, <3>1, <3>5, <3>6, <3>7 DEF Match
      <3>9. QED
        BY <3>4, <3>6, <3>8
    <2>4. QED
      BY <2>2, <2>3
  <1>5. mem' \in [Jobs -> Record]
    <2>1. mem' = [j \in Jobs |-> mem'[j]]
      BY <1>2
    <2>2. QED
      BY <1>4, <2>1
  <1>6. QED
    BY <1>4, <1>5 DEF Agree, Alike

-----------------------------------------------------------------------------
(* Every call made of both is a call of the database's queue. *)
LEMMA BothCallTheQueue == ASSUME [ParityNext]_parityVars PROVE [Next]_vars
  <1>1. ASSUME NEW j \in Jobs, MarkRunning(j) PROVE Next
    BY <1>1 DEF Next
  <1>2. CASE UNCHANGED parityVars
    BY <1>2 DEF parityVars, vars
  <1>3. CASE ParityNext
    BY <1>1, <1>3 DEF ParityNext, Both, BothMarkRunning, Next
  <1>4. QED
    BY <1>2, <1>3

LEMMA ParityStep == ASSUME ParityInv, [ParityNext]_parityVars PROVE ParityInv'
  <1>1. TypeOK' /\ AttemptsCounted'
    BY BothCallTheQueue, TypeStep, AttemptsStep DEF ParityInv, ParityTypeOK
  <1>2. CASE UNCHANGED parityVars
    BY <1>1, <1>2 DEF parityVars, ParityInv, ParityTypeOK, Alike
  <1>3. CASE ParityNext
    <2>1. ParityTypeOK /\ AttemptsCounted /\ Alike
      BY <1>3 DEF ParityInv, ParityNext
    <2>2. ASSUME NEW j \in Jobs, BothMarkRunning(j)
          PROVE  /\ mem' \in [Jobs -> Record] /\ revived' \in BOOLEAN
                 /\ ~revived' => Alike'
      <3>1. mem' \in [Jobs -> Record]
        <4>1. mem[j] \in Record /\ mem \in [Jobs -> Record]
          BY <2>1 DEF ParityTypeOK
        <4>2. [mem[j] EXCEPT !.state = "running", !.prompt = NoPrompt] \in Record
          BY <4>1, StateNames DEF Record
        <4>3. QED
          BY <2>2, <4>1, <4>2 DEF BothMarkRunning, MemMarkRunning, PutIf
      <3>2. revived' \in BOOLEAN
        BY <2>2 DEF BothMarkRunning, Terminal
      <3>3. QED
        BY <2>1, <2>2, <3>1, <3>2, MarkRunningAgrees DEF Agree
    <2>3. ASSUME NEW l \in Lanes, NEW capacity \in 1..Cardinality(Jobs),
                 Both(ClaimNext(l, capacity), MemClaimNext(l, capacity))
          PROVE  Agree /\ UNCHANGED revived
      <3>1. Cardinality(Jobs) \in Nat
        BY QueueAssumption, FS_CardinalityType
      <3>2. capacity \in Nat
        BY <3>1
      <3>3. QED
        BY <2>1, <2>3, <3>2, ClaimAgrees DEF Both
    <2>4. ASSUME NEW j \in Jobs,
                 \/ Both(Enqueue(j), MemEnqueue(j))
                 \/ Both(MarkFailed(j), MemMarkFailed(j))
                 \/ Both(MarkRetryWait(j), MemMarkRetryWait(j))
                 \/ Both(RenewLease(j), MemRenewLease(j))
                 \/ Both(Cancel(j), MemCancel(j))
                 \/ Both(LeaseExpires(j), MemLeaseExpires(j))
                 \/ Both(BackoffElapses(j), MemBackoffElapses(j))
          PROVE  Agree /\ UNCHANGED revived
      BY <2>1, <2>4, EnqueueAgrees, MarkFailedAgrees, MarkRetryWaitAgrees, RenewLeaseAgrees,
         CancelAgrees, LeaseExpiresAgrees, BackoffElapsesAgrees DEF Both
    <2>5. ASSUME NEW j \in Jobs, NEW p \in Prompts,
                 \/ Both(SetPromptId(j, p), MemSetPromptId(j, p))
                 \/ Both(MarkSucceeded(j, p), MemMarkSucceeded(j, p))
          PROVE  Agree /\ UNCHANGED revived
      BY <2>1, <2>5, SetPromptIdAgrees, MarkSucceededAgrees DEF Both
    <2>6. \/ \E j \in Jobs : BothMarkRunning(j)
          \/ Agree /\ UNCHANGED revived
      <3>1. ASSUME NEW j \in Jobs,
                   job[j].current_attempt < RetryBound /\ Both(MarkRetryWait(j), MemMarkRetryWait(j))
            PROVE  Agree /\ UNCHANGED revived
        BY <2>4, <3>1
      <3>2. QED
        BY <1>3, <2>3, <2>4, <2>5, <3>1 DEF ParityNext
    <2>7. CASE Agree /\ UNCHANGED revived
      BY <1>1, <2>1, <2>7 DEF Agree, ParityInv, ParityTypeOK
    <2>8. CASE \E j \in Jobs : BothMarkRunning(j)
      BY <1>1, <2>2, <2>8 DEF ParityInv, ParityTypeOK
    <2>9. QED
      BY <2>6, <2>7, <2>8
  <1>4. QED
    BY <1>2, <1>3

LEMMA ParityInvInit == ParityInit => ParityInv
  <1> SUFFICES ASSUME ParityInit PROVE ParityInv
    OBVIOUS
  <1>1. /\ TypeOK /\ AttemptsCounted /\ revived = FALSE
        /\ \A j \in Jobs : job[j] = NoJob /\ attempt[j] = NoAttempt /\ mem[j] = NoRecord
    BY TypeInit, AttemptsInit DEF ParityInit, Init
  <1>2. NoRecord \in Record
    BY DEF NoRecord, Record, JobStates
  <1>3. mem \in [Jobs -> Record]
    BY <1>2 DEF ParityInit
  <1>4. Match(NoJob, NoAttempt, NoRecord)
    BY DEF Match, NoJob, NoAttempt, NoRecord
  <1>5. QED
    BY <1>1, <1>3, <1>4 DEF ParityInv, ParityTypeOK, Alike

LEMMA ParityInvAlways == ParitySpec => []ParityInv
  BY ParityInvInit, ParityStep, PTL DEF ParitySpec

-----------------------------------------------------------------------------
(* The theorems. *)

(* The calls of both queues are calls of PostgresJobQueue: what holds of it
   by itself holds beside the memory. *)
THEOREM ParityIsOfTheQueue == ParitySpec => Spec
  <1>1. ParityInit => Init
    BY DEF ParityInit
  <1>2. [ParityNext]_parityVars => [Next]_vars
    BY BothCallTheQueue
  <1>3. QED
    BY <1>1, <1>2, PTL DEF ParitySpec, Spec

(* queue/__init__.py: the fields of a QueuedJob keep their types. *)
THEOREM ParityTypeCorrect == ParitySpec => []ParityTypeOK
  <1>1. ParityInv => ParityTypeOK
    BY DEF ParityInv
  <1>2. QED
    BY <1>1, ParityInvAlways, PTL

(* queue/__init__.py:247-249: the memory mirrors the real queue.  A caller of
   either reads the same of every job, after any sequence of calls, until
   mark_running revives a job that had ended. *)
THEOREM MemoryMirrorsTheQueue == ParitySpec => []MemoryAgrees
  <1>1. ASSUME ParityInv PROVE MemoryAgrees
    BY <1>1 DEF ParityInv, MemoryAgrees, Alike, Match, Attempted
  <1>2. QED
    BY <1>1, ParityInvAlways, PTL

(* queue/__init__.py:30-37: the one prompt_id of a job that runs is cleared
   or is that of its latest attempt, never that of an attempt before. *)
THEOREM MemoryShowsNoStalePrompt == ParitySpec => []NoStalePromptWhileRunning
  <1>1. ASSUME ParityInv PROVE NoStalePromptWhileRunning
    BY <1>1 DEF ParityInv, NoStalePromptWhileRunning, Alike, Match, Attempted
  <1>2. QED
    BY <1>1, ParityInvAlways, PTL
=============================================================================
