------------------------------ MODULE JobQueue ------------------------------
(***************************************************************************)
(* PostgresJobQueue (adapters/queue/postgres.py): the rows of              *)
(* generation_jobs and, per job, the job_attempts row with the highest     *)
(* attempt_no, the only one any statement of the adapter reads or writes.  *)
(*                                                                         *)
(* Each operation is one transaction and one action here.  Its UPDATE is   *)
(* conditional, so an action whose row does not match leaves the row as it *)
(* was instead of being disabled: the callers do not look first.  Time is  *)
(* two facts per job, that its lease ran out and that its backoff is over, *)
(* which become true in any order.                                         *)
(*                                                                         *)
(* Next lets any caller do any operation at any time.  JobPipeline says    *)
(* who really calls what.                                                  *)
(***************************************************************************)
EXTENDS Naturals, FiniteSets

CONSTANTS
    Jobs,               \* job ids, numbered in the order of queued_at
    Users,
    Lanes,              \* the backends that execute jobs
    OwnerOf,            \* generation_jobs.user_id
    LaneOf,             \* the backend of the job's kind (kinds_for_backend)
    Prompts,            \* the ids a backend can hand out
    NoPrompt,           \* comfy_prompt_id IS NULL; also: no result stored
    MaxActivePerUser,   \* Settings.max_active_jobs_per_user, 0: no cap
    RetryBound          \* bound of Next: retries counted per job

ASSUME QueueAssumption ==
    /\ Jobs \subseteq Nat
    /\ IsFiniteSet(Jobs)
    /\ OwnerOf \in [Jobs -> Users]
    /\ LaneOf \in [Jobs -> Lanes]
    /\ NoPrompt \notin Prompts
    /\ MaxActivePerUser \in Nat
    /\ RetryBound \in Nat

VARIABLES
    job,        \* the generation_jobs row of each job
    attempt     \* the latest job_attempts row of each job

vars == <<job, attempt>>

BacklogStates  == {"queued", "retry_wait"}
ActiveStates   == {"dispatched", "running"}
TerminalStates == {"succeeded", "failed", "cancelled"}
JobStates      == {"absent"} \cup BacklogStates \cup ActiveStates \cup TerminalStates
AttemptStates  == {"none", "dispatched", "retry_wait", "succeeded", "failed"}

NoJob == [state |-> "absent", current_attempt |-> 0, error |-> FALSE, due |-> FALSE]

NoAttempt ==
    [no |-> 0, state |-> "none", lease |-> "none", prompt |-> NoPrompt, result |-> NoPrompt]

JobRow ==
    [state : JobStates, current_attempt : Nat, error : BOOLEAN, due : BOOLEAN]

AttemptRow ==
    [no : Nat, state : AttemptStates, lease : {"none", "live", "expired"},
     prompt : Prompts \cup {NoPrompt}, result : Prompts \cup {NoPrompt}]

(* The type invariant. *)
TypeOK ==
    /\ job \in [Jobs -> JobRow]
    /\ attempt \in [Jobs -> AttemptRow]

Exists(j)     == job[j].state # "absent"
Terminal(j)   == job[j].state \in TerminalStates
Unfinished(j) == Exists(j) /\ ~Terminal(j)
Active(j)     == job[j].state \in ActiveStates
Waiting(j)    == job[j].state \in BacklogStates
Attempted(j)  == attempt[j].no > 0

Init ==
    /\ job = [j \in Jobs |-> NoJob]
    /\ attempt = [j \in Jobs |-> NoAttempt]

-----------------------------------------------------------------------------
(* Admission's INSERT: queued and available at once. *)
Enqueue(j) ==
    /\ ~Exists(j)
    /\ job' = [job EXCEPT ![j] = [NoJob EXCEPT !.state = "queued", !.due = TRUE]]
    /\ UNCHANGED attempt

(***************************************************************************)
(* Claiming.  Every job is created with priority 0, so the order by        *)
(* priority plus age is the order of queued_at.  The capped path takes one *)
(* row at a time under an advisory lock: the oldest eligible one whose     *)
(* owner is below the cap, counting the rows this claim already took.  The *)
(* batch C is the only set with that property.                             *)
(***************************************************************************)
Eligible(lane) == {j \in Jobs : Waiting(j) /\ job[j].due /\ LaneOf[j] = lane}

ActiveOf(u)    == {j \in Jobs : Active(j) /\ OwnerOf[j] = u}
ActiveIn(lane) == {j \in Jobs : Active(j) /\ LaneOf[j] = lane}

TakenBefore(C, j) == {i \in C : i < j}

(* Mutant: the cap forgets the rows this claim already took. *)
BelowUserCapOfOthers(u, taken) ==
    MaxActivePerUser = 0 \/ Cardinality(ActiveOf(u)) < MaxActivePerUser

BelowUserCap(u, taken) ==
    \/ MaxActivePerUser = 0
    \/ Cardinality(ActiveOf(u) \cup {i \in taken : OwnerOf[i] = u}) < MaxActivePerUser

IsBatch(C, lane, capacity) ==
    \A j \in Eligible(lane) :
        j \in C <=> /\ Cardinality(TakenBefore(C, j)) < capacity
                    /\ BelowUserCap(OwnerOf[j], TakenBefore(C, j))

(* Mutants: the attempt kept in one row, as the in-memory queue keeps it; a
   claim that stamps no lease. *)
LeasedAttemptFlattened(j) ==
    [attempt[j] EXCEPT !.no = job[j].current_attempt + 1, !.state = "dispatched", !.lease = "live"]

LeasedAttemptUnleased(j) ==
    [NoAttempt EXCEPT !.no = job[j].current_attempt + 1, !.state = "dispatched"]

(* INSERT INTO job_attempts .. ON CONFLICT (job_id, attempt_no): a row that
   already exists gets the new lease and keeps the rest.  AttemptsCounted
   shows that there is none. *)
LeasedAttempt(j) ==
    LET n == job[j].current_attempt + 1
    IN  IF attempt[j].no >= n
        THEN [attempt[j] EXCEPT !.lease = "live"]
        ELSE [NoAttempt EXCEPT !.no = n, !.state = "dispatched", !.lease = "live"]

Claim(C) ==
    /\ job' = [j \in Jobs |-> IF j \in C THEN [job[j] EXCEPT !.state = "dispatched"]
                                         ELSE job[j]]
    /\ attempt' = [j \in Jobs |-> IF j \in C THEN LeasedAttempt(j) ELSE attempt[j]]

ClaimNext(lane, capacity) ==
    \E C \in SUBSET Eligible(lane) : IsBatch(C, lane, capacity) /\ Claim(C)

-----------------------------------------------------------------------------
(* The transitions.  Only the terminal states are guarded against. *)
UpdateJob(j, row) == job' = [job EXCEPT ![j] = row]

(* Changes nothing when the job was never claimed. *)
UpdateLatestAttempt(j, row) ==
    attempt' = IF Attempted(j) THEN [attempt EXCEPT ![j] = row] ELSE attempt

(* Mutant: mark_running without "state NOT IN :terminal". *)
MarkRunningFromAny(j) ==
    IF Exists(j)
    THEN UpdateJob(j, [job[j] EXCEPT !.state = "running"]) /\ UNCHANGED attempt
    ELSE UNCHANGED vars

MarkRunning(j) ==
    IF Unfinished(j)
    THEN UpdateJob(j, [job[j] EXCEPT !.state = "running"]) /\ UNCHANGED attempt
    ELSE UNCHANGED vars

(* Mutant: the error of an earlier attempt stays on the job. *)
MarkSucceededKeepingError(j, p) ==
    IF Unfinished(j)
    THEN /\ UpdateJob(j, [job[j] EXCEPT !.state = "succeeded"])
         /\ UpdateLatestAttempt(j, [attempt[j] EXCEPT !.state = "succeeded", !.result = p])
    ELSE UNCHANGED vars

MarkSucceeded(j, p) ==
    IF Unfinished(j)
    THEN /\ UpdateJob(j, [job[j] EXCEPT !.state = "succeeded", !.error = FALSE])
         /\ UpdateLatestAttempt(j, [attempt[j] EXCEPT !.state = "succeeded", !.result = p])
    ELSE UNCHANGED vars

MarkFailed(j) ==
    IF Unfinished(j)
    THEN /\ UpdateJob(j, [job[j] EXCEPT !.state = "failed", !.error = TRUE])
         /\ UpdateLatestAttempt(j, [attempt[j] EXCEPT !.state = "failed"])
    ELSE UNCHANGED vars

(* Mutants: a retry that is not counted; a retry of a job that already ended. *)
MarkRetryWaitUncounted(j) ==
    IF Unfinished(j)
    THEN /\ UpdateJob(j, [job[j] EXCEPT !.state = "retry_wait", !.error = TRUE, !.due = FALSE])
         /\ UpdateLatestAttempt(j, [attempt[j] EXCEPT !.state = "retry_wait"])
    ELSE UNCHANGED vars

MarkRetryWaitFromAny(j) ==
    /\ UpdateJob(j, [state |-> "retry_wait",
                    current_attempt |-> job[j].current_attempt + 1,
                    error |-> TRUE,
                    due |-> FALSE])
    /\ UpdateLatestAttempt(j, [attempt[j] EXCEPT !.state = "retry_wait"])

(* current_attempt is bumped in SQL, from the value the row has at that moment. *)
MarkRetryWait(j) ==
    IF Unfinished(j)
    THEN /\ UpdateJob(j, [state |-> "retry_wait",
                         current_attempt |-> job[j].current_attempt + 1,
                         error |-> TRUE,
                         due |-> FALSE])
         /\ UpdateLatestAttempt(j, [attempt[j] EXCEPT !.state = "retry_wait"])
    ELSE UNCHANGED vars

(* Neither of these two looks at the state of the job: whatever row is the
   latest one when the statement runs is written. *)
SetPromptId(j, p) ==
    /\ UpdateLatestAttempt(j, [attempt[j] EXCEPT !.prompt = p])
    /\ UNCHANGED job

RenewLease(j) ==
    /\ UpdateLatestAttempt(j, [attempt[j] EXCEPT !.lease = "live"])
    /\ UNCHANGED job

(* Mutant: the cancelling state of domain/jobs/state_machine.py, which no
   part of the queue knows. *)
CancelRequested(j) ==
    IF Unfinished(j)
    THEN /\ UpdateJob(j, [job[j] EXCEPT !.state = IF Active(j) THEN "cancelling" ELSE "cancelled"])
         /\ UNCHANGED attempt
    ELSE UNCHANGED vars

(* The user's cancel: straight to cancelled, the attempt row is left alone. *)
Cancel(j) ==
    IF Unfinished(j)
    THEN UpdateJob(j, [job[j] EXCEPT !.state = "cancelled"]) /\ UNCHANGED attempt
    ELSE UNCHANGED vars

(* Time passes: lease_expires_at and available_at fall behind now(). *)
LeaseExpires(j) ==
    /\ attempt[j].lease = "live"
    /\ attempt' = [attempt EXCEPT ![j] = [attempt[j] EXCEPT !.lease = "expired"]]
    /\ UNCHANGED job

BackoffElapses(j) ==
    /\ job[j].state = "retry_wait"
    /\ ~job[j].due
    /\ job' = [job EXCEPT ![j] = [job[j] EXCEPT !.due = TRUE]]
    /\ UNCHANGED attempt

Next ==
    \/ \E lane \in Lanes, capacity \in 1..Cardinality(Jobs) : ClaimNext(lane, capacity)
    \/ \E j \in Jobs :
          \/ Enqueue(j)
          \/ MarkRunning(j)
          \/ MarkFailed(j)
          \/ job[j].current_attempt < RetryBound /\ MarkRetryWait(j)
          \/ RenewLease(j)
          \/ Cancel(j)
          \/ LeaseExpires(j)
          \/ BackoffElapses(j)
    \/ \E j \in Jobs, p \in Prompts : SetPromptId(j, p) \/ MarkSucceeded(j, p)

Spec == Init /\ [][Next]_vars

-----------------------------------------------------------------------------
(* Properties. *)

(* postgres.py:22-29: "a late/duplicate mark_* call can never downgrade a
   job that has already reached succeeded/failed/cancelled".  Whatever the
   callers do, a finished job keeps its outcome, its error, its attempt
   count and the result stored with it. *)
TerminalIsFinal ==
    [][\A j \in Jobs :
         Terminal(j) => /\ job'[j] = job[j]
                        /\ attempt'[j].no = attempt[j].no
                        /\ attempt'[j].state = attempt[j].state
                        /\ attempt'[j].result = attempt[j].result]_vars

(* postgres.py:36-39: "a new attempt gets its OWN row with comfy_prompt_id
   starting NULL".  The claim's ON CONFLICT branch, which would keep the old
   prompt, is never taken: a claim opens a row with a higher number. *)
ClaimOpensNewAttempt ==
    [][\A j \in Jobs :
         (Waiting(j) /\ job'[j].state = "dispatched") =>
            /\ attempt'[j].no > attempt[j].no
            /\ attempt'[j].prompt = NoPrompt
            /\ attempt'[j].result = NoPrompt]_vars

(* The inductive reason for ClaimOpensNewAttempt: a job that can be claimed
   has counted every attempt it has a row for. *)
AttemptsCounted ==
    \A j \in Jobs :
        /\ attempt[j].no <= job[j].current_attempt + 1
        /\ Waiting(j) => attempt[j].no <= job[j].current_attempt
        /\ ~Exists(j) => attempt[j].no = 0 /\ job[j].current_attempt = 0

(* config.py:80-86: a claim never takes a user above max_active_jobs_per_user,
   however many of the user's jobs are waiting and however large the batch. *)
ClaimRespectsUserCap ==
    [][\A u \in Users :
         (MaxActivePerUser > 0 /\ \E j \in Jobs : OwnerOf[j] = u /\ Waiting(j)
                                                  /\ job'[j].state = "dispatched")
            => Cardinality(ActiveOf(u)') <= MaxActivePerUser]_vars

(* The queue implements JobLifecycle. *)
PhaseOf(state) ==
    CASE state \in BacklogStates -> "waiting"
      [] state \in ActiveStates  -> "active"
      [] OTHER                   -> state

Lifecycle ==
    INSTANCE JobLifecycle WITH
        phase   <- [j \in Jobs |-> PhaseOf(job[j].state)],
        retries <- [j \in Jobs |-> job[j].current_attempt]

ImplementsLifecycle == Lifecycle!Spec

=============================================================================
