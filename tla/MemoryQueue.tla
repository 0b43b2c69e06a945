----------------------------- MODULE MemoryQueue -----------------------------
(***************************************************************************)
(* InMemoryJobQueue (adapters/queue/__init__.py) beside PostgresJobQueue:  *)
(* every call is made of both, and what they would answer is compared.     *)
(* A job has one record here, so an attempt inherits what the one before   *)
(* it left, where the database opens a new row.                            *)
(*                                                                         *)
(* The two part for good when mark_running is called for a job that ended: *)
(* the memory runs it again.  The comparison stops there (revived).        *)
(***************************************************************************)
EXTENDS JobQueue

VARIABLES
    mem,        \* the QueuedJob of each job
    revived     \* has mark_running been called for a job that had ended

parityVars == <<job, attempt, mem, revived>>

NoRecord ==
    [state |-> "absent", current_attempt |-> 0, error |-> FALSE, due |-> FALSE,
     lease |-> "none", prompt |-> NoPrompt, result |-> NoPrompt]

Record ==
    [state : JobStates, current_attempt : Nat, error : BOOLEAN, due : BOOLEAN,
     lease : {"none", "live", "expired"},
     prompt : Prompts \cup {NoPrompt}, result : Prompts \cup {NoPrompt}]

(* The type invariant. *)
ParityTypeOK ==
    /\ TypeOK
    /\ mem \in [Jobs -> Record]
    /\ revived \in BOOLEAN

ParityInit ==
    /\ Init
    /\ mem = [j \in Jobs |-> NoRecord]
    /\ revived = FALSE

-----------------------------------------------------------------------------
InBacklog(j) == mem[j].state \in BacklogStates
InFlight(j)  == mem[j].state \in ActiveStates
Ended(j)     == mem[j].state \in TerminalStates
Open(j)      == mem[j].state # "absent" /\ ~Ended(j)

Put(j, record) == mem' = [mem EXCEPT ![j] = record]

PutIf(condition, j, record) == mem' = IF condition THEN [mem EXCEPT ![j] = record] ELSE mem

MemEnqueue(j) ==
    Put(j, [NoRecord EXCEPT !.state = "queued", !.due = TRUE])

MemEligible(l) == {j \in Jobs : InBacklog(j) /\ mem[j].due /\ LaneOf[j] = l}

(* Mutant: the counts are taken once, before the batch. *)
MemOwnerActiveBefore(u, taken) == Cardinality({j \in Jobs : InFlight(j) /\ OwnerOf[j] = u})

(* active_counts: the dispatched and running, and those this call took. *)
MemOwnerActive(u, taken) == Cardinality({j \in Jobs : (InFlight(j) \/ j \in taken) /\ OwnerOf[j] = u})

MemIsBatch(C, l, capacity) ==
    \A j \in MemEligible(l) :
        LET before == TakenBefore(C, j)
        IN  j \in C <=> /\ Cardinality(before) < capacity
                        /\ MaxActivePerUser > 0 =>
                              MemOwnerActive(OwnerOf[j], before) < MaxActivePerUser

(* The record keeps its prompt_id, its result and its error. *)
MemClaimNext(l, capacity) ==
    \E C \in SUBSET MemEligible(l) :
        /\ MemIsBatch(C, l, capacity)
        /\ mem' = [j \in Jobs |-> IF j \in C
                                  THEN [mem[j] EXCEPT !.state = "dispatched", !.lease = "live"]
                                  ELSE mem[j]]

(* Mutant: before the fix, the prompt of the attempt before. *)
MemMarkRunningKeepingPrompt(j) ==
    PutIf(mem[j].state # "absent", j, [mem[j] EXCEPT !.state = "running"])

(* No look at _TERMINAL_STATES, which the other three have. *)
MemMarkRunning(j) ==
    PutIf(mem[j].state # "absent", j, [mem[j] EXCEPT !.state = "running", !.prompt = NoPrompt])

MemMarkSucceeded(j, p) ==
    PutIf(Open(j), j, [mem[j] EXCEPT !.state = "succeeded", !.result = p,
                                     !.error = FALSE, !.lease = "none"])

MemMarkFailed(j) ==
    PutIf(Open(j), j, [mem[j] EXCEPT !.state = "failed", !.error = TRUE, !.lease = "none"])

MemMarkRetryWait(j) ==
    PutIf(Open(j), j, [mem[j] EXCEPT !.state = "retry_wait", !.error = TRUE, !.lease = "none",
                                     !.current_attempt = @ + 1, !.due = FALSE])

MemSetPromptId(j, p) == PutIf(mem[j].state # "absent", j, [mem[j] EXCEPT !.prompt = p])

MemRenewLease(j) == PutIf(InFlight(j), j, [mem[j] EXCEPT !.lease = "live"])

(* The lease is left alone: nothing looks at it any more. *)
MemCancel(j) == PutIf(Open(j), j, [mem[j] EXCEPT !.state = "cancelled"])

(* The clock is the same for both. *)
MemLeaseExpires(j) == PutIf(mem[j].lease = "live", j, [mem[j] EXCEPT !.lease = "expired"])

MemBackoffElapses(j) == PutIf(mem[j].state = "retry_wait", j, [mem[j] EXCEPT !.due = TRUE])

-----------------------------------------------------------------------------
(* One call, made of both. *)
BothMarkRunning(j) ==
    /\ MarkRunning(j)
    /\ MemMarkRunning(j)
    /\ revived' = Terminal(j)

Both(pg, inMemory) == pg /\ inMemory /\ UNCHANGED revived

ParityNext ==
    /\ ~revived
    /\ \/ \E l \in Lanes, capacity \in 1..Cardinality(Jobs) :
             Both(ClaimNext(l, capacity), MemClaimNext(l, capacity))
       \/ \E j \in Jobs :
             \/ Both(Enqueue(j), MemEnqueue(j))
             \/ BothMarkRunning(j)
             \/ Both(MarkFailed(j), MemMarkFailed(j))
             \/ job[j].current_attempt < RetryBound /\ Both(MarkRetryWait(j), MemMarkRetryWait(j))
             \/ Both(RenewLease(j), MemRenewLease(j))
             \/ Both(Cancel(j), MemCancel(j))
             \/ Both(LeaseExpires(j), MemLeaseExpires(j))
             \/ Both(BackoffElapses(j), MemBackoffElapses(j))
       \/ \E j \in Jobs, p \in Prompts :
             \/ Both(SetPromptId(j, p), MemSetPromptId(j, p))
             \/ Both(MarkSucceeded(j, p), MemMarkSucceeded(j, p))

ParitySpec == ParityInit /\ [][ParityNext]_parityVars

-----------------------------------------------------------------------------
(* Properties. *)

(* queue/__init__.py:247-249: the memory "mirrors the state machine
   transitions of the real queue".  Whatever was called in whatever order, a
   caller of either reads the same state, count of retries, error and
   availability, and the same result of a job that was ever claimed: until
   mark_running revives a job that had ended. *)
MemoryAgrees ==
    ~revived => \A j \in Jobs :
        /\ mem[j].state = job[j].state
        /\ mem[j].current_attempt = job[j].current_attempt
        /\ mem[j].error = job[j].error
        /\ mem[j].due = job[j].due
        /\ Attempted(j) => mem[j].result = attempt[j].result
        /\ job[j].state = "dispatched" => mem[j].lease = attempt[j].lease

(* queue/__init__.py:30-37: with one prompt_id per job and not per attempt, a
   job that runs after a new claim never shows the prompt of the attempt
   before, because mark_running cleared it. *)
NoStalePromptWhileRunning ==
    ~revived => \A j \in Jobs :
        (job[j].state = "running" /\ Attempted(j))
            => mem[j].prompt \in {NoPrompt, attempt[j].prompt}

=============================================================================
