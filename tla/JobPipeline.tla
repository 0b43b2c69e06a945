----------------------------- MODULE JobPipeline -----------------------------
(***************************************************************************)
(* The processes around the job queue: the API (enqueue, cancel), the      *)
(* scheduler's ticks and dispatch tasks (services/scheduler.py), the       *)
(* reconciler's passes (services/reconciler.py), and the backends that     *)
(* run prompts, as adapters/comfyui/live.py sees them.                     *)
(*                                                                         *)
(* A process keeps between two awaits what the code keeps in locals: a     *)
(* tick the rooms it computed, a task the job it was handed, a pass the    *)
(* rows list_active returned, an answer the row it asked about.  Each      *)
(* await is the end of an action.  A crash loses those locals and nothing  *)
(* else: it is TickFails, TaskDies, Skip and SkipRow, one for each local.  *)
(***************************************************************************)
EXTENDS Naturals, FiniteSets

CONSTANTS
    Jobs, Users, Lanes, OwnerOf, LaneOf, NoPrompt, MaxActivePerUser,
    GpuLanes,           \* lanes of ComfyUI servers, watched by the heartbeat
    CloudLanes,         \* lanes whose submit is the whole generation (Gemini, OpenRouter)
    Slots,              \* per lane: default_comfy_active_slots + comfy_pending_buffer,
                        \* default_gemini_active_slots
    MaxAttempts,        \* generation_jobs.max_attempts
    Schedulers,
    Reconcilers,
    SlowDispatch,       \* can a dispatch outlive the 120 s lease it holds?
    DispatchFaults,     \* bound: a dispatch raises only below this attempt count
    AttemptBound        \* bound: attempt numbers a job can reach in the instance

ASSUME PipelineAssumption ==
    /\ Jobs \subseteq Nat
    /\ IsFiniteSet(Jobs)
    /\ OwnerOf \in [Jobs -> Users]
    /\ LaneOf \in [Jobs -> Lanes]
    /\ MaxActivePerUser \in Nat
    /\ GpuLanes \subseteq Lanes
    /\ CloudLanes \subseteq Lanes \ GpuLanes
    /\ Slots \in [Lanes -> Nat]
    /\ MaxAttempts \in Nat \ {0}
    /\ SlowDispatch \in BOOLEAN
    /\ DispatchFaults \in Nat
    /\ AttemptBound \in Nat \ {0}

VARIABLES
    job, attempt,   \* the rows, as in JobQueue
    lane,           \* per lane: is the server up, does its worker row say online
    prompt,         \* what the backend knows of each prompt
    tick,           \* per scheduler: rooms still to be claimed for, jobs claimed
    task,           \* the dispatch tasks in flight
    pass,           \* per reconciler: the rows still to look at
    answer          \* per reconciler: the row asked about, with the status

queueVars == <<job, attempt>>
vars      == <<job, attempt, lane, prompt, tick, task, pass, answer>>

(* A claim opens one attempt and its task submits once, so the job and the
   attempt's number identify what a submit returns. *)
PromptIds == Jobs \X (1..AttemptBound)

ASSUME NoPromptAssumption == NoPrompt \notin PromptIds

Q == INSTANCE JobQueue WITH Prompts <- PromptIds, RetryBound <- AttemptBound

(* "rejected" is an id minted by the client itself: the submit failed, or
   its answer was lost while the server runs something nobody asks about. *)
PromptStates == {"none", "running", "succeeded", "failed", "rejected", "forgotten"}

Idle     == [room |-> << >>, claimed |-> {}]
NoAnswer == [status |-> "none"]

Handle   == [job : Jobs, no : 1..AttemptBound]
Task     == [job : Jobs, no : 1..AttemptBound,
             pc : {"claimed", "submitting", "accepted", "failing"}]
Snapshot == [job : Jobs, current_attempt : 0..AttemptBound,
             prompt : PromptIds \cup {NoPrompt}, expired : BOOLEAN]
Answer   == [row : Snapshot, status : {"running", "succeeded", "failed", "unknown"}]

TypeOK ==
    /\ Q!TypeOK
    /\ lane \in [Lanes -> [up : BOOLEAN, online : BOOLEAN, outages : 0..1]]
    /\ prompt \in [PromptIds -> PromptStates]
    /\ \A s \in Schedulers : /\ DOMAIN tick[s].room \subseteq Lanes
                             /\ tick[s].claimed \subseteq Handle
    /\ task \subseteq Task
    /\ pass \in [Reconcilers -> SUBSET Snapshot]
    /\ answer \in [Reconcilers -> {NoAnswer} \cup Answer]

Init ==
    /\ Q!Init
    /\ lane = [l \in Lanes |-> [up |-> TRUE, online |-> TRUE, outages |-> 0]]
    /\ prompt = [p \in PromptIds |-> "none"]
    /\ tick = [s \in Schedulers |-> Idle]
    /\ task = {}
    /\ pass = [r \in Reconcilers |-> {}]
    /\ answer = [r \in Reconcilers |-> NoAnswer]

-----------------------------------------------------------------------------
(* The API and the clock. *)
RowsOnly == UNCHANGED <<lane, prompt, tick, task, pass, answer>>

Enqueue(j) == Q!Enqueue(j) /\ RowsOnly

Cancel(j) == Q!Cancel(j) /\ RowsOnly

(* A dispatch begins when its job is claimed. *)
InFlight       == task \cup UNION {tick[s].claimed : s \in Schedulers}
Dispatching(j) == \E t \in InFlight : t.job = j

LeaseExpires(j) ==
    /\ SlowDispatch \/ ~Dispatching(j)
    /\ Q!LeaseExpires(j)
    /\ RowsOnly

BackoffElapses(j) == Q!BackoffElapses(j) /\ RowsOnly

-----------------------------------------------------------------------------
(* A scheduler's tick: read the rooms, claim lane by lane, start the tasks. *)
FreeSlots(l) ==
    LET active == Cardinality(Q!ActiveIn(l))
    IN  IF active < Slots[l] THEN Slots[l] - active ELSE 0

(* Mutant: the capacity of the configuration, not what is left of it. *)
BudgetIgnoringActive(l) ==
    IF l \in GpuLanes /\ ~lane[l].online THEN 0 ELSE Slots[l]

Budget(l) ==
    IF l \in GpuLanes /\ ~lane[l].online THEN 0 ELSE FreeSlots(l)

(* The lanes share no job, so one step stands for the reads of both. *)
Reserve(s) ==
    /\ tick[s] = Idle
    /\ tick' = [tick EXCEPT ![s].room = [l \in Lanes |-> Budget(l)]]
    /\ UNCHANGED <<queueVars, lane, prompt, task, pass, answer>>

NewTasks(handles) == {[job |-> h.job, no |-> h.no, pc |-> "claimed"] : h \in handles}

(* The tasks exist only when every lane's claim has come back. *)
ClaimLane(s, l) ==
    LET room == tick[s].room
    IN  /\ l \in DOMAIN room
        /\ \E C \in SUBSET Q!Eligible(l) :
              LET handles == tick[s].claimed
                               \cup {[job |-> j, no |-> job[j].current_attempt + 1] : j \in C}
                  left    == DOMAIN room \ {l}
              IN  /\ Q!IsBatch(C, l, room[l])
                  /\ Q!Claim(C)
                  /\ IF left = {}
                     THEN /\ task' = task \cup NewTasks(handles)
                          /\ tick' = [tick EXCEPT ![s] = Idle]
                     ELSE /\ tick' = [tick EXCEPT ![s] = [room    |-> [k \in left |-> room[k]],
                                                          claimed |-> handles]]
                          /\ UNCHANGED task
        /\ UNCHANGED <<lane, prompt, pass, answer>>

(* A claim raises, or the process stops: what was claimed before is stranded
   until its lease runs out. *)
TickFails(s) ==
    /\ tick[s] # Idle
    /\ tick' = [tick EXCEPT ![s] = Idle]
    /\ UNCHANGED <<queueVars, lane, prompt, task, pass, answer>>

(* comfy_workers.status follows what the worker answered. *)
Heartbeat(l) ==
    /\ l \in GpuLanes
    /\ lane[l].online # lane[l].up
    /\ lane' = [lane EXCEPT ![l].online = lane[l].up]
    /\ UNCHANGED <<queueVars, prompt, tick, task, pass, answer>>

-----------------------------------------------------------------------------
(* A retry, up to the bound of the instance. *)
Retry(j) == job[j].current_attempt + 1 < AttemptBound /\ Q!MarkRetryWait(j)

(* A dispatch task: mark_running, submit, set_prompt_id, each an await. *)
Move(t, pc) == task' = (task \ {t}) \cup {[t EXCEPT !.pc = pc]}

StartRun(t) ==
    /\ t.pc = "claimed"
    /\ Q!MarkRunning(t.job)
    /\ Move(t, "submitting")
    /\ UNCHANGED <<lane, prompt, tick, pass, answer>>

(* The client never raises on a refused or lost request: it returns an id
   that already stands for a failure.  A cloud client generates and stores
   the image before it returns. *)
SubmitOutcomes(l) ==
    IF l \in CloudLanes
    THEN {"succeeded", "failed"}
    ELSE {"rejected"} \cup (IF lane[l].up THEN {"running"} ELSE {})

Submit(t) ==
    /\ t.pc = "submitting"
    /\ \E s \in SubmitOutcomes(LaneOf[t.job]) :
          prompt' = [prompt EXCEPT ![<<t.job, t.no>>] = s]
    /\ Move(t, "accepted")
    /\ UNCHANGED <<queueVars, lane, tick, pass, answer>>

Record(t) ==
    /\ t.pc = "accepted"
    /\ Q!SetPromptId(t.job, <<t.job, t.no>>)
    /\ task' = task \ {t}
    /\ UNCHANGED <<lane, prompt, tick, pass, answer>>

(* Any of the three awaits raises. *)
DispatchError(t) ==
    /\ t.pc # "failing"
    /\ job[t.job].current_attempt < DispatchFaults
    /\ Move(t, "failing")
    /\ UNCHANGED <<queueVars, lane, prompt, tick, pass, answer>>

(* Mutant: the job is put back as a new one, uncounted. *)
RequeueAsNew(t) ==
    /\ t.pc = "failing"
    /\ job' = [job EXCEPT ![t.job] = [@ EXCEPT !.state = "queued", !.due = TRUE]]
    /\ task' = task \ {t}
    /\ UNCHANGED <<attempt, lane, prompt, tick, pass, answer>>

(* The handler of the error.  It does not look at max_attempts. *)
Requeue(t) ==
    /\ t.pc = "failing"
    /\ Retry(t.job)
    /\ task' = task \ {t}
    /\ UNCHANGED <<lane, prompt, tick, pass, answer>>

(* The process stops, or the handler raises as well. *)
TaskDies(t) ==
    /\ task' = task \ {t}
    /\ UNCHANGED <<queueVars, lane, prompt, tick, pass, answer>>

-----------------------------------------------------------------------------
(* The backends.  What happens to a prompt nobody will ask about any more
   cannot be seen and is left out. *)
Watched(p) ==
    \/ attempt[p[1]].prompt = p
    \/ \E t \in task : <<t.job, t.no>> = p
    \/ \E r \in Reconcilers : \E row \in pass[r] : row.prompt = p

Finishes(p) ==
    /\ prompt[p] = "running" /\ Watched(p)
    /\ \E s \in {"succeeded", "failed"} : prompt' = [prompt EXCEPT ![p] = s]
    /\ UNCHANGED <<queueVars, lane, tick, task, pass, answer>>

(* A restarted ComfyUI has neither the queue nor the history it had. *)
Forgets(p) ==
    /\ LaneOf[p[1]] \notin CloudLanes
    /\ prompt[p] \in {"running", "succeeded", "failed"} /\ Watched(p)
    /\ prompt' = [prompt EXCEPT ![p] = "forgotten"]
    /\ UNCHANGED <<queueVars, lane, tick, task, pass, answer>>

(* One outage per lane. *)
GoesDown(l) ==
    /\ l \in GpuLanes
    /\ lane[l].up /\ lane[l].outages = 0
    /\ lane' = [lane EXCEPT ![l].up = FALSE, ![l].outages = 1]
    /\ UNCHANGED <<queueVars, prompt, tick, task, pass, answer>>

ComesBack(l) ==
    /\ ~lane[l].up
    /\ lane' = [lane EXCEPT ![l].up = TRUE]
    /\ UNCHANGED <<queueVars, prompt, tick, task, pass, answer>>

(* What get_status answers when every request of it is served. *)
PolledStatus(p) ==
    CASE prompt[p] = "rejected"  -> "failed"
      [] prompt[p] = "forgotten" -> "unknown"
      [] OTHER                   -> prompt[p]

(* The outcome of a cloud image is in the memory of the scheduler's client.
   The reconciler's own client never saw the id and calls it failed. *)
StatusOf(p) == IF LaneOf[p[1]] \in CloudLanes THEN "failed" ELSE PolledStatus(p)

-----------------------------------------------------------------------------
(* A reconciler's pass. *)
SnapshotOf(j) ==
    [job             |-> j,
     current_attempt |-> job[j].current_attempt,
     prompt          |-> attempt[j].prompt,
     expired         |-> attempt[j].lease = "expired"]

ListActive(r) ==
    /\ pass[r] = {}
    /\ answer[r] = NoAnswer
    /\ pass' = [pass EXCEPT ![r] = {SnapshotOf(j) : j \in {i \in Jobs : Q!Active(i)}}]
    /\ UNCHANGED <<queueVars, lane, prompt, tick, task, answer>>

(* Mutant: the attempt's number is counted from one twice. *)
RetryableCountingTwice(row) == row.current_attempt + 2 < MaxAttempts

(* comfy_transient and worker_lease_expired are both retryable codes. *)
Retryable(row) == row.current_attempt + 1 < MaxAttempts

FailOrRetry(row) == IF Retryable(row) THEN Retry(row.job) ELSE Q!MarkFailed(row.job)

(* An id of the client's own is read without a request. *)
NeedsServer(p) == prompt[p] # "rejected" /\ LaneOf[p[1]] \notin CloudLanes

Poll(r, row) ==
    /\ answer[r] = NoAnswer
    /\ row.prompt # NoPrompt
    /\ NeedsServer(row.prompt) => lane[LaneOf[row.job]].up
    /\ answer' = [answer EXCEPT ![r] = [row |-> row, status |-> StatusOf(row.prompt)]]
    /\ pass' = [pass EXCEPT ![r] = @ \ {row}]
    /\ UNCHANGED <<queueVars, lane, prompt, tick, task>>

(* get_status reads the history, then the queue.  A prompt that ends in
   between is in neither of them, and "unknown" like a lost one. *)
PollMisses(r, row) ==
    LET p == row.prompt
    IN  /\ answer[r] = NoAnswer
        /\ p # NoPrompt
        /\ prompt[p] = "running" /\ LaneOf[row.job] \notin CloudLanes /\ lane[LaneOf[row.job]].up
        /\ \E s \in {"succeeded", "failed"} : prompt' = [prompt EXCEPT ![p] = s]
        /\ answer' = [answer EXCEPT ![r] = [row |-> row, status |-> "unknown"]]
        /\ pass' = [pass EXCEPT ![r] = @ \ {row}]
        /\ UNCHANGED <<queueVars, lane, tick, task>>

(* Mutant: a request that fails is taken for a prompt that failed. *)
PollFailsAsFailed(r, row) ==
    /\ answer[r] = NoAnswer
    /\ row.prompt # NoPrompt /\ NeedsServer(row.prompt)
    /\ answer' = [answer EXCEPT ![r] = [row |-> row, status |-> "failed"]]
    /\ pass' = [pass EXCEPT ![r] = @ \ {row}]
    /\ UNCHANGED <<queueVars, lane, prompt, tick, task>>

(* A request of get_status fails, with the server down or up, or an image of
   the prompt cannot be fetched and stored: "running", whatever is true. *)
PollFails(r, row) ==
    /\ answer[r] = NoAnswer
    /\ row.prompt # NoPrompt /\ NeedsServer(row.prompt)
    /\ answer' = [answer EXCEPT ![r] = [row |-> row, status |-> "running"]]
    /\ pass' = [pass EXCEPT ![r] = @ \ {row}]
    /\ UNCHANGED <<queueVars, lane, prompt, tick, task>>

(* Mutant: a prompt the server has lost keeps its lease like a running one. *)
ResolveRenewingUnknown(r) ==
    LET row == answer[r].row
    IN  /\ CASE answer[r].status = "succeeded"             -> Q!MarkSucceeded(row.job, row.prompt)
             [] answer[r].status \in {"running", "unknown"} -> Q!RenewLease(row.job)
             [] answer[r].status = "failed"                -> FailOrRetry(row)
        /\ answer' = [answer EXCEPT ![r] = NoAnswer]
        /\ UNCHANGED <<lane, prompt, tick, task, pass>>

Resolve(r) ==
    LET row == answer[r].row
    IN  /\ CASE answer[r].status = "succeeded" -> Q!MarkSucceeded(row.job, row.prompt)
             [] answer[r].status = "running"   -> Q!RenewLease(row.job)
             [] answer[r].status = "unknown"   -> IF row.expired THEN FailOrRetry(row)
                                                                 ELSE UNCHANGED queueVars
             [] answer[r].status = "failed"    -> FailOrRetry(row)
        /\ answer' = [answer EXCEPT ![r] = NoAnswer]
        /\ UNCHANGED <<lane, prompt, tick, task, pass>>

(* Mutant: a row with no prompt is given up without waiting for its lease. *)
ResolveUnpromptedAtOnce(r, row) ==
    /\ answer[r] = NoAnswer
    /\ row.prompt = NoPrompt
    /\ FailOrRetry(row)
    /\ pass' = [pass EXCEPT ![r] = @ \ {row}]
    /\ UNCHANGED <<lane, prompt, tick, task, answer>>

ResolveUnprompted(r, row) ==
    /\ answer[r] = NoAnswer
    /\ row.prompt = NoPrompt
    /\ IF row.expired THEN FailOrRetry(row) ELSE UNCHANGED queueVars
    /\ pass' = [pass EXCEPT ![r] = @ \ {row}]
    /\ UNCHANGED <<lane, prompt, tick, task, answer>>

(* The write about an answer raises: the pass goes on with the next row. *)
Skip(r) ==
    /\ answer[r] # NoAnswer
    /\ answer' = [answer EXCEPT ![r] = NoAnswer]
    /\ UNCHANGED <<queueVars, lane, prompt, tick, task, pass>>

(* The same about a row with no answer: the poll raised outside its own try,
   or the write about a row with no prompt did.  A crash skips every row. *)
SkipRow(r, row) ==
    /\ answer[r] = NoAnswer
    /\ pass' = [pass EXCEPT ![r] = @ \ {row}]
    /\ UNCHANGED <<queueVars, lane, prompt, tick, task, answer>>

(* What a pass may do with one of its rows. *)
ReconcileJob(r, row) ==
    \/ Poll(r, row) \/ PollMisses(r, row) \/ PollFails(r, row)
    \/ ResolveUnprompted(r, row) \/ SkipRow(r, row)

-----------------------------------------------------------------------------
Next ==
    \/ \E j \in Jobs : Enqueue(j) \/ Cancel(j) \/ LeaseExpires(j) \/ BackoffElapses(j)
    \/ \E s \in Schedulers : Reserve(s) \/ TickFails(s) \/ \E l \in Lanes : ClaimLane(s, l)
    \/ \E t \in task : \/ StartRun(t) \/ Submit(t) \/ Record(t)
                       \/ DispatchError(t) \/ Requeue(t) \/ TaskDies(t)
    \/ \E l \in Lanes : Heartbeat(l) \/ GoesDown(l) \/ ComesBack(l)
    \/ \E p \in PromptIds : Finishes(p) \/ Forgets(p)
    \/ \E r \in Reconcilers :
          \/ ListActive(r) \/ Skip(r)
          \/ answer[r] # NoAnswer /\ Resolve(r)
          \/ \E row \in pass[r] : ReconcileJob(r, row)

Spec == Init /\ [][Next]_vars

(***************************************************************************)
(* Fairness.  Every process runs its loop for ever and time passes, so     *)
(* each of their actions is weakly fair.  What a loop comes back to again  *)
(* and again, a claim, a question about a job, a decision on it, does not  *)
(* raise there every time: those are strongly fair.  A server that is down *)
(* is repaired, and one that runs a prompt finishes it or forgets it.      *)
(* Nothing is assumed of users, of faults, or of how long a claimed task   *)
(* or a lease lives.                                                       *)
(***************************************************************************)
Asks(r, j) ==
    \E row \in pass[r] :
        row.job = j /\ (Poll(r, row) \/ PollMisses(r, row) \/ PollFails(r, row))

Decides(r, j) ==
    \/ answer[r] # NoAnswer /\ answer[r].row.job = j /\ Resolve(r)
    \/ \E row \in pass[r] : row.job = j /\ row.expired /\ ResolveUnprompted(r, row)

ProcessFairness ==
    /\ \A s \in Schedulers :
          /\ WF_vars(Reserve(s))
          /\ \A l \in Lanes : SF_vars(ClaimLane(s, l))
    /\ \A j \in Jobs :
          /\ WF_vars(LeaseExpires(j))
          /\ WF_vars(BackoffElapses(j))
          /\ WF_vars(\E t \in task : t.job = j /\ (StartRun(t) \/ Submit(t) \/ Record(t) \/ Requeue(t)))
    /\ \A l \in Lanes : WF_vars(Heartbeat(l))
    /\ \A p \in PromptIds : WF_vars(Finishes(p))
    /\ \A r \in Reconcilers :
          /\ WF_vars(ListActive(r))
          /\ WF_vars(\E row \in pass[r] : ReconcileJob(r, row))
          /\ \A j \in Jobs : SF_vars(Asks(r, j)) /\ SF_vars(Decides(r, j))

(* A server comes back, and its answers stop getting lost.  A failed poll of a
   prompt that does run is the same step as a served one, and harmless. *)
RepairFairness ==
    /\ \A l \in Lanes : WF_vars(ComesBack(l))
    /\ \A r \in Reconcilers :
          <>[][\A row \in pass[r] : PollFails(r, row) => prompt[row.prompt] = "running"]_vars

FairSpec == Spec /\ ProcessFairness /\ RepairFairness

-----------------------------------------------------------------------------
(* Properties of a pipeline with one scheduler and one reconciler, whose
   dispatches end before their leases. *)

(* scheduler.py:151-173: a task works on the attempt it claimed.  No other
   task has the job, no later attempt was opened, and nobody sent the job
   back to wait: it is active, or its user cancelled it. *)
DispatchOwnsAttempt ==
    \A t \in InFlight :
        /\ \A u \in InFlight : u.job = t.job => u = t
        /\ attempt[t.job].no = t.no
        /\ attempt[t.job].prompt = NoPrompt
        /\ job[t.job].current_attempt + 1 = t.no
        /\ Q!Active(t.job) \/ job[t.job].state = "cancelled"

(* postgres.py:33-39: the prompt recorded on an attempt is the one its own
   dispatch submitted, never one of an attempt before or after it. *)
PromptOfAttempt ==
    \A j \in Jobs : attempt[j].prompt \in {NoPrompt, <<j, attempt[j].no>>}

(* scheduler.py:90-149: a lane never runs more jobs than it has slots, though
   the rooms of a tick are read before its claims and jobs end, are retried
   and are cancelled in between. *)
SlotsHold == \A l \in Lanes : Cardinality(Q!ActiveIn(l)) <= Slots[l]

-----------------------------------------------------------------------------
(* Properties of any pipeline: several processes, and dispatches that outlive
   their leases. *)

(* queue/__init__.py:41-47: a late reconciliation cannot make a success of
   something else.  A succeeded job carries the result of a prompt submitted
   for it, which the backend did finish, and no error. *)
SucceededIsGenuine ==
    \A j \in Jobs : job[j].state = "succeeded" =>
        /\ ~job[j].error
        /\ attempt[j].result # NoPrompt
        /\ attempt[j].result[1] = j
        /\ prompt[attempt[j].result] \in {"succeeded", "forgotten"}

(* retry.py:28-33: the decision to give up is taken on a row read before the
   backend was asked.  However old it is, no job fails before its count of
   retries reached the limit. *)
FailedOnlyAtBudget ==
    \A j \in Jobs : job[j].state = "failed" => job[j].current_attempt + 1 >= MaxAttempts

(* reconciler.py:1-3: an active job has an attempt with a lease, so a pass can
   tell when its worker is gone, whoever died and whatever came late. *)
ActiveIsRecoverable ==
    \A j \in Jobs : Q!Active(j) => attempt[j].no > 0 /\ attempt[j].lease # "none"

(* Every step of the processes is an operation of JobQueue, in the way that
   module describes it, so what is proved of the queue holds here. *)
ImplementsQueue == Q!Spec

-----------------------------------------------------------------------------
(* Liveness. *)

(* scheduler.py:1-30 and reconciler.py:1-4: every job that was admitted ends,
   through crashes, lost prompts, outages and failed claims. *)
EveryJobEnds == \A j \in Jobs : Q!Exists(j) ~> Q!Terminal(j)

-----------------------------------------------------------------------------
(* What comments and tests say and the code does not do. *)

(* queue/__init__.py:7-10: at most max_attempts dispatches of a job. *)
AttemptsWithinBudget == \A j \in Jobs : attempt[j].no <= MaxAttempts

(* gemini.py:484-487: get_status "always" finds what submit stored, so an id
   is failed only when its generation failed.  True of ComfyUI's prompts. *)
FailureIsGenuine ==
    \A r \in Reconcilers :
        answer[r].status = "failed"
            => prompt[answer[r].row.prompt] \in {"failed", "rejected", "forgotten"}

=============================================================================
