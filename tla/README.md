# A TLA+ development of Imagin4's generation pipeline

Imagin4 takes a customer's request for an image, stores it as a *generation
job*, and has it executed by one of several backends (self-hosted ComfyUI
workers, Gemini, OpenRouter). The hard part is the path from the stored job to
its end: several processes share one table, leases decide who may touch a job,
backends are asked for an outcome long after they were given the work, and users
cancel at any moment. This directory models that path, checks it with TLC and
proves its safety properties with TLAPS. Paths below are relative to
`src/backend/app/` unless they start with `src/`.

## 1. Inventory of the system

| Component | State it keeps | Operations | Talks to |
|---|---|---|---|
| Job queue port, `adapters/queue/__init__.py` | none (Protocol) | enqueue, claim, `mark_*`, `renew_lease`, `set_prompt_id`, cancel, counts | — |
| `PostgresJobQueue`, `adapters/queue/postgres.py` | `generation_jobs`, `job_attempts` | the Protocol, one transaction each | the API, scheduler and reconciler processes |
| `InMemoryJobQueue`, same file as the port | a dictionary of shared job objects | the Protocol | tests and local development |
| Scheduler, `services/scheduler.py` | tasks in flight, current tick | tick (capacity, claims, tasks), dispatch, heartbeat | queue, backends, `comfy_workers` |
| Reconciler, `services/reconciler.py` | the rows of its pass | pass over active jobs: poll, resolve, fail or retry | queue, backends |
| ComfyUI client, `adapters/comfyui/live.py` | `_resolved`: outcomes this process saw | submit, get_status, cancel (no caller) | ComfyUI `/prompt`, `/history`, `/queue`; object storage |
| Multi-worker and routing clients, `adapters/comfyui/multi_worker.py`, `adapters/routing_comfyui.py` | next worker | choose a worker, tag and parse ids | the clients |
| Gemini, OpenRouter, Qwen clients | results per process | image and chat calls | external APIs |
| Admission, `domain/jobs/admission.py` | — | idempotency, caps, enqueue | queue |
| Job API, `api/v1/jobs.py` | — | cancel, reads | queue |
| Pending actions, `api/v1/chat_router.py` | `pending_actions` | confirm, cancel, expire (nothing proposes) | admission |
| Chat routing, `domain/chat/` | — | decide between reply, job, paid proposal | Gemini/Qwen |
| Conversations, `api/v1/conversations.py` | `chat_messages` | append, assistant reply, page | Gemini |
| Sessions, API keys, `api/v1/auth.py`, `domain/auth/` | `auth_sessions`, `api_keys` | login, refresh, logout, logout-all | every request |
| Rate limit, admission gate, `core/rate_limit.py` | Redis counters | incr/expire, acquire/release | Redis |
| Pure policies: `domain/jobs/{retry,state_machine,fairness,workflow_registry,comfy_overrides}.py`, `domain/workers/scoring.py` | — | functions | — |
| Object storage, wiring, frontend | — | pure I/O, or clients of the API | — |

What makes the first six correct: a finished job stays as it ended; each claim
opens a fresh attempt; caps and slots hold; a success is a result some backend
really produced; nothing fails before its retries are used up; and every admitted
job ends. For the others: a confirmed paid action has one job (pending actions),
one key has one job and the caps hold (admission), message numbers are unique
and dense (conversations), a revoked session never authorises a request
(sessions), the gate's counter equals the requests in flight (admission gate),
an id is resolved by the worker that issued it (multi-worker).

What makes them hard is listed, line by line, under `hazards` in PROJECT.json.
The recurring shapes are: a row read in one transaction and acted on in another;
a `mark_*` call that is late; a lease that runs out while its holder lives; a
process that stops between two awaits; an answer kept by the wrong process.

## 2. The modules

```
JobLifecycle        what the port promises of one job (abstract)
   ^  implemented by (refinement: PhaseOf, current_attempt)
JobQueue            PostgresJobQueue, arbitrary callers      JobQueueProofs
   ^  implemented by (same variables)     ^  compared with
   |                                  MemoryQueue   InMemoryJobQueue
   |                                                         MemoryQueueProofs
JobPipeline         API + scheduler + reconciler + backends around the queue
                                                             JobPipelineProofs
                        the backends of which, seen from the clients, are
ImageClients        the clients of each process, their ids and caches
                                                             ImageClientsProofs

Admission           how a request becomes a row of that table AdmissionProofs
   ^  implemented by (same variables)
   |-- PendingActions   confirm and cancel of a paid action  PendingActionsProofs
   |-- SmartMessage     a chat message, stored and routed, that may ask for
                        admission                            SmartMessageProofs

RequestAccess       what a request passes first: gate, rate limit, session
                                                             RequestAccessProofs

MCJobQueue (with MemoryQueue), MCJobPipeline, MCImageClients, MCPendingActions
(with Admission), MCSmartMessage, MCRequestAccess: the instances TLC checks
```

### JobLifecycle

Per job a *phase* and the number of *retries*. A job is submitted, starts,
may be sent back to wait (one retry each time), and finishes once. It says
nothing of rows, leases, attempts or order.

### JobQueue

`job[j]` is the row of `generation_jobs`: `state`, `current_attempt`, whether an
error code is stored, and `due`, whether `available_at` has passed. `attempt[j]`
is the row of `job_attempts` with the highest `attempt_no`. Every read
(`_SELECT_JOB_WITH_LATEST_ATTEMPT`) joins that row and every write
(`_update_latest_attempt`, `set_prompt_id`, `renew_lease`) goes to it, so older
rows are never seen again and are not kept. `lease` is *none*, *live* or
*expired*; `result` names the prompt whose outputs were stored, which stands for
the outputs.

Each public method is one action, because each is one transaction. A conditional
`UPDATE ... WHERE state NOT IN :terminal` that matches no row leaves everything
unchanged, and the action is then a stutter and not disabled, as in the code:
callers do not look first. `MarkRetryWait` takes `current_attempt` from the row
and not from its caller, as the SQL does.

`IsBatch(C, lane, capacity)` states which set of rows a claim takes. Both paths
of `_claim` go through candidates in the order of effective priority; admission
creates every job with priority 0 and effective priority grows with age, so
that order is the order of `queued_at`, and jobs are numbered by it. With a
per-user cap the code takes one row at a time under an advisory lock, counting
what the transaction already took; the set with that property is unique, and the
model describes it instead of the loop. `FOR UPDATE SKIP LOCKED` does not appear:
the row locks and the advisory lock make two claims of one lane take disjoint
rows, and a claim that skips locked rows is one with a smaller capacity followed
by a later one, except that under concurrent claims a younger job may be taken
together with, not after, an older one.

`Next` lets any caller do anything at any time. What is shown of it holds for
every caller, including ones nobody has written yet.

### MemoryQueue

`mem[j]` is the `QueuedJob` the dictionary of `InMemoryJobQueue` holds. Every
call is made of both queues at once, and the properties compare what a caller
would read. One record per job stands where the database has a row per attempt,
so a new attempt inherits the last one's prompt, result and lease until some call
overwrites them. `mark_running` lacks the look at `_TERMINAL_STATES` that
`mark_succeeded`, `mark_failed` and `mark_retry_wait` have: a job that ended is
revived by it in memory and not in the database. `revived` says that this has
happened; the comparison ends there, and up to there it holds.

### JobPipeline

Who really calls the queue. The rows are those of JobQueue (`Q == INSTANCE
JobQueue`). What a coroutine holds in local variables across an await is a
variable here, and each await ends an action:

| Variable | In the code |
|---|---|
| `lane[l]` | is the ComfyUI server up; does its `comfy_workers` row say online |
| `prompt[p]` | what the backend knows of a prompt; *rejected* is the locally minted failure id of `live.py`, *forgotten* a prompt lost in a server restart |
| `tick[s]` | `_tick`'s `capacity_by_backend` still to be claimed for, and `claimed` |
| `task` | the `_dispatch` tasks: claimed, `mark_running` done, submit answered, error handler |
| `pass[r]` | `run_once`'s `active` list with the rows still to look at, values as read |
| `answer[r]` | the row asked about and the status `get_status` returned, before the write |

| Actions | Code |
|---|---|
| `Enqueue`, `Cancel` | `admission.py` INSERT, `api/v1/jobs.py` cancel |
| `Reserve`, `ClaimLane`, `TickFails`, `Heartbeat` | `scheduler.py` `_reserve_capacity_by_backend`, `_claim_for_backend`, the exception handler of `run_forever`, `_heartbeat_once` |
| `StartRun`, `Submit`, `Record`, `DispatchError`, `Requeue`, `TaskDies` | `_dispatch` and its `except` |
| `ListActive`, `Poll`, `PollMisses`, `PollFails`, `Resolve`, `ResolveUnprompted`, `SkipRow`, `Skip` | `reconciler.py` `run_once`, `_reconcile_job`, `_resolve_via_comfy`, `_fail_or_retry`; `live.py` `get_status` |
| `Finishes`, `Forgets`, `GoesDown`, `ComesBack` | external: the servers |

A crash loses the locals of a process and nothing else, so it needs no action of
its own: losing a tick is `TickFails`, a task `TaskDies`, a pass's answer `Skip`,
and each of its rows still to look at, or one whose write raises, `SkipRow`.
The lanes of `CloudLanes` are Gemini and OpenRouter, whose `submit` is the whole
generation. Their client keeps the outcome in a dictionary of its process, and the
reconciler's client, in a process of its own, calls an id it does not find
*failed*; on those lanes `Poll` therefore answers *failed* whatever became of the
image. `PollMisses` is a prompt that ends between the two requests of one
`get_status`: neither the history nor the queue had it. `PollFails` is a request
of `get_status` that raises, with the server down or for a moment with the server
up: the answer is *running* whatever became of the prompt, and renews the lease.

A submit whose answer is lost and a submit that was refused look the same to the
client, which returns a local failure id in both cases; the prompt the server may
be running then has an id nobody will ever ask about.

`InFlight` is the attempts a dispatch works on: those of the tasks, and those a
tick has claimed and not yet made a task of. `SlowDispatch` says whether a dispatch can outlive the 120 s lease stamped by its
claim. Nothing renews a lease during a dispatch. A ComfyUI submit ends within its
10 s timeout; a Gemini submit makes a design call (30 s) and an image call (90 s)
and then writes to object storage before it returns, so it can.

### ImageClients

The clients inside a scheduler and a reconciler process: `CompositeComfyUIClient`
over `MultiWorkerComfyUIClient` over one `LiveComfyUIClient` per server, and the
client of the cloud. `client[p]` holds what lives in one process: whether it has
a cloud client, the round-robin index, `_resolved` of each worker's client, and
the cloud client's results. `call[i]` is the await a `submit` is at, `id[i]` the
prompt id it returned: a tag and the worker's index, which is all another process
can know. `server[w][i]` is what ComfyUI server `w` knows of a prompt. `poll[q]`
is the await a `get_status` is at, or its answer. `told` and `said` record the
outcomes announced, since the process started and ever.

A process may restart at any moment, and comes back with or without a cloud
client; a server may restart and forget; a submit's request or answer may be lost,
and the building of its graph, which no `try` encloses, may raise (`SubmitRaises`).
A request of `get_status` that fails counts as *running*. Neither class's
`cancel` is modelled, because nothing calls it.

### Admission

`row[k]` is the row of `generation_jobs` with the unique triple `k` of user,
idempotency key and kind, reduced to what admission reads: whether it waits
(`queued`, `retry_wait`) and the hash of its inputs. `request[h]` holds the local
variables of one call of `admit_generation_job`; `pc` is the await it is at.
`Find`, `CountGlobal`, `CountBacklog` and `Insert` are its four awaits, in the
order of the code, each a transaction of its own. An `Insert` that finds the key
stored by another request gets the IntegrityError, which nobody catches: the
answer is a server error. `JobLeaves` and `JobReturns` are the pipeline's part,
any claim, cancellation, end or retry. The position in the queue that the answer
carries is left out.

### PendingActions

`action[a]` is the row of `pending_actions`: its status, whether it has expired,
whether `resulting_job_id` is set. `handling[h]` is where a confirm or a cancel
is; the same handlers also make plain generation requests, on the other keys.
`BeginConfirm` reads the row once and decides (`evaluate_confirmation`);
`Consume` is the conditional UPDATE with its commit, after which the handler goes
through Admission's own actions; `Recheck` is what the loser of the UPDATE does;
`RecordJob` writes the job's id. `interrupted` is the set of actions whose
confirm failed, or was refused by admission, after the commit. Nothing creates
pending actions at this commit: the instances start with pending rows, which
earlier versions left and both endpoints still serve.

### RequestAccess

`counter` is the key `admission:inflight` with its expiry, `window` the current
rate window's count, `request[r]` the dependency a request has reached, and
`session[t]` the row of a token. A generation request passes `Incr`, `Expire` and
perhaps `Refuse` of the gate, `Authenticate`, `CheckRate`, its handler, and
`Release` in the gate's `finally`. Any call to Redis may raise with or without
having had its effect; the gate then lets the request in and still releases at
its end. A `check_rate_limit` that fails lets the request in too, counted or not.
The key may expire at any moment. A request may die at any await.
`unseen` and `leaked` count what the gate cannot know since the key was last
made. The endpoints of `auth.py` are actions of one commit each, except
`logout-all`, whose UPDATE finds its rows before it commits: a refresh in between
is possible, and `reach` are the rows it found. A request with an API key has no
session; the key's own row is an operator's to change, and its revocation is the
choice in `Authenticate`.

### SmartMessage

`message` is `chat_messages`, without the text; a user's message is known by its
`client_message_id`. Those in `Anonymous` came without one: the column stays empty,
no look finds them, and each is a message of its own, received once (`sent`), as
nobody can tell it was sent again. `lock[c]` is the row lock on a conversation (`SELECT ... FOR
UPDATE`) and `chat[h]` what a handler holds. `LookUp`, `Lock` and `Write` are the
awaits of `_append_message`: look for the message, lock the conversation and read
its highest number, insert and commit. They serve the user's message and the
assistant's reply alike. `RouteToReply` and `RouteToJob` are the language model's
verdict and what `decide_next_step` makes of it: the verdict of each call is a
choice, as nothing makes a model repeat itself; `assume_image`, which skips the
model, is a verdict that never changes. The job's key is derived from the message
and the kind, and the job is admitted by Admission's own actions (`A == INSTANCE
Admission`). `Fail` is everything that ends a request early; the session of the
request is closed with it and an open transaction rolled back. After an
IntegrityError the code reads attributes of a row the rollback has expired; if
SQLAlchemy refuses that, it is a `Fail` at `route`, which the model allows too.

## 3. What TLC checks

Run lengths are for two workers.

| Run | Instance | Shows |
|---|---|---|
| `job_queue` | 2 jobs of one user, one lane, cap 1, 2 prompt ids, 2 retries counted; any caller, both queues | `ParityTypeOK`, `TerminalIsFinal`, `ClaimOpensNewAttempt`, `AttemptsCounted`, `ClaimRespectsUserCap`, refinement of JobLifecycle, `MemoryAgrees`, `NoStalePromptWhileRunning` |
| `pipeline_prompt` | 2 jobs, 1 slot, 1 scheduler, 1 reconciler, dispatches end before their leases, attempts up to 3 | `DispatchOwnsAttempt`, `PromptOfAttempt`, `SlotsHold`, `FailureIsGenuine` of ComfyUI's prompts |
| `pipeline_slow` | 1 job, 2 schedulers with 2 lanes each, 1 reconciler, dispatches outlive leases, attempts up to 4 | `SucceededIsGenuine`, `FailedOnlyAtBudget`, `ActiveIsRecoverable`, `ImplementsQueue` |
| `pipeline_live` | 1 job, ComfyUI lane with one outage, failing polls, 3 attempts, a dispatch error, fairness | `EveryJobEnds` |
| `image_clients` | 2 processes, 2 servers, 3 images: one of ComfyUI, one of the cloud, one without a prompt | `AnswersAgree`, `SuccessIsGenuine`, `UnknownIsNotAtWork`, `OutcomeIsKept` |
| `pending_actions` | 2 handlers, 1 action, 2 other keys of the same user (1 in the action's conversation), 2 payloads, cap 1 per conversation or user, 2 in all | `ConfirmTypeOK`, `OnlyConfirmedHaveJobs`, `AdmittedOnce`, `AnswersAreTrue`, `StuckOnlyIfInterrupted`, `ConfirmImplementsAdmission`; of Admission `AnswerIsTheRequest`, `OvershootBounded` |
| `request_access` | 3 requests, limit 1 at the gate and per window, 2 tokens, API keys for refresh, 1 fault | `InflightBounded`, `CapacityNotLost`, `LogoutAllReaches`, `SessionsAccounted` |
| `smart_message` | 2 handlers, 2 messages of one conversation, one of them without an id, 1 reply stored, 1 prompt, cap 1 | `NoMessageRefused`, `NumberedInOrder`, `LockHolderWrites`, `ImplementsAdmission` |
| `attempt_budget` | 1 job, dispatch errors up to the second count | violates `AttemptsWithinBudget` |
| `stale_prompt` | 1 job, slow dispatch | violates `PromptOfAttempt` |
| `results_lost` | 1 job of a cloud lane | violates `FailureIsGenuine` |
| `message_sent_twice` | 2 handlers, 1 message | violates `OneJobPerMessage` |

**The bounds.** `RetryBound`/`AttemptBound` cap the numbers a job's counters can
reach; the code has no such cap (see findings). `DispatchFaults` lets a dispatch
raise only while the job's count is below it, so that the attempts stay below
`AttemptBound`; retries by the reconciler stop at `MaxAttempts` by themselves.
Two attempts are what "late, on the next attempt" needs, and the passing runs
allow three or four. Two jobs and one slot make capacity, order and cap matter in
one claim. One job suffices where the property is about one job's attempts. Two
lanes in `pipeline_slow` give a tick two claims, so it can fail between them. One
outage per lane separates up, down and up again. The schedulers are symmetric: no
property and no constant names one. Two handlers are the least that race, for a
key, a cap, an action or a lock, and are symmetric too; two keys of one
conversation against a cap of 1 let the jobs exceed it, and the third, outside of
it, is counted by the other branch. Two processes are what it takes for one to
decode what another minted, two servers for an index to be wrong, and one image
of each kind shows the cases: two images share only the round-robin index and a
server's one place to run, and ImageClientsProofs covers any number of them. In `request_access`
three requests against a limit of one let one be refused while another holds the
place and a third comes or goes; `FaultBound` caps the calls that fail and the
requests that die, `Tokens` the sessions that can be issued (a login or a refresh
waits when they are used up), `Tokens` is `1..n`, as `issue_session` never mints a token twice, and
`KeyKinds` restricts the endpoints called with
an API key to the only one where it changes a property. `ReplyBound` caps the assistant's messages, which no
index bounds. Deadlock is not checked, as every job may
have ended and no further request arrive.

**The fairness** (`FairSpec`) says what the two loops' `while not shutdown` and
the passing of time give: each action of a scheduler or task is weakly fair, a pass
goes on to its next row and to another pass, leases and backoffs run out, the
heartbeat runs. Three assumptions are strong: `ClaimLane`, since a tick that fails is
followed by another and the claim does not fail every time, and for each job
`Asks` and `Decides`, since a pass that skips a row meets it again: asking about a
job, and writing what follows from the answer or from the lack of a prompt, do not
raise every time. A verdict on a watched prompt
(`Finishes`; `Forgets` disables it) is an assumption on ComfyUI, not on this code.
Nothing obliges users, faults, or `TaskDies`.

`RepairFairness` is another such assumption: a server that is down comes back
(`ComesBack`), and from some time on the polls of a prompt that is not running no
longer fail. Without either half the property is false: a poll that fails counts as
*running*, the reconciler renews the lease, and the job stays active as long as its
polls fail. A comment of the code promises the contrary; see section 4.

Each property has a mutant in PROJECT.json: a plausible bug in one definition
(a guard dropped, a count off by one, a lease not stamped) that the same run
catches.

## 4. Where the code and its comments disagree

1. **`attempt_budget`.** `adapters/queue/__init__.py:8-10` and
   `src/backend/tests/unit/test_queue_terminal_state_guards.py:3` say a job is
   dispatched at most `max_attempts` times. `_dispatch`'s error handler
   (`scheduler.py:167-173`) retries without comparing the two, and so does the
   queue. A backend whose dispatch keeps raising retries one job for ever.
2. **`stale_prompt`.** `postgres.py:34-37` says one row per attempt "structurally
   eliminates" the stale prompt race. `set_prompt_id` writes the *latest* row,
   so a dispatch that outlives its lease writes its prompt on its successor's
   row. `pipeline_slow` shows what this does not break: the success is still of a
   prompt of that job which finished.
3. **`results_lost`.** `adapters/gemini.py:488-490` says that `get_status` always
   finds what `submit` stored. It looks in a dictionary of its own process, and
   `src/backend/docker-compose.yml` runs the scheduler, which submits, and the
   reconciler, which asks, as two processes. The image is generated and stored,
   and its job fails; every retry pays for another image.
4. **`message_sent_twice`.** `api/v1/chat_router.py:591-593` derives the job's key
   from the `client_message_id` so that a message sent again finds its job. But
   the language model is asked again first (`chat_router.py:442`), and the kind
   and with it the key follow its verdict: a second verdict of the other kind
   makes a second job, and one of the two is paid. A verdict of the same kind in other
   words has the same key and another payload hash, and ends as an
   `IdempotencyConflict`, a server error; `Find` shows it.

Four more are described by properties that hold of what the code does:

- `adapters/comfyui/live.py:560-563` says of a poll that fails that "the reconciler's
  lease-expiry path is what should ultimately fail a job that never recovers". The
  poll's answer is *running* (`live.py:567`), and `reconciler.py` renews the lease of
  a job that runs, so the lease of such a job never expires: while its server does
  not answer, it stays active and keeps its slot. `EveryJobEnds` holds under
  `RepairFairness` only, which says that the failing ends.
- `api/v1/chat_router.py:809-814` and `831-836` promise that a retried confirm
  finds or makes the same job. Once the action is committed as confirmed and
  admission fails, every retry is answered 409. `StuckOnlyIfInterrupted` says how
  far this goes: only a confirm that failed leaves such an action, never a race.
- `core/rate_limit.py:92` says release refreshes the counter's expiry; it does
  not. A release after the key expired makes it anew, below zero and without an
  expiry, until the next acquire; `InflightBounded` counts what this lets in. A
  refused request does refresh it, so while requests are refused a leaked place
  does not heal.
- `adapters/queue/__init__.py:247-249` says that the memory mirrors the real
  queue; `MemoryAgrees` shows it does until `mark_running` (`:341`, the one `mark_*` call
  without the look at `_TERMINAL_STATES`) revives a finished job. Whether that
  happens, and what the memory does from there on, no property says.

## 5. What is proved

Every safety invariant, action property and refinement that a passing run checks
is also a theorem, for every value of the constants. What the theorems assume is
the named assumption of the module, plus, where it is said, a hypothesis in the
theorem itself. Every `[]` theorem has the same shape: an inductive invariant
holds initially, every step keeps it, and it implies the property.

### The job queue

`JobQueueProofs` proves of `JobQueue`, for any sets of users, lanes and prompts,
any finite set of jobs and any cap (`QueueAssumption` asks that constants have
their types and that `NoPrompt` is no prompt):

- `TypeCorrect`: `Spec => []TypeOK`.
- `AttemptsAreCounted`: `Spec => []AttemptsCounted`.
- `FinishedStaysFinished`: `Spec => TerminalIsFinal`.
- `ClaimsOpenNewAttempts`: `Spec => ClaimOpensNewAttempt`.
- `ClaimsRespectUserCap`: `Spec => ClaimRespectsUserCap`.
- `QueueImplementsLifecycle`: `Spec => ImplementsLifecycle`.

*The argument.* `TypeOK /\ AttemptsCounted` is inductive. A claim numbers its
attempt `current_attempt + 1` and inserts with `ON CONFLICT`, so it opens a fresh
row only if no row has that number yet. `AttemptsCounted` says why: an active job
has at most one attempt more than it has counted, and a job becomes claimable
again only through `mark_retry_wait`, which counts it. The third conjunct, that a
job not yet inserted has no attempts, carries the first two through `Enqueue`.
The proof goes operation by operation; facts about a step are stated once per
job (a lemma says that each step of `Next` does to a given job one of a few
things), and the action properties and the refinement are read off that lemma.
Because `TerminalIsFinal` needs no invariant beyond the types, it holds for every
caller however late. For the cap one looks at the youngest of the user's jobs in
the batch (a finite set of numbers has one, which the library's well-foundedness
of finite subsets gives without induction): when it was taken, the user was below
the cap with all his older jobs of the batch counted, and it adds one.

`MemoryQueueProofs` proves of the two queues called side by side, with the same
assumption:

- `ParityIsOfTheQueue`: `ParitySpec => Spec`, so JobQueue's theorems hold here.
- `ParityTypeCorrect`: `ParitySpec => []ParityTypeOK`.
- `MemoryMirrorsTheQueue`: `ParitySpec => []MemoryAgrees`.
- `MemoryShowsNoStalePrompt`: `ParitySpec => []NoStalePromptWhileRunning`.

*The argument.* `ParityInv` relates row, attempt and record of each job (`Match`).
What it adds to the two properties is why an inherited value never shows: only
success leaves a result, and a job that succeeded is not claimed again, so the
record a claim reuses has none; only a claim dispatches, and it stamps the lease
in both; and `mark_running` clears the prompt. Each operation keeps `Match` of its job
until one revives a finished job. A claim is the hard case: both queues choose
their batch, and the choices must be the same. `OneBatch` proves that only one
set satisfies `IsBatch`, which JobQueue asserts in a comment: of two different
ones consider the oldest job in one only; the same jobs are before it in both, so
both take it or both leave it.

### The pipeline

`JobPipelineProofs` proves of `JobPipeline`, for any finite set of jobs and any
users, lanes, slots, schedulers, reconcilers and `MaxAttempts`:

- `PipelineTypeCorrect`, `SuccessIsGenuine`, `NoEarlyFailure`,
  `ActiveCanBeRecovered`: `Spec =>` `[]TypeOK`, `[]SucceededIsGenuine`,
  `[]FailedOnlyAtBudget`, `[]ActiveIsRecoverable`.
- `PipelineImplementsQueue`: `Spec => ImplementsQueue`.
- `PipelineKeepsQueuePromises`: hence JobQueue's `TerminalIsFinal`,
  `ClaimOpensNewAttempt`, `ClaimRespectsUserCap` and its implementation of
  JobLifecycle hold of the processes too.
- `FailuresAreGenuine`: `CloudLanes = {} => (Spec => []FailureIsGenuine)`.
- `DispatchesOwnAttempts`, `PromptsMatchAttempts`:
  `Alone => (Spec => []DispatchOwnsAttempt)` and `[]PromptOfAttempt`.
- `SlotsAreNeverExceeded`: `Alone /\ OneScheduler => (Spec => []SlotsHold)`.

The hypotheses are the conditions under which the runs check the same
properties, and the `violation` runs show that two of them are needed.
`CloudLanes = {}` says that no outcome lives in one process's memory
(`results_lost`). `Alone` says that dispatches end before their leases and that there
is one reconciler (`stale_prompt` drops the first). `OneScheduler` is the
deployment of `src/backend/docker-compose.yml`; the hazard of two is listed.

*The argument.* `Inv` needs no hypothesis. It adds to the types and
`AttemptsCounted` what ties the locals of the processes to the rows: whoever holds
an attempt opened it, and is its only holder (`HandlesOpened`, `OneHolder`); a
prompt anybody may still ask about or store was submitted for that job, on an
attempt nobody holds any more, so no later submit overwrites its status
(`AskedWasReleased`); a row that was read is never ahead of the row it was read
from (`RowsBehind`); and an answer still describes its prompt when it is acted
upon (`AnswersHold`). From the third and the last it follows that a success
stored late is genuine, and from the fourth that a verdict taken on an old row
never fails a job early: the count may only have grown. `FailureIsGenuine` needs
nothing else; without `CloudLanes = {}` the answer itself may be wrong.

`SoloInv` adds the claims of `Alone`: whoever holds an attempt holds the latest,
with a live lease and no prompt yet, and nothing has counted it (`Owned`); a row
the pass may act upon is of a job nobody dispatches (`RowsSettled`), once
(`OneRowPerJob`). Each needs the other: a pass that acted on a dispatched job would let
its attempt be overtaken, and a dispatch of an overtaken attempt would write on a
row the pass has read. `SlotInv` adds that the rooms a tick has left are free
(`RoomIsFree`): with one scheduler nobody else claims on a lane between the read
and the claim. All three go by one description of a step (`Step`, `SoloStep`):
which job's rows changed in which of a few ways, and what that was licensed by.

### Admission and who asks for it

`AdmissionProofs` proves of `Admission`, for any set of keys, infinite ones
included, any owners, conversations, payloads and caps and any finite number of
requests in flight (`AdmissionAssumption`):

- `TypeCorrect`: `Spec => []TypeOK`.
- `AnswersAreOfTheRequest`: `Spec => []AnswerIsTheRequest`.
- `OvershootIsBounded`: `Spec => []OvershootBounded`.

*The argument.* `AnswerIsTheRequest` is inductive given the types: the payload of
a stored row never changes, because `Insert` writes only where there is none, and
a row that agrees with an answer is a stored one. `OvershootBounded` is inductive
with `FewStored`, that only finitely many keys have a row, without which a count
means nothing. A step does one of three things to a cap's two sets, the unclaimed
jobs and the requests that have passed the count: a request passes, and then the
backlog was below the cap and the other requests are at most as many as there
are; a request that had passed stores its job, one more of one and one less of
the other; or neither set grows. That requests are counted from the global count
on, but only from the conversation's count on for its cap, is what makes the
second of these cases hold for both.

`PendingActionsProofs` proves of `PendingActions`, for any actions, handlers,
keys and caps (`ActionAssumption`: distinct actions have distinct keys):

- `ConfirmTypeCorrect`: `ConfirmSpec => []ConfirmTypeOK`.
- `ConfirmIsAdmission`: `ConfirmSpec => ConfirmImplementsAdmission`, the step
  simulation, through which Admission's theorems hold here
  (`ConfirmOvershootIsBounded`).
- `JobsAreConfirmed`, `PaidJobsStartOnce`, `StuckByInterruption`, `AnswersHold`:
  `OnlyConfirmedHaveJobs`, `AdmittedOnce`, `StuckOnlyIfInterrupted`,
  `AnswersAreTrue`.

*The argument.* The inductive invariant `ConfirmInv` adds to the types that a
handler in admission works on the key and the payload of its own action
(`Linked`), that an accepted request finds its own payload, and `OneJob`: for an
action at most one handler is in admission, while one is no job is recorded, and
a recorded job is a stored row of the action's payload. Each step then leaves an
action alone, starts its job or ends its admission (`Effect`). `Consume` starts
it only from *pending*, and no step returns to *pending*, which is why a second
start is impossible; a start by the winner and `interrupted` at every failing end
give `StuckOnlyIfInterrupted`.

`SmartMessageProofs` proves of `SmartMessage`, for any finite set of handlers and
any messages, with or without an id, conversations, prompts and caps (`SmartMessageAssumption`):

- `NoMessageIsRefused`, `MessagesAreNumberedInOrder`, `LockHoldersWrite`:
  `Spec =>` `[]NoMessageRefused`, `[]NumberedInOrder`, `[]LockHolderWrites`.
- `SmartMessageImplementsAdmission`: `Spec => ImplementsAdmission`.
- `SmartMessageTypeCorrect`: `Spec => []TypeOK`.
- `MessagesAreAdmittedAsRequests`: `Spec => [](A!AnswerIsTheRequest /\
  A!OvershootBounded)`.

*The argument.* `ChatInv` adds `WritesNext`: who is about to write holds the lock
(`LockHolderWrites`), and the number it read is still one more than the messages
stored, because nobody else can write to that conversation. So the insert of the
next number leaves the numbers dense and meets no other. A number that is taken
is thus impossible, and the one conflict left, a `client_message_id` that was
stored between the look and the lock, is answered with the row that is there.
A step then is one of Admission or leaves its
variables alone, and AdmissionProofs is instantiated (`AP`) to carry its theorems
over; the lemmas named `Same...` say that the two instances of `Admission` in
the module are one.

### The image clients

`ImageClientsProofs` proves of `ImageClients`, for any processes, images and
number of servers (`ImageAssumption`):

- `ClientsTypeCorrect`: `Spec => []TypeOK`.
- `ProcessesAgree`: `Spec => []AnswersAgree`.
- `SuccessesAreGenuine`: `Spec => []SuccessIsGenuine`.
- `UnknownIsOver`: `Spec => UnknownIsNotAtWork`.
- `AnnouncedIsFinal`: `Spec => OutcomeIsKept`.

*The argument.* The types alone are not inductive: a poll that ends writes the
cache of the worker its id names, so it must be about an id with a worker
(`AwaitedIsOpen`). `ImageInv` says an id is given once, when its submit is over,
and to a prompt its server has heard of. `SeenInv` ties every outcome any process
has said, keeps or is about to fetch to what the one server the id names had:
*done* or since forgotten for a success, an error for a failure, and never both.
A server that forgets goes to *lost*, out of which no outcome is learnt, so the
two cannot meet. `Kept` says that what a process announced is what its memory or
the id still tells. The proof classifies steps first (`StepKind`: a submit's, a
server's, a poll's, a restart) and shows that all but a poll of the image itself
leave it `Quiet`.

### Gate and sessions

`RequestAccessProofs` proves of `RequestAccess`, for any finite sets of requests
and tokens, any limits and any number of faults (`AccessAssumption`):

- `AccessTypeCorrect`: `Spec => []TypeOK`.
- `GateBoundsInflight`: `Spec => []InflightBounded`.
- `GateLosesNoPlace`: `Spec => []CapacityNotLost`.
- `LogoutAllEndsThem`: `Spec => []LogoutAllReaches`.
- `SessionsAreAccounted`: `Spec => []SessionsAccounted`.

*The argument.* `Counted` bounds the counter from both sides by the requests that
hold a place: it exceeds them by no more than `leaked`, and they exceed it by no
more than `unseen`. `InflightBounded` alone is not inductive: a request told that
it may enter is in flight later, so those admitted are counted from the answer of
`INCR` on, and an answer within the limit bounds the others as of that moment.
The bounds of `leaked` and `unseen` by the faults and the requests give the range
of the counter in `TypeOK`. `Reached` says why `logout-all` reaches every session
it should: a session is revoked for good, so whatever was live when the request
was let in and is live at the UPDATE is found by it. `SessionsAccounted` is
inductive: a login adds one to both sides, a refresh that replaces a live session
adds to neither.

### What is only model-checked

- `EveryJobEnds`, with its fairness: liveness and `ENABLED` are out of the
  prover's reach.
- The four violations: they are counterexamples, on small instances.
- `PipelineTypeCorrect` and the others of `JobPipeline` hold of attempts up to
  `AttemptBound`, whatever it is; that the counters have a bound is an assumption
  on the instance, as the code has none (`attempt_budget`).

## 6. What the models leave out

- The rest of the queue: `queue_rank`, backlog counts, `find_by_idempotency_key`,
  `job_events`. They do not change a job or an attempt.
- A commit the client sees fail although it happened, except for a submit.
- The reads of `_reserve_capacity_by_backend` are one step for both lanes; lanes
  share no job.
- In `JobPipeline`, `LiveComfyUIClient._resolved`: without it the model asks the
  server again, and a poll of an outcome already kept may fail there;
  `ImageClients` has it.
- That a prompt called *unknown* may just have finished is allowed, not excluded:
  `UnknownIsNotAtWork` says that it is not waiting or running. With an expired lease the
  reconciler gives up that attempt though its image exists.
- Two retries of one attempt count two: `FailedOnlyAtBudget` relates a failure to the
  count, and the attempts really made may be fewer.
- The clients' `cancel`, health checks and the building of graphs; the prompt
  design before an image, which is best effort and leaves no trace.
- Which of the cloud's clients serves an image, and their HTTP.
- Deleting and paging conversations; registration and password hashing; the
  arithmetic of expiry dates and of the rate window.
- Profiles, overrides, previews and `finalize`: checks of one request's own data.
- `domain/jobs/state_machine.py`, `fairness.py`, `domain/workers/scoring.py`:
  nothing of the program calls them.
- Two schedulers can exceed the slots together, since each counts before either
  claims. `SlotsHold` is checked for the single scheduler of
  `src/backend/docker-compose.yml`.
- `mark_failed` in the dispatch handler is for queues without `mark_retry_wait`;
  both queues have it. `stale_running_seconds` is for rows with no lease, and
  `ActiveIsRecoverable` shows that an active job has one.
- The components marked *not_modelled* in PROJECT.json.

## 7. Plan

1. `JobPipeline`: `FailureIsGenuine` of the prompts of ComfyUI lanes with cloud
   lanes beside them, where the theorem now asks that there are none.
2. That `SlotsHold` is exceeded by at most what one tick claims when there are
   several schedulers, as the bound the hazard is about.
3. `RequestAccess` and `Admission` side by side: the gate's limit as the bound on
   the requests in flight that `OvershootBounded` counts.
