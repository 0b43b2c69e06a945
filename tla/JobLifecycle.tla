---------------------------- MODULE JobLifecycle ----------------------------
(***************************************************************************)
(* What the job queue promises its callers, with no rows, leases, prompts  *)
(* or processes: a job waits, is worked on, may be sent back to wait a     *)
(* counted number of times, and ends once and for good.  JobQueue and      *)
(* JobPipeline are shown to implement this module.                         *)
(***************************************************************************)
EXTENDS Naturals

CONSTANT Jobs       \* the job identifiers

VARIABLES
    phase,          \* where each job is in its life
    retries         \* how often each job was sent back to wait

vars == <<phase, retries>>

Outcomes == {"succeeded", "failed", "cancelled"}
Phases   == {"absent", "waiting", "active"} \cup Outcomes

TypeOK ==
    /\ phase \in [Jobs -> Phases]
    /\ retries \in [Jobs -> Nat]

Unfinished(j) == phase[j] \in {"waiting", "active"}

-----------------------------------------------------------------------------

Init ==
    /\ phase = [j \in Jobs |-> "absent"]
    /\ retries = [j \in Jobs |-> 0]

(* A new job waits. *)
Submit(j) ==
    /\ phase[j] = "absent"
    /\ phase' = [phase EXCEPT ![j] = "waiting"]
    /\ UNCHANGED retries

(* One claim starts a whole batch of waiting jobs. *)
Start(batch) ==
    /\ \A j \in batch : phase[j] = "waiting"
    /\ phase' = [j \in Jobs |-> IF j \in batch THEN "active" ELSE phase[j]]
    /\ UNCHANGED retries

(* The job goes back to waiting, and that is counted. *)
Retry(j) ==
    /\ Unfinished(j)
    /\ phase' = [phase EXCEPT ![j] = "waiting"]
    /\ retries' = [retries EXCEPT ![j] = @ + 1]

(* The job ends; no action is enabled for it afterwards. *)
Finish(j, outcome) ==
    /\ Unfinished(j)
    /\ phase' = [phase EXCEPT ![j] = outcome]
    /\ UNCHANGED retries

Next ==
    \/ \E j \in Jobs : Submit(j) \/ Retry(j)
    \/ \E batch \in SUBSET Jobs : Start(batch)
    \/ \E j \in Jobs, outcome \in Outcomes : Finish(j, outcome)

Spec == Init /\ [][Next]_vars

=============================================================================
