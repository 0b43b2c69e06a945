----------------------------- MODULE MCJobQueue -----------------------------
(***************************************************************************)
(* JobQueue and MemoryQueue for TLC: two jobs of one user wait for the     *)
(* same backend, so the capacity and the cap of a claim both matter.       *)
(***************************************************************************)
EXTENDS MemoryQueue, TLC

CONSTANTS alice, gpu

MCOwnerOf == [j \in Jobs |-> alice]
MCLaneOf  == [j \in Jobs |-> gpu]

Interchangeable == Permutations(Prompts)

=============================================================================
