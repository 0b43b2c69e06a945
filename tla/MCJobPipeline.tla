--------------------------- MODULE MCJobPipeline ---------------------------
(***************************************************************************)
(* JobPipeline for TLC.  Jobs are numbered by age; the configurations      *)
(* choose who owns them and which lanes run them.                          *)
(***************************************************************************)
EXTENDS JobPipeline, TLC

CONSTANTS alice, gpu, cloud

OneOwner  == [j \in Jobs |-> alice]
OneLane   == [j \in Jobs |-> gpu]
CloudOnly == [j \in Jobs |-> cloud]
OneSlot   == [l \in Lanes |-> 1]

Interchangeable == Permutations(Schedulers)

=============================================================================
