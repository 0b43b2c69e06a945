--------------------------- MODULE MCImageClients ---------------------------
(***************************************************************************)
(* ImageClients for TLC.                                                   *)
(***************************************************************************)
EXTENDS ImageClients, TLC

CONSTANTS i1, b1, c1

Interchangeable == Permutations(Processes)

=============================================================================
