-------------------------- MODULE MCRequestAccess --------------------------
(***************************************************************************)
(* RequestAccess for TLC.                                                  *)
(***************************************************************************)
EXTENDS RequestAccess, TLC

Interchangeable == Permutations(Requests)

=============================================================================
