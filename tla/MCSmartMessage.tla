---------------------------- MODULE MCSmartMessage ----------------------------
(***************************************************************************)
(* SmartMessage for TLC: two messages of one conversation.                 *)
(***************************************************************************)
EXTENDS SmartMessage, TLC

CONSTANT talk

MCConversationOf == [m \in Messages |-> talk]

Interchangeable == Permutations(Handlers)

=============================================================================
