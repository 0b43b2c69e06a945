-------------------------- MODULE MCPendingActions --------------------------
(***************************************************************************)
(* PendingActions and Admission for TLC: the key of one action and one     *)
(* plain key in a conversation, and a plain key outside of any.            *)
(***************************************************************************)
EXTENDS PendingActions, TLC

CONSTANTS alice, talk, a1, k1, k2, k3, p1

MCOwnerOf        == [k \in Keys |-> alice]
MCConversationOf == [k \in Keys |-> IF k = k3 THEN NoConversation ELSE talk]
MCKeyOf          == [a \in Actions |-> k1]
MCPayloadOf      == [a \in Actions |-> p1]

Interchangeable == Permutations(Handlers)

=============================================================================
