------------------------------ MODULE MC_FindCID ------------------------------
(***************************************************************************)
(* Instances of FindCID for TLC: two concurrent lookups of one file, and  *)
(* three registered peers of which one is excluded.                       *)
(***************************************************************************)
EXTENDS FindCID, TLC

CONSTANTS c1, c2, n1, n2, n3

MCCallers == {c1, c2}
MCPeerList == <<n1, n2, n3>>
MCExcludeList == {n2}

\* Every way a peer's answer can go.
AllResponses == {"error", "empty", "good", "bad", "broken"}
\* Peers that answer, with the file or with other bytes.
CompleteResponses == {"error", "good", "bad"}

\* The two calls are interchangeable.
CallerSymmetry == Permutations(MCCallers)

==============================================================================
