--------------------------- MODULE MC_ProcessSync ---------------------------
(***************************************************************************)
(* Instances of ProcessSync for TLC: two concurrent sync workers, the     *)
(* primary and one lagging replica as export sources.                     *)
(***************************************************************************)
EXTENDS ProcessSync, TLC

CONSTANTS w1, w2, p, o

MCWorkers == {w1, w2}
MCNodes == {p, o}

\* Snapback's syncs: every sync exports from the primary.
MCPrimaryOnly == {p}

\* Workers are interchangeable job slots.
WorkerSymmetry == Permutations(MCWorkers)

\* The forceResync values a run enumerates.
NoForceResync == {FALSE}
AnyForceResync == BOOLEAN
=============================================================================
