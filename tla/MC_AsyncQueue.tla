---------------------------- MODULE MC_AsyncQueue ----------------------------
(***************************************************************************)
(* Instances of AsyncQueue for TLC: two requests, as model values, whose  *)
(* jobs compete for the fetch loops.                                      *)
(***************************************************************************)
EXTENDS AsyncQueue, TLC

CONSTANTS r1, r2

MCRequests == {r1, r2}

\* Requests are interchangeable: nothing in the queue orders them by id.
RequestSymmetry == Permutations(MCRequests)

==============================================================================
