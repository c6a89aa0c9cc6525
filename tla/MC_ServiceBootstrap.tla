------------------------- MODULE MC_ServiceBootstrap -------------------------
(* Model values for checking ServiceBootstrap with TLC. *)
EXTENDS ServiceBootstrap

\* Two possible spIDs: the one recovered must be the chain's.
MCSpIds == {1, 2}
=============================================================================
