----------------------------- MODULE ReplicaLog -----------------------------
(***************************************************************************)
(* What syncing promises a secondary (spec 3, 4.1, 4.3): one user's clock *)
(* log grows on the primary one mutation at a time, and the secondary     *)
(* holds a prefix of it, 0..secondaryClock, that only ever grows towards  *)
(* the primary's clock.  A sync may ship many records at once; it never   *)
(* leaves a gap, never goes past the primary and never goes back.         *)
(***************************************************************************)
EXTENDS Integers

VARIABLES
    primaryClock,    \* the user's clock on the primary (-1: no user yet)
    secondaryClock,  \* the user's clock on the secondary (-1: no user)
    secondaryLog     \* the clocks of the records the secondary holds

logVars == <<primaryClock, secondaryClock, secondaryLog>>

Init ==
    /\ primaryClock = -1
    /\ secondaryClock = -1
    /\ secondaryLog = {}

\* The primary commits the user's next mutation.
Write ==
    /\ primaryClock' = primaryClock + 1
    /\ UNCHANGED <<secondaryClock, secondaryLog>>

\* The secondary takes a longer prefix of the primary's log.
Replicate ==
    /\ \E c \in secondaryClock + 1..primaryClock :
         /\ secondaryClock' = c
         /\ secondaryLog' = 0..c
    /\ UNCHANGED primaryClock

Next == Write \/ Replicate

Spec == Init /\ [][Next]_logVars

=============================================================================
