----------------------- MODULE ServiceBootstrapProofs -----------------------
(***************************************************************************)
(* Proofs about ServiceBootstrap for every set of spIDs and every bound   *)
(* on restarts.                                                           *)
(***************************************************************************)
EXTENDS ServiceBootstrap, TLAPS

USE SpIdsAssumption, OneShotAssumption, RestartAssumption

LEMMA BootInit == Init => BootInductive
<1> SUFFICES ASSUME Init PROVE BootInductive
  OBVIOUS
<1>1. TypeOK
  <2>1. phase \in InitPCs /\ boot \in BootPCs
    BY DEF Init, InitPCs, BootPCs
  <2>2. /\ libs \in BOOLEAN /\ servicesInitialized \in BOOLEAN
        /\ syncQueue \in BOOLEAN /\ ursmClient \in BOOLEAN
        /\ registered \in BOOLEAN /\ skippedQueue \in BOOLEAN
        /\ servicesThatRequireServerInitialized \in BOOLEAN
        /\ ursmDeployed \in BOOLEAN
    BY DEF Init
  <2>3. spID \in {0} \cup SpIds /\ chainID \in {0} \cup SpIds
    BY DEF Init
  <2>4. restarts \in 0..MaxRestarts
    BY DEF Init
  <2>5. snapbackSM \in {"none", "constructed", "running"}
    BY DEF Init
  <2>6. QED
    BY <2>1, <2>2, <2>3, <2>4, <2>5 DEF TypeOK
<1>2. QED
  BY <1>1, Zenon DEF Init, BootInductive

\* Every step keeps BootInductive; one step per action.
LEMMA BootStepLemma == BootInductive /\ [Next]_vars => BootInductive'
<1> SUFFICES ASSUME BootInductive, [Next]_vars PROVE BootInductive'
  OBVIOUS
<1> USE DEF BootInductive, TypeOK, InitPCs, BootPCs
<1>1. CASE BlacklistInit
  <2>1. PICK ok \in OneShotOutcomes :
          IF ok THEN /\ phase' = "libs"
                     /\ UNCHANGED <<libs, servicesInitialized>>
                ELSE InitRejects
    BY <1>1 DEF BlacklistInit
  <2>2. UNCHANGED <<bootVars, envVars>>
    BY <1>1 DEF BlacklistInit
  <2>3. QED
    BY <2>1, <2>2 DEF InitRejects, bootVars, envVars
<1>2. CASE InitAudiusLibs
  <2>1. PICK ok \in OneShotOutcomes :
          IF ok THEN /\ libs' = TRUE
                     /\ phase' = "start"
                     /\ UNCHANGED servicesInitialized
                ELSE InitRejects
    BY <1>2 DEF InitAudiusLibs
  <2>2. UNCHANGED <<bootVars, envVars>>
    BY <1>2 DEF InitAudiusLibs
  <2>3. CASE ok
    <3>1. libs' = TRUE /\ phase' = "start" /\ UNCHANGED servicesInitialized
      BY <2>1, <2>3
    <3>2. TypeOK'
      BY <2>2, <3>1 DEF bootVars, envVars
    <3>3. QED
      BY <2>2, <3>1, <3>2, Zenon DEF bootVars, envVars
  <2>4. CASE ~ok
    BY <2>1, <2>2, <2>4 DEF InitRejects, bootVars, envVars
  <2>5. QED
    BY <2>3, <2>4
<1>3. CASE StartQueues
  <2>1. /\ phase = "start" /\ phase' = "done" /\ servicesInitialized' = TRUE
        /\ UNCHANGED <<libs, bootVars, envVars>>
    BY <1>3 DEF StartQueues
  <2>2. TypeOK'
    BY <2>1 DEF bootVars, envVars
  <2>3. QED
    BY <2>1, <2>2, Zenon DEF bootVars, envVars
<1>4. CASE StartServer
  BY <1>4 DEF StartServer, envVars
<1>5. CASE RecoverNodeL1Identity
  BY <1>5 DEF RecoverNodeL1Identity, envVars
<1>6. CASE InitSnapbackSM
  BY <1>6 DEF InitSnapbackSM, envVars
<1>7. CASE InitURSMClient
  BY <1>7 DEF InitURSMClient, envVars
<1>8. CASE RegisterNodeOnL2URSM
  BY <1>8 DEF RegisterNodeOnL2URSM, envVars
<1>9. CASE InitSkippedCIDsRetryQueue
  <2>1. PICK ok \in OneShotOutcomes :
          IF ok THEN /\ skippedQueue' = TRUE
                     /\ servicesThatRequireServerInitialized' = TRUE
                     /\ boot' = "done"
                ELSE /\ boot' = "rejected"
                     /\ UNCHANGED <<skippedQueue,
                                    servicesThatRequireServerInitialized>>
    BY <1>9 DEF InitSkippedCIDsRetryQueue
  <2>2. /\ boot = "skipped"
        /\ UNCHANGED <<phase, libs, servicesInitialized, spID, snapbackSM,
                       syncQueue, ursmClient, registered, envVars>>
    BY <1>9 DEF InitSkippedCIDsRetryQueue
  <2>3. CASE ok
    <3>1. skippedQueue' /\ servicesThatRequireServerInitialized' /\ boot' = "done"
      BY <2>1, <2>3
    <3>2. QED
      BY <2>2, <3>1, Zenon DEF envVars
  <2>4. CASE ~ok
    <3>1. boot' = "rejected"
          /\ UNCHANGED <<skippedQueue, servicesThatRequireServerInitialized>>
      BY <2>1, <2>4
    <3>2. QED
      BY <2>2, <3>1 DEF envVars
  <2>5. QED
    BY <2>3, <2>4
<1>10. CASE RegisterOnL1
  \* chainID only moves away from 0, before any spID is recovered from it.
  <2>1. chainID = 0 /\ chainID' \in SpIds
    BY <1>10 DEF RegisterOnL1
  <2>2. UNCHANGED <<phase, libs, servicesInitialized, bootVars, ursmDeployed,
                    restarts>>
    BY <1>10 DEF RegisterOnL1
  <2>3. boot \in {"wait", "recover"}
    BY <2>1, SpIdsAssumption
  <2>4. QED
    BY <2>1, <2>2, <2>3 DEF bootVars
<1>11. CASE DeployURSM
  BY <1>11 DEF DeployURSM, bootVars
<1>12. CASE Restart
  <2>1. /\ phase' = "blacklist" /\ boot' = "wait" /\ spID' = 0
        /\ libs' = FALSE /\ servicesInitialized' = FALSE
        /\ snapbackSM' = "none" /\ syncQueue' = FALSE /\ ursmClient' = FALSE
        /\ registered' = FALSE /\ skippedQueue' = FALSE
        /\ servicesThatRequireServerInitialized' = FALSE
        /\ UNCHANGED <<chainID, ursmDeployed>>
    BY <1>12, Zenon DEF Restart
  <2>2. restarts' \in 0..MaxRestarts
    BY <1>12 DEF Restart
  <2>3. QED
    BY <2>1, <2>2
<1>13. CASE UNCHANGED vars
  BY <1>13 DEF vars
<1>14. QED
  BY <1>1, <1>2, <1>3, <1>4, <1>5, <1>6, <1>7, <1>8, <1>9, <1>10, <1>11,
     <1>12, <1>13 DEF Next, InitServicesStep, BootStep

(***************************************************************************)
(* Every step of start-up, of the chain and of a restart keeps the        *)
(* registry's variables in their types.                                   *)
(***************************************************************************)
THEOREM TypeCorrect == Spec => []TypeOK
<1>1. BootInductive => TypeOK
  BY DEF BootInductive
<1>2. QED
  BY BootInit, BootStepLemma, <1>1, PTL DEF Spec

(***************************************************************************)
(* For every set of spIDs and any number of restarts: SnapbackSM, the     *)
(* SyncQueue, the URSM client and registration and the skipped-CID queue  *)
(* exist only while nodeConfig holds the endpoint's non-zero spID from   *)
(* the chain and libs is set.                                             *)
(***************************************************************************)
THEOREM IdentityGatesDependents == Spec => []DependentsHaveIdentity
<1>1. BootInductive => DependentsHaveIdentity
  BY DEF BootInductive, TypeOK, BootPCs, DependentsHaveIdentity
<1>2. QED
  BY BootInit, BootStepLemma, <1>1, PTL DEF Spec

=============================================================================
