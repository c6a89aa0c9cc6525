-------------------------- MODULE ServiceBootstrap --------------------------
(***************************************************************************)
(* The ServiceRegistry's start-up (src/unnamed/part_001): initServices    *)
(* builds the blacklist and libs and starts the recurring queues; once    *)
(* the server runs, initServicesThatRequireServer recovers the node's     *)
(* spID from the L1 ServiceProviderFactory, starts SnapbackSM, builds the *)
(* SyncQueue, waits for the L2 URSM contract, registers the node on it    *)
(* and starts the SkippedCIDsRetryQueue.  Each of the four loops retries  *)
(* a failed attempt after a timeout; a failed attempt changes nothing the *)
(* model holds, so the model has only the attempt that succeeds.  The     *)
(* chain is the environment: the endpoint gets an spID, the URSM contract *)
(* gets deployed.                                                         *)
(***************************************************************************)
EXTENDS Naturals

CONSTANTS
    SpIds,            \* the non-zero spIDs the chain may give the endpoint
    OneShotOutcomes,  \* whether an await that is not retried may throw
    MaxRestarts       \* bound on restarts of the node process

ASSUME SpIdsAssumption == SpIds \subseteq Nat \ {0} /\ SpIds # {}
ASSUME OneShotAssumption == OneShotOutcomes \subseteq BOOLEAN /\ TRUE \in OneShotOutcomes
ASSUME RestartAssumption == MaxRestarts \in Nat

VARIABLES
    phase,        \* where initServices is
    boot,         \* where initServicesThatRequireServer is
    libs,         \* this.libs is set
    servicesInitialized,
    spID,         \* nodeConfig's spID (0: not recovered)
    snapbackSM,   \* "none", "constructed" or "running" (init resolved)
    syncQueue,    \* this.syncQueue is set
    ursmClient,   \* libs.contracts.UserReplicaSetManagerClient is set
    registered,   \* URSMRegistrationManager.run() resolved
    skippedQueue, \* skippedCIDsRetryQueue.init() resolved
    servicesThatRequireServerInitialized,
    chainID,      \* the chain's spID for the endpoint (0: none)
    ursmDeployed, \* the L2 URSM contract is deployed
    restarts      \* restarts of the node process so far

vars == <<phase, boot, libs, servicesInitialized, spID, snapbackSM, syncQueue,
          ursmClient, registered, skippedQueue,
          servicesThatRequireServerInitialized, chainID, ursmDeployed,
          restarts>>
bootVars == <<boot, spID, snapbackSM, syncQueue, ursmClient, registered,
              skippedQueue, servicesThatRequireServerInitialized>>
envVars == <<chainID, ursmDeployed, restarts>>

InitPCs == {"blacklist", "libs", "start", "done", "rejected"}
BootPCs == {"wait", "recover", "snapback", "ursmDeploy", "ursmRegister",
            "skipped", "done", "rejected"}

\* The constructor's nulls, and nothing chain-side yet.
Init ==
    /\ phase = "blacklist"
    /\ boot = "wait"
    /\ libs = FALSE
    /\ servicesInitialized = FALSE
    /\ spID = 0
    /\ snapbackSM = "none"
    /\ syncQueue = FALSE
    /\ ursmClient = FALSE
    /\ registered = FALSE
    /\ skippedQueue = FALSE
    /\ servicesThatRequireServerInitialized = FALSE
    /\ chainID = 0
    /\ ursmDeployed = FALSE
    /\ restarts = 0

\* A throw in initServices rejects it: nothing catches there.
InitRejects ==
    /\ phase' = "rejected"
    /\ UNCHANGED <<libs, servicesInitialized>>

\* await this.blacklistManager.init() (the redis counters set before it are
\* not modelled).
BlacklistInit ==
    /\ phase = "blacklist"
    /\ \E ok \in OneShotOutcomes :
         IF ok THEN /\ phase' = "libs"
                    /\ UNCHANGED <<libs, servicesInitialized>>
               ELSE InitRejects
    /\ UNCHANGED <<bootVars, envVars>>

\* this.libs = await this._initAudiusLibs(): throws when configureWeb3
\* yields nothing or audiusLibs.init() rejects.
InitAudiusLibs ==
    /\ phase = "libs"
    /\ \E ok \in OneShotOutcomes :
         IF ok THEN /\ libs' = TRUE
                    /\ phase' = "start"
                    /\ UNCHANGED servicesInitialized
               ELSE InitRejects
    /\ UNCHANGED <<bootVars, envVars>>

\* monitoringQueue.start() and sessionExpirationQueue.start(), not awaited;
\* then servicesInitialized = true.
StartQueues ==
    /\ phase = "start"
    /\ phase' = "done"
    /\ servicesInitialized' = TRUE
    /\ UNCHANGED <<libs, bootVars, envVars>>

\* The server is started once initServices resolved, and then calls
\* initServicesThatRequireServer (the caller is not in src/).
StartServer ==
    /\ boot = "wait"
    /\ servicesInitialized
    /\ boot' = "recover"
    /\ UNCHANGED <<phase, libs, servicesInitialized, spID, snapbackSM,
                   syncQueue, ursmClient, registered, skippedQueue,
                   servicesThatRequireServerInitialized, envVars>>

\* Mutant: the spID !== 0 check dropped; an unregistered endpoint's 0 is
\* taken as the identity.
RecoverNodeL1IdentityAnyID ==
    /\ boot = "recover"
    /\ spID' = chainID
    /\ snapbackSM' = "constructed"
    /\ boot' = "snapback"
    /\ UNCHANGED <<phase, libs, servicesInitialized, syncQueue, ursmClient,
                   registered, skippedQueue,
                   servicesThatRequireServerInitialized, envVars>>

(***************************************************************************)
(* _recoverNodeL1Identity: getServiceProviderIdFromEndpoint until it       *)
(* returns a non-zero spID, which is set in nodeConfig; a 0 or a throw is *)
(* retried after 5 s.  Then _initSnapbackSM constructs the SnapbackSM     *)
(* before its loop.                                                       *)
(***************************************************************************)
RecoverNodeL1Identity ==
    /\ boot = "recover"
    /\ chainID # 0
    /\ spID' = chainID
    /\ snapbackSM' = "constructed"
    /\ boot' = "snapback"
    /\ UNCHANGED <<phase, libs, servicesInitialized, syncQueue, ursmClient,
                   registered, skippedQueue,
                   servicesThatRequireServerInitialized, envVars>>

\* _initSnapbackSM's loop: snapbackSM.init() until it resolves; then the
\* SyncQueue is constructed.
InitSnapbackSM ==
    /\ boot = "snapback"
    /\ snapbackSM' = "running"
    /\ syncQueue' = TRUE
    /\ boot' = "ursmDeploy"
    /\ UNCHANGED <<phase, libs, servicesInitialized, spID, ursmClient,
                   registered, skippedQueue,
                   servicesThatRequireServerInitialized, envVars>>

\* _registerNodeOnL2URSM, first loop: initUserReplicaSetManagerClient
\* until the client is set, which it is once the contract is deployed;
\* then the URSMRegistrationManager is constructed.
InitURSMClient ==
    /\ boot = "ursmDeploy"
    /\ ursmDeployed
    /\ ursmClient' = TRUE
    /\ boot' = "ursmRegister"
    /\ UNCHANGED <<phase, libs, servicesInitialized, spID, snapbackSM,
                   syncQueue, registered, skippedQueue,
                   servicesThatRequireServerInitialized, envVars>>

\* _registerNodeOnL2URSM, second loop: URSMRegistrationManager.run() until
\* it resolves.
RegisterNodeOnL2URSM ==
    /\ boot = "ursmRegister"
    /\ registered' = TRUE
    /\ boot' = "skipped"
    /\ UNCHANGED <<phase, libs, servicesInitialized, spID, snapbackSM,
                   syncQueue, ursmClient, skippedQueue,
                   servicesThatRequireServerInitialized, envVars>>

\* new SkippedCIDsRetryQueue, await its init() (not retried: a throw
\* rejects initServicesThatRequireServer), then the flag is set.
InitSkippedCIDsRetryQueue ==
    /\ boot = "skipped"
    /\ \E ok \in OneShotOutcomes :
         IF ok THEN /\ skippedQueue' = TRUE
                    /\ servicesThatRequireServerInitialized' = TRUE
                    /\ boot' = "done"
               ELSE /\ boot' = "rejected"
                    /\ UNCHANGED <<skippedQueue,
                                   servicesThatRequireServerInitialized>>
    /\ UNCHANGED <<phase, libs, servicesInitialized, spID, snapbackSM,
                   syncQueue, ursmClient, registered, envVars>>

\* The operator registers the endpoint on the L1 ServiceProviderFactory.
RegisterOnL1 ==
    /\ chainID = 0
    /\ chainID' \in SpIds
    /\ UNCHANGED <<phase, libs, servicesInitialized, bootVars, ursmDeployed,
                   restarts>>

\* The L2 URSM contract is deployed.
DeployURSM ==
    /\ ~ursmDeployed
    /\ ursmDeployed' = TRUE
    /\ UNCHANGED <<phase, libs, servicesInitialized, bootVars, chainID,
                   restarts>>

\* The node process dies at any point and starts again: the registry is
\* built anew; what the chain holds stays.
Restart ==
    /\ restarts < MaxRestarts
    /\ restarts' = restarts + 1
    /\ phase' = "blacklist"
    /\ boot' = "wait"
    /\ libs' = FALSE
    /\ servicesInitialized' = FALSE
    /\ spID' = 0
    /\ snapbackSM' = "none"
    /\ syncQueue' = FALSE
    /\ ursmClient' = FALSE
    /\ registered' = FALSE
    /\ skippedQueue' = FALSE
    /\ servicesThatRequireServerInitialized' = FALSE
    /\ UNCHANGED <<chainID, ursmDeployed>>

InitServicesStep == BlacklistInit \/ InitAudiusLibs \/ StartQueues

BootStep ==
    \/ StartServer \/ RecoverNodeL1Identity \/ InitSnapbackSM
    \/ InitURSMClient \/ RegisterNodeOnL2URSM \/ InitSkippedCIDsRetryQueue

Next == InitServicesStep \/ BootStep \/ RegisterOnL1 \/ DeployURSM \/ Restart

Spec == Init /\ [][Next]_vars

-----------------------------------------------------------------------------
TypeOK ==
    /\ phase \in InitPCs
    /\ boot \in BootPCs
    /\ libs \in BOOLEAN /\ servicesInitialized \in BOOLEAN
    /\ syncQueue \in BOOLEAN /\ ursmClient \in BOOLEAN
    /\ registered \in BOOLEAN /\ skippedQueue \in BOOLEAN
    /\ servicesThatRequireServerInitialized \in BOOLEAN
    /\ ursmDeployed \in BOOLEAN
    /\ spID \in {0} \cup SpIds
    /\ chainID \in {0} \cup SpIds
    /\ restarts \in 0..MaxRestarts
    /\ snapbackSM \in {"none", "constructed", "running"}

(***************************************************************************)
(* Every service that needs the node's identity (SnapbackSM, SyncQueue,   *)
(* the URSM registration, the skipped-CID queue) exists only once         *)
(* nodeConfig holds the spID the chain gives this endpoint, and libs is   *)
(* set: the order of initServicesThatRequireServer and the spID !== 0     *)
(* check of _recoverNodeL1Identity.                                       *)
(***************************************************************************)
DependentsHaveIdentity ==
    (snapbackSM # "none" \/ syncQueue \/ ursmClient \/ registered
        \/ skippedQueue \/ servicesThatRequireServerInitialized)
      => /\ spID # 0
         /\ spID = chainID
         /\ libs

(***************************************************************************)
(* The strengthening of DependentsHaveIdentity that every step keeps (the *)
(* proofs use it): before the spID is recovered no dependent exists;     *)
(* after, nodeConfig holds the chain's non-zero spID; the server only     *)
(* starts once initServices has set libs.  A restart clears it all.      *)
(***************************************************************************)
BootInductive ==
    /\ TypeOK
    /\ phase \in {"start", "done"} => libs
    /\ servicesInitialized => libs
    /\ boot # "wait" => servicesInitialized
    /\ boot \in {"wait", "recover"} =>
         /\ spID = 0
         /\ snapbackSM = "none"
         /\ ~syncQueue /\ ~ursmClient /\ ~registered /\ ~skippedQueue
         /\ ~servicesThatRequireServerInitialized
    /\ boot \notin {"wait", "recover"} => spID # 0 /\ spID = chainID

(***************************************************************************)
(* Spec 4.6: Snapback is gated on the completion of bootstrap, the node's *)
(* registration on URSM included.                                         *)
(***************************************************************************)
SnapbackGatedOnRegistration ==
    snapbackSM = "running" => registered

=============================================================================
