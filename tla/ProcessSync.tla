---------------------------- MODULE ProcessSync ----------------------------
(***************************************************************************)
(* The secondary-side sync of one user's data (processSync.js), run by    *)
(* several sync-queue workers concurrently, against the user's replica    *)
(* set.  One wallet is modelled; every clock record stands for the one    *)
(* mutation (and the one file, whose CID is the clock value) written at   *)
(* that clock.                                                            *)
(*                                                                         *)
(* Modelled from src/creator-node/src/services/sync/processSync.js:       *)
(*   - the redis lock taken by getLock then setLock (two awaits),          *)
(*   - the local clock baseline and the forceResync delete,                *)
(*   - the export request and the regression / contiguity checks,         *)
(*   - the batched saveFileForMultihashToFS calls and the failure gate,    *)
(*   - the single DB transaction (user upsert + clock records + files),    *)
(*   - removeLock inside the loop and again in the finally block.         *)
(* Modelled from the spec (code not under src/): the exporting nodes'     *)
(* clock logs and /export slicing, the ClockRecord primary key, the TTL   *)
(* of the redis lock, and a crash of the node that ends every running     *)
(* sync while the DB, the disk and redis keep their contents.             *)
(***************************************************************************)
EXTENDS Integers, FiniteSets

CONSTANTS
    Workers,        \* sync-queue job slots running processSync concurrently
    Nodes,          \* creator nodes a sync may be told to export from
    Primary,        \* the user's primary, the only node that takes writes
    MaxClock,       \* bound on the primary's clock (model bound)
    ExportWindow,   \* maxExportClockValueRange of /export
    MaxFailureCountBeforeSkip, \* syncRequestMaxUserFailureCountBeforeSkip
    ForceResyncChoices,        \* values the forceResync argument may take
    MaxCrashes                 \* bound on the node crashes (model bound)

ASSUME NodesAssumption == Primary \in Nodes
ASSUME MaxClockAssumption == MaxClock \in Nat
ASSUME ExportWindowAssumption == ExportWindow \in Nat
ASSUME MaxFailureAssumption == MaxFailureCountBeforeSkip \in Nat \ {0}
ASSUME ForceResyncAssumption == ForceResyncChoices \subseteq BOOLEAN
ASSUME MaxCrashesAssumption == MaxCrashes \in Nat

VARIABLES
    nodeClock,     \* nodeClock[n]: clock of the user on node n (-1: no user)
    sUser,         \* a CNodeUser row exists on this secondary
    sClock,        \* its clock column
    sRecords,      \* clock values of its ClockRecord rows
    sSkipped,      \* CIDs of its File rows with skipped = true
    disk,          \* CIDs whose content is stored on this node's disk
    failureCount,  \* UserSyncFailureCountManager's count for the wallet
    lock,          \* the redis key node_sync:<wallet> is set
    pc,            \* pc[w]: where worker w is in processSync
    source,        \* creatorNodeEndpoint of w's current sync
    force,         \* forceResync of w's current sync
    local,         \* localMaxClockVal of w's current sync
    fetchedClock,  \* clock of the fetched cnodeUser
    fetchedRecs,   \* clock values of the fetched clockRecords
    failed,        \* CIDsThatFailedSaveFileOp
    crashes        \* how many times the node has crashed

\* What no sync changes: the replicas' clocks and the node's crashes.
envVars == <<nodeClock, crashes>>
dbVars == <<sUser, sClock, sRecords, sSkipped, disk, failureCount, lock>>
workerVars == <<pc, source, force, local, fetchedClock, fetchedRecs, failed>>
vars == <<envVars, dbVars, workerVars>>

Clocks == 0..MaxClock
ClockVals == -1..MaxClock

\* Program points of processSync that follow an await.
PCs == {"idle", "getLock", "setLock", "baseline", "export", "saveFiles",
        "commit", "unlockInLoop", "finally"}

\* The points between setLock and the end of the per-user work.
CriticalSection == {"baseline", "export", "saveFiles", "commit"}

Lesser(a, b) == IF a < b THEN a ELSE b

\* Mutant: the baseline is one past the local clock.
LocalClockOffByOne == IF sUser THEN sClock + 1 ELSE -1

\* The secondary's clock as read by models.CNodeUser.findOne (line 78).
LocalClock == IF sUser THEN sClock ELSE -1

(***************************************************************************)
(* The export of node n for clock_range_min = m (spec 4.1, 4.2): the      *)
(* records in [m, min(clock, m + window)], and the user's clock capped at  *)
(* the last exported record when the window truncates the slice.          *)
(***************************************************************************)
ExportRecs(n, m) == m..Lesser(nodeClock[n], m + ExportWindow)
ExportClock(n, m) ==
    IF ExportRecs(n, m) = {} THEN nodeClock[n]
                             ELSE Lesser(nodeClock[n], m + ExportWindow)

\* Mutant: the regression check of line 221 is missing.
RejectsExportNoRegression(l, fc, recs) ==
    /\ l # -1
    /\ recs # {}
    /\ \E r \in recs : /\ \A q \in recs : r <= q
                       /\ r # l + 1

\* The checks of lines 221-240 that throw before any DB work.
RejectsExport(l, fc, recs) ==
    \/ fc < l
    \/ /\ l # -1
       /\ recs # {}
       /\ \E r \in recs : /\ \A q \in recs : r <= q
                          /\ r # l + 1

\* A ClockRecord row already exists for one of the clocks (primary key).
ClockRecordConflict(recs) == recs \cap sRecords # {}

-----------------------------------------------------------------------------
Init ==
    /\ nodeClock \in [Nodes -> {-1}]
    /\ crashes = 0
    /\ sUser = FALSE
    /\ sClock = -1
    /\ sRecords = {}
    /\ sSkipped = {}
    /\ disk = {}
    /\ failureCount = 0
    /\ lock = FALSE
    /\ pc = [w \in Workers |-> "idle"]
    /\ source = [w \in Workers |-> Primary]
    /\ force = [w \in Workers |-> FALSE]
    /\ local = [w \in Workers |-> -1]
    /\ fetchedClock = [w \in Workers |-> -1]
    /\ fetchedRecs = [w \in Workers |-> {}]
    /\ failed = [w \in Workers |-> {}]

(***************************************************************************)
(* Environment (spec-modelled): the primary commits a mutation with the    *)
(* next clock; another replica catches up towards the primary.            *)
(***************************************************************************)
PrimaryWrite ==
    /\ nodeClock[Primary] < MaxClock
    /\ nodeClock' = [nodeClock EXCEPT ![Primary] = @ + 1]
    /\ UNCHANGED <<crashes, dbVars, workerVars>>

ReplicaCatchUp(n) ==
    /\ n # Primary
    /\ \E c \in nodeClock[n] + 1..nodeClock[Primary] :
          nodeClock' = [nodeClock EXCEPT ![n] = c]
    /\ UNCHANGED <<crashes, dbVars, workerVars>>

(***************************************************************************)
(* processSync(serviceRegistry, [wallet], creatorNodeEndpoint, ...,       *)
(* forceResync) is dequeued by worker w.                                   *)
(***************************************************************************)
StartSync(w, n, f) ==
    /\ pc[w] = "idle"
    /\ pc' = [pc EXCEPT ![w] = "getLock"]
    /\ source' = [source EXCEPT ![w] = n]
    /\ force' = [force EXCEPT ![w] = f]
    /\ UNCHANGED <<envVars, dbVars, local, fetchedClock, fetchedRecs, failed>>

\* The call returns: its local variables are gone.
EndSync(w) ==
    /\ pc' = [pc EXCEPT ![w] = "idle"]
    /\ source' = [source EXCEPT ![w] = Primary]
    /\ force' = [force EXCEPT ![w] = FALSE]
    /\ local' = [local EXCEPT ![w] = -1]
    /\ fetchedClock' = [fetchedClock EXCEPT ![w] = -1]
    /\ fetchedRecs' = [fetchedRecs EXCEPT ![w] = {}]
    /\ failed' = [failed EXCEPT ![w] = {}]

\* lines 53-58: a held lock returns the error without touching the lock.
LockHeld(w) ==
    /\ pc[w] = "getLock"
    /\ lock
    /\ EndSync(w)
    /\ UNCHANGED <<envVars, dbVars>>

\* line 53: the lock is observed free.
GetLock(w) ==
    /\ pc[w] = "getLock"
    /\ ~lock
    /\ pc' = [pc EXCEPT ![w] = "setLock"]
    /\ UNCHANGED <<envVars, dbVars, source, force, local, fetchedClock,
                   fetchedRecs, failed>>

\* line 60
SetLock(w) ==
    /\ pc[w] = "setLock"
    /\ lock' = TRUE
    /\ pc' = [pc EXCEPT ![w] = "baseline"]
    /\ UNCHANGED <<envVars, sUser, sClock, sRecords, sSkipped, disk,
                   failureCount, source, force, local, fetchedClock,
                   fetchedRecs, failed>>

\* lines 69-79: forceResync deletes all the user's rows outside any
\* transaction; otherwise the local clock is read.
ReadLocalClock(w) ==
    /\ pc[w] = "baseline"
    /\ IF force[w]
         THEN /\ sUser' = FALSE /\ sClock' = -1
              /\ sRecords' = {} /\ sSkipped' = {}
              /\ local' = [local EXCEPT ![w] = -1]
         ELSE /\ local' = [local EXCEPT ![w] = LocalClock]
              /\ UNCHANGED <<sUser, sClock, sRecords, sSkipped>>
    /\ pc' = [pc EXCEPT ![w] = "export"]
    /\ UNCHANGED <<envVars, disk, failureCount, lock, source, force,
                   fetchedClock, fetchedRecs, failed>>

\* lines 99-132: a non-200, timed-out or malformed export throws.
ExportFailed(w) ==
    /\ pc[w] = "export"
    /\ pc' = [pc EXCEPT ![w] = "finally"]
    /\ UNCHANGED <<envVars, dbVars, source, force, local, fetchedClock,
                   fetchedRecs, failed>>

(***************************************************************************)
(* lines 99-243: the export for clock_range_min = local + 1 arrives; the  *)
(* loop over cnodeUsers is empty when the node has no such user; a user   *)
(* already up to date is skipped (continue); lines 221-240 reject a       *)
(* regressed or non-contiguous export; otherwise the files are fetched.   *)
(***************************************************************************)
FetchExport(w) ==
    LET n   == source[w]
        m   == local[w] + 1
        fc  == ExportClock(n, m)
        recs == ExportRecs(n, m)
    IN
    /\ pc[w] = "export"
    /\ fetchedClock' = [fetchedClock EXCEPT ![w] = fc]
    /\ fetchedRecs' = [fetchedRecs EXCEPT ![w] = recs]
    /\ pc' = [pc EXCEPT ![w] =
                IF \/ nodeClock[n] = -1
                   \/ fc = local[w]
                   \/ RejectsExport(local[w], fc, recs)
                THEN "finally" ELSE "saveFiles"]
    /\ UNCHANGED <<envVars, dbVars, source, force, local, failed>>

\* Mutant: the count is not reset when the threshold is reached (line 461).
FailureGateNoReset(w, f) ==
    \/ /\ f = {}
       /\ failureCount' = 0
       /\ pc' = [pc EXCEPT ![w] = "commit"]
    \/ /\ f # {}
       /\ failureCount + 1 < MaxFailureCountBeforeSkip
       /\ failureCount' = failureCount + 1
       /\ pc' = [pc EXCEPT ![w] = "unlockInLoop"]
    \/ /\ f # {}
       /\ failureCount + 1 >= MaxFailureCountBeforeSkip
       /\ failureCount' = failureCount + 1
       /\ pc' = [pc EXCEPT ![w] = "commit"]

\* Mutant: incrementFailureCount returns the count without storing it.
FailureGateNoIncrement(w, f) ==
    \/ /\ f = {}
       /\ failureCount' = 0
       /\ pc' = [pc EXCEPT ![w] = "commit"]
    \/ /\ f # {}
       /\ failureCount + 1 < MaxFailureCountBeforeSkip
       /\ UNCHANGED failureCount
       /\ pc' = [pc EXCEPT ![w] = "unlockInLoop"]
    \/ /\ f # {}
       /\ failureCount + 1 >= MaxFailureCountBeforeSkip
       /\ failureCount' = 0
       /\ pc' = [pc EXCEPT ![w] = "commit"]

(***************************************************************************)
(* lines 445-473: with failed CIDs the wallet's failure count is          *)
(* incremented; below the threshold the sync throws (inner catch:         *)
(* rollback + removeLock); at the threshold the count is reset and the    *)
(* sync goes on with the failed CIDs skipped.  No failure resets it.      *)
(***************************************************************************)
FailureGate(w, f) ==
    \/ /\ f = {}
       /\ failureCount' = 0
       /\ pc' = [pc EXCEPT ![w] = "commit"]
    \/ /\ f # {}
       /\ failureCount + 1 < MaxFailureCountBeforeSkip
       /\ failureCount' = failureCount + 1
       /\ pc' = [pc EXCEPT ![w] = "unlockInLoop"]
    \/ /\ f # {}
       /\ failureCount + 1 >= MaxFailureCountBeforeSkip
       /\ failureCount' = 0
       /\ pc' = [pc EXCEPT ![w] = "commit"]

\* lines 337-439: saveFileForMultihashToFS for every fetched file, in
\* batches; any subset of them may fail; then the failure gate.
SaveFilesToFS(w) ==
    /\ pc[w] = "saveFiles"
    /\ \E f \in SUBSET fetchedRecs[w] :
         /\ disk' = disk \cup (fetchedRecs[w] \ f)
         /\ failed' = [failed EXCEPT ![w] = f]
         /\ FailureGate(w, f)
    /\ UNCHANGED <<envVars, sUser, sClock, sRecords, sSkipped, lock, source,
                   force, local, fetchedClock, fetchedRecs>>

\* Mutant: the failed CIDs are not marked skipped (lines 490-492, 514-516).
ImportRowsNoSkip(w) ==
    /\ sUser' = TRUE
    /\ sClock' = fetchedClock[w]
    /\ sRecords' = sRecords \cup fetchedRecs[w]
    /\ UNCHANGED sSkipped

\* lines 263-533: the CNodeUser is updated, or created, with the fetched
\* clock; clock records and files are bulk-created, a file skipped when
\* its CID failed.
ImportRows(w) ==
    /\ sUser' = TRUE
    /\ sClock' = fetchedClock[w]
    /\ sRecords' = sRecords \cup fetchedRecs[w]
    /\ sSkipped' = sSkipped \cup failed[w]

(***************************************************************************)
(* lines 243-535: one transaction upserts the CNodeUser with the fetched  *)
(* clock and bulk-creates the clock records and the files (skipped when   *)
(* their CID failed).  A clock record that already exists violates the    *)
(* primary key and the transaction rolls back.                            *)
(***************************************************************************)
CommitTransaction(w) ==
    /\ pc[w] = "commit"
    /\ IF ClockRecordConflict(fetchedRecs[w])
         THEN UNCHANGED <<sUser, sClock, sRecords, sSkipped>>
         ELSE ImportRows(w)
    /\ pc' = [pc EXCEPT ![w] = "unlockInLoop"]
    /\ UNCHANGED <<envVars, disk, failureCount, lock, source, force, local,
                   fetchedClock, fetchedRecs, failed>>

\* line 536 after a commit, line 553 after a rollback.
RemoveLockInLoop(w) ==
    /\ pc[w] = "unlockInLoop"
    /\ lock' = FALSE
    /\ pc' = [pc EXCEPT ![w] = "finally"]
    /\ UNCHANGED <<envVars, sUser, sClock, sRecords, sSkipped, disk,
                   failureCount, source, force, local, fetchedClock,
                   fetchedRecs, failed>>

\* lines 564-569: the finally block removes the lock on every exit path.
FinallyRemoveLocks(w) ==
    /\ pc[w] = "finally"
    /\ lock' = FALSE
    /\ EndSync(w)
    /\ UNCHANGED <<envVars, sUser, sClock, sRecords, sSkipped, disk,
                   failureCount>>

\* Mutant: setLock without an expiry; the key stays until a removeLock.
LockExpireNoTTL ==
    /\ lock
    /\ FALSE
    /\ lock' = FALSE
    /\ UNCHANGED <<envVars, sUser, sClock, sRecords, sSkipped, disk,
                   failureCount, workerVars>>

(***************************************************************************)
(* The redis key node_sync:<wallet> runs out of its TTL (spec 4.3 step 1: *)
(* the lock is set with a TTL; the helper behind setLock at line 60 is    *)
(* not under src/).  Nothing ties the TTL to the sync that set the key:   *)
(* it may run out while that sync is still inside the lock.               *)
(***************************************************************************)
LockExpire ==
    /\ lock
    /\ lock' = FALSE
    /\ UNCHANGED <<envVars, sUser, sClock, sRecords, sSkipped, disk,
                   failureCount, workerVars>>

(***************************************************************************)
(* The node crashes and restarts: every processSync call ends where it    *)
(* was, with no finally block run.  The DB (whose transaction is atomic), *)
(* the files on disk and the redis lock survive.  The failure count does  *)
(* not: UserSyncFailureCountManager is called synchronously and returns   *)
(* the new count at once (line 448), so it is process memory.  The sync   *)
(* queue starts new calls afterwards.                                     *)
(***************************************************************************)
NodeCrash ==
    /\ crashes < MaxCrashes
    /\ crashes' = crashes + 1
    /\ pc' = [w \in Workers |-> "idle"]
    /\ source' = [w \in Workers |-> Primary]
    /\ force' = [w \in Workers |-> FALSE]
    /\ local' = [w \in Workers |-> -1]
    /\ fetchedClock' = [w \in Workers |-> -1]
    /\ fetchedRecs' = [w \in Workers |-> {}]
    /\ failed' = [w \in Workers |-> {}]
    /\ failureCount' = 0
    /\ UNCHANGED <<nodeClock, sUser, sClock, sRecords, sSkipped, disk, lock>>

\* The steps of a sync after it was dequeued.
SyncStep(w) ==
    \/ LockHeld(w) \/ GetLock(w) \/ SetLock(w) \/ ReadLocalClock(w)
    \/ ExportFailed(w) \/ FetchExport(w) \/ SaveFilesToFS(w)
    \/ CommitTransaction(w) \/ RemoveLockInLoop(w) \/ FinallyRemoveLocks(w)

Next ==
    \/ PrimaryWrite
    \/ \E n \in Nodes : ReplicaCatchUp(n)
    \/ \E w \in Workers, n \in Nodes, f \in ForceResyncChoices :
          StartSync(w, n, f)
    \/ \E w \in Workers : SyncStep(w)
    \/ LockExpire
    \/ NodeCrash

Spec == Init /\ [][Next]_vars

(***************************************************************************)
(* Fairness: the node's event loop resumes every pending await of a sync  *)
(* (WF of its steps); each source eventually answers an export that is    *)
(* requested from it forever (SF); Snapback keeps enqueueing syncs from   *)
(* the primary, so a worker slot that is idle infinitely often takes one  *)
(* (SF).  Redis deletes a key whose TTL has passed, so a lock that stays  *)
(* set expires (WF).                                                      *)
(***************************************************************************)
Fairness ==
    /\ WF_vars(LockExpire)
    /\ \A w \in Workers :
         /\ WF_vars(SyncStep(w))
         /\ \A n \in Nodes : SF_vars(source[w] = n /\ FetchExport(w))
         /\ SF_vars(StartSync(w, Primary, FALSE))

FairSpec == Spec /\ Fairness

-----------------------------------------------------------------------------
TypeOK ==
    /\ nodeClock \in [Nodes -> ClockVals]
    /\ crashes \in 0..MaxCrashes
    /\ sUser \in BOOLEAN
    /\ sClock \in ClockVals
    /\ sRecords \subseteq Clocks
    /\ sSkipped \subseteq Clocks
    /\ disk \subseteq Clocks
    /\ failureCount \in 0..MaxFailureCountBeforeSkip
    /\ lock \in BOOLEAN
    /\ pc \in [Workers -> PCs]
    /\ source \in [Workers -> Nodes]
    /\ force \in [Workers -> BOOLEAN]
    /\ local \in [Workers -> ClockVals]
    /\ fetchedClock \in [Workers -> ClockVals]
    /\ fetchedRecs \in [Workers -> SUBSET Clocks]
    /\ failed \in [Workers -> SUBSET Clocks]

(***************************************************************************)
(* Per-user lock is exclusive (spec 4.3 step 1, 8): no two workers are    *)
(* between the lock acquisition and the end of the user's DB work at once.*)
(* It is what getLock/setLock and the removeLock calls must guarantee.    *)
(***************************************************************************)
LockExclusive ==
    \A v, w \in Workers :
        v # w => ~(pc[v] \in CriticalSection /\ pc[w] \in CriticalSection)

(***************************************************************************)
(* The secondary's clock log is dense (spec 3, 4.1): a user row exists    *)
(* exactly when clock records do, and they are 0..clock.  It depends on   *)
(* the baseline read, the export range, the contiguity checks and the     *)
(* transaction of concurrent syncs all agreeing.                          *)
(***************************************************************************)
ClockLogDense ==
    /\ sUser => sRecords = 0..sClock
    /\ ~sUser => sRecords = {}

(***************************************************************************)
(* A file that is not marked skipped has its content on disk (spec 8):    *)
(* a sync commits a non-skipped File row only for a CID it saved.         *)
(***************************************************************************)
ContentPresentUnlessSkipped ==
    sRecords \ sSkipped \subseteq disk

(***************************************************************************)
(* Why the clock log stays dense when no sync is forced: a sync's local   *)
(* clock, read at line 78, never exceeds the secondary's clock while the  *)
(* sync runs, and the records it fetched are exactly local+1..clock of    *)
(* the export.  So a commit that passes the ClockRecord primary key has   *)
(* read the current clock, and appends the next contiguous slice.  This   *)
(* is the inductive strengthening of ClockLogDense that TLAPS proves.     *)
(***************************************************************************)
SyncSliceOK(w) ==
    /\ ~force[w]
    /\ pc[w] \in {"export", "saveFiles", "commit"} => local[w] <= LocalClock
    /\ pc[w] \in {"saveFiles", "commit"} =>
          /\ local[w] < fetchedClock[w]
          /\ fetchedRecs[w] = local[w] + 1..fetchedClock[w]

DenseInductive ==
    /\ TypeOK
    /\ ClockLogDense
    /\ \A w \in Workers : SyncSliceOK(w)

(***************************************************************************)
(* The sync implements ReplicaLog: read through the primary's clock, the  *)
(* secondary's clock (LocalClock, as line 78 reads it) and its ClockRecord *)
(* rows, every step of every worker, of the primary and of the other      *)
(* replicas either leaves the three unchanged or is a Write or a          *)
(* Replicate: the secondary's log is a prefix of the primary's that only  *)
(* grows.  It needs the regression and contiguity checks, the ClockRecord *)
(* primary key and an export never ahead of its node.                     *)
(***************************************************************************)
RL == INSTANCE ReplicaLog
        WITH primaryClock <- nodeClock[Primary],
             secondaryClock <- LocalClock,
             secondaryLog <- sRecords

ReplicaLogSpec == RL!Spec

(***************************************************************************)
(* The secondary converges: once the primary stops writing, repeated      *)
(* syncs bring the secondary to the primary's clock and keep it there,    *)
(* even when content fetches keep failing (the skip threshold) and the    *)
(* export window only ships part of the log per sync.                     *)
(***************************************************************************)
SecondaryConverges ==
    <>[](IF sUser THEN sClock = nodeClock[Primary]
                  ELSE nodeClock[Primary] = -1)

=============================================================================
