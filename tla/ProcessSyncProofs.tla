------------------------- MODULE ProcessSyncProofs -------------------------
(***************************************************************************)
(* Proofs about ProcessSync for every value of its constants.             *)
(***************************************************************************)
EXTENDS ProcessSync, TLAPS

USE NodesAssumption, MaxClockAssumption, ExportWindowAssumption,
    MaxFailureAssumption, ForceResyncAssumption, MaxCrashesAssumption

\* The values that an export can put into a worker's fetched state.
LEMMA ExportRange ==
    ASSUME NEW n \in Nodes, NEW m \in 0..MaxClock + 1,
           nodeClock \in [Nodes -> ClockVals]
    PROVE  /\ ExportRecs(n, m) \subseteq Clocks
           /\ ExportClock(n, m) \in ClockVals
BY DEF ExportRecs, ExportClock, Lesser, Clocks, ClockVals

\* The initial state, an empty secondary with idle workers, is typed.
LEMMA TypeInit == Init => TypeOK
<1> SUFFICES ASSUME Init PROVE TypeOK
  OBVIOUS
<1>1. nodeClock \in [Nodes -> ClockVals] /\ crashes \in 0..MaxCrashes
  BY DEF Init, ClockVals
<1>2. /\ pc \in [Workers -> PCs]
      /\ source \in [Workers -> Nodes]
      /\ force \in [Workers -> BOOLEAN]
  BY DEF Init, PCs
<1>3. /\ local \in [Workers -> ClockVals]
      /\ fetchedClock \in [Workers -> ClockVals]
      /\ fetchedRecs \in [Workers -> SUBSET Clocks]
      /\ failed \in [Workers -> SUBSET Clocks]
  BY DEF Init, ClockVals
<1>4. /\ sUser = FALSE /\ lock = FALSE /\ sClock = -1 /\ failureCount = 0
      /\ sRecords = {} /\ sSkipped = {} /\ disk = {}
  BY DEF Init
<1>5. /\ sClock \in ClockVals
      /\ failureCount \in 0..MaxFailureCountBeforeSkip
  BY <1>4 DEF ClockVals
<1>6. QED
  BY <1>1, <1>2, <1>3, <1>4, <1>5 DEF TypeOK

\* Every step, of the environment or of a sync, keeps TypeOK.
LEMMA TypeStep == TypeOK /\ [Next]_vars => TypeOK'
<1> SUFFICES ASSUME TypeOK, [Next]_vars PROVE TypeOK'
  OBVIOUS
<1>1. CASE PrimaryWrite
  BY <1>1 DEF PrimaryWrite, TypeOK, ClockVals, dbVars, workerVars
<1>2. ASSUME NEW n \in Nodes, ReplicaCatchUp(n) PROVE TypeOK'
  BY <1>2 DEF ReplicaCatchUp, TypeOK, ClockVals, dbVars, workerVars
<1>3. ASSUME NEW w \in Workers, NEW n \in Nodes,
             NEW f \in ForceResyncChoices, StartSync(w, n, f)
      PROVE TypeOK'
  BY <1>3 DEF StartSync, TypeOK, PCs, envVars, dbVars
<1>4. ASSUME NEW w \in Workers, SyncStep(w) PROVE TypeOK'
  <2>0. EndSync(w) => (TypeOK!10 /\ TypeOK!11 /\ TypeOK!12 /\ TypeOK!13
                       /\ TypeOK!14 /\ TypeOK!15 /\ TypeOK!16)'
    BY DEF EndSync, TypeOK, PCs, ClockVals
  <2>1. CASE LockHeld(w)
    BY <2>0, <2>1 DEF LockHeld, TypeOK, envVars, dbVars
  <2>2. CASE GetLock(w)
    BY <2>2 DEF GetLock, TypeOK, PCs, envVars, dbVars
  <2>3. CASE SetLock(w)
    BY <2>3 DEF SetLock, TypeOK, PCs, envVars
  <2>4. CASE ReadLocalClock(w)
    <3>1. LocalClock \in ClockVals
      BY DEF LocalClock, TypeOK, ClockVals
    <3>2. CASE force[w]
      <4>1. /\ sUser' = FALSE /\ sClock' = -1
            /\ sRecords' = {} /\ sSkipped' = {}
            /\ local' = [local EXCEPT ![w] = -1]
            /\ pc' = [pc EXCEPT ![w] = "export"]
            /\ UNCHANGED <<nodeClock, crashes, disk, failureCount, lock, source, force,
                           fetchedClock, fetchedRecs, failed>>
        BY <2>4, <3>2, Zenon DEF ReadLocalClock, envVars
      <4>2. QED
        <5>1. local' \in [Workers -> ClockVals] /\ pc' \in [Workers -> PCs]
          BY <4>1 DEF TypeOK, PCs, ClockVals
        <5>2. sUser' \in BOOLEAN
          BY <4>1, Zenon
        <5>3. sClock' \in ClockVals
          BY <4>1 DEF ClockVals
        <5>4. QED
          BY <4>1, <5>1, <5>2, <5>3, Zenon DEF TypeOK
    <3>3. CASE ~force[w]
      BY <2>4, <3>1, <3>3 DEF ReadLocalClock, TypeOK, PCs, envVars
    <3>4. QED
      BY <3>2, <3>3
  <2>5. CASE ExportFailed(w)
    BY <2>5 DEF ExportFailed, TypeOK, PCs, envVars, dbVars
  <2>6. CASE FetchExport(w)
    <3>1. local[w] + 1 \in 0..MaxClock + 1
      BY DEF TypeOK, ClockVals
    <3>2. /\ ExportRecs(source[w], local[w] + 1) \subseteq Clocks
          /\ ExportClock(source[w], local[w] + 1) \in ClockVals
      BY <3>1, ExportRange DEF TypeOK
    <3>3. QED
      BY <2>6, <3>2 DEF FetchExport, TypeOK, PCs, envVars, dbVars
  <2>7. CASE SaveFilesToFS(w)
    BY <2>7 DEF SaveFilesToFS, FailureGate, TypeOK, PCs, envVars
  <2>8. CASE CommitTransaction(w)
    BY <2>8 DEF CommitTransaction, ImportRows, TypeOK, PCs, envVars
  <2>9. CASE RemoveLockInLoop(w)
    BY <2>9 DEF RemoveLockInLoop, TypeOK, PCs, envVars
  <2>10. CASE FinallyRemoveLocks(w)
    BY <2>0, <2>10 DEF FinallyRemoveLocks, TypeOK, envVars
  <2>11. QED
    BY <1>4, <2>1, <2>2, <2>3, <2>4, <2>5, <2>6, <2>7, <2>8, <2>9, <2>10
    DEF SyncStep
<1>5. CASE UNCHANGED vars
  BY <1>5 DEF vars, envVars, dbVars, workerVars, TypeOK
<1>6. CASE LockExpire
  <2>1. lock' = FALSE
    BY <1>6 DEF LockExpire
  <2>2. QED
    BY <1>6, <2>1 DEF LockExpire, TypeOK, envVars, workerVars
<1>7. CASE NodeCrash
  BY <1>7 DEF NodeCrash, TypeOK, PCs, ClockVals, dbVars
<1>8. QED
  BY <1>1, <1>2, <1>3, <1>4, <1>5, <1>6, <1>7 DEF Next

(***************************************************************************)
(* Every step keeps the variables in their types: the failure count stays *)
(* within 0..syncRequestMaxUserFailureCountBeforeSkip, and the clocks a   *)
(* sync reads and imports stay within the clocks the nodes hold.          *)
(***************************************************************************)
THEOREM TypeCorrect == Spec => []TypeOK
BY TypeInit, TypeStep, PTL DEF Spec

-----------------------------------------------------------------------------
(***************************************************************************)
(* The arithmetic of the export: an export that passes the checks of      *)
(* lines 208-240 (a user exists, its clock moved, it did not regress) is  *)
(* exactly the slice local+1..clock, and it is not empty.                 *)
(***************************************************************************)
LEMMA ExportSlice ==
    ASSUME NEW n \in Nodes, NEW l \in ClockVals,
           nodeClock \in [Nodes -> ClockVals],
           nodeClock[n] # -1,
           ExportClock(n, l + 1) # l,
           ~(ExportClock(n, l + 1) < l)
    PROVE  /\ l < ExportClock(n, l + 1)
           /\ ExportRecs(n, l + 1) = l + 1..ExportClock(n, l + 1)
<1> DEFINE c == nodeClock[n]
           top == Lesser(c, l + 1 + ExportWindow)
<1>1. c \in 0..MaxClock /\ l \in Int /\ top \in Int
  BY DEF ClockVals, Lesser
<1>2. ExportRecs(n, l + 1) = l + 1..top
  BY DEF ExportRecs
<1>3. CASE l + 1 <= top
  <2>0. l + 1 \in ExportRecs(n, l + 1)
    BY <1>1, <1>2, <1>3
  <2>1. ExportClock(n, l + 1) = top
    BY <2>0 DEF ExportClock
  <2>2. QED
    BY <1>1, <1>2, <1>3, <2>1
<1>4. CASE top < l + 1
  <2>0. ExportRecs(n, l + 1) = {}
    BY <1>1, <1>2, <1>4
  <2>1. ExportClock(n, l + 1) = c
    BY <2>0 DEF ExportClock
  <2>2. top = c
    BY <1>1, <1>4, <2>1 DEF Lesser
  <2>3. QED
    BY <1>1, <1>4, <2>1, <2>2
<1>5. QED
  BY <1>1, <1>3, <1>4

(***************************************************************************)
(* The arithmetic of the commit: a dense log 0..c (or no user), a slice    *)
(* l+1..fc with l at most the local clock, and no primary-key clash: then  *)
(* l is the local clock, fc is past it, and the union is the dense log    *)
(* 0..fc.                                                                 *)
(***************************************************************************)
LEMMA SliceAppend ==
    ASSUME NEW u \in BOOLEAN, NEW c \in Int, NEW R, NEW l \in Int,
           NEW fc \in Int,
           u => R = 0..c, ~u => R = {},
           -1 <= l, l <= (IF u THEN c ELSE -1), l < fc,
           (l + 1..fc) \cap R = {}
    PROVE  /\ R \cup (l + 1..fc) = 0..fc
           /\ (IF u THEN c ELSE -1) < fc
<1>1. CASE u
  <2>1. R = 0..c
    BY <1>1
  <2>2. l = c
    BY <1>1, <2>1
  <2>3. QED
    BY <1>1, <2>1, <2>2
<1>2. CASE ~u
  <2>1. R = {} /\ l = -1
    BY <1>2
  <2>2. QED
    BY <1>2, <2>1
<1>3. QED
  BY <1>1, <1>2

\* The secondary's clock as a sync reads it is a clock value.
LEMMA LocalClockType == TypeOK => LocalClock \in ClockVals
BY DEF TypeOK, LocalClock, ClockVals

\* A step leaves worker v's call of processSync alone.
WorkerFrame(v) ==
    /\ force'[v] = force[v]
    /\ pc'[v] = pc[v]
    /\ local'[v] = local[v]
    /\ fetchedClock'[v] = fetchedClock[v]
    /\ fetchedRecs'[v] = fetchedRecs[v]

(***************************************************************************)
(* A step of worker w keeps every slice: w's own by hypothesis, and the   *)
(* slice of any other worker because its locals are untouched and the     *)
(* secondary's clock did not go down.                                     *)
(***************************************************************************)
LEMMA OtherSlices ==
    ASSUME NEW w \in Workers,
           \A v \in Workers : SyncSliceOK(v),
           \A v \in Workers \ {w} : WorkerFrame(v),
           SyncSliceOK(w)',
           NEW lc \in Int, NEW lc2 \in Int,
           LocalClock = lc, LocalClock' = lc2, lc <= lc2,
           local \in [Workers -> Int]
    PROVE  \A v \in Workers : SyncSliceOK(v)'
<1> TAKE v \in Workers
<1>1. CASE v = w
  BY <1>1
<1>2. CASE v # w
  <2>1. WorkerFrame(v) /\ SyncSliceOK(v)
    BY <1>2
  <2>2. local[v] <= lc => local'[v] <= lc2
    BY <2>1 DEF WorkerFrame
  <2>3. QED
    BY <2>1, <2>2 DEF SyncSliceOK, WorkerFrame
<1>3. QED
  BY <1>1, <1>2

\* Whichever way the failure gate goes, only w's pc moves, to the commit
\* or to the removeLock of the inner catch.
LEMMA FailureGatePc ==
    ASSUME NEW w \in Workers, NEW f, FailureGate(w, f)
    PROVE  \/ pc' = [pc EXCEPT ![w] = "commit"]
           \/ pc' = [pc EXCEPT ![w] = "unlockInLoop"]
BY Zenon DEF FailureGate

(***************************************************************************)
(* A commit that passes the ClockRecord primary key appends the next      *)
(* contiguous slice: the records become 0..fetched clock, which is past   *)
(* the clock it replaces.                                                 *)
(***************************************************************************)
LEMMA CommitAppends ==
    ASSUME DenseInductive, NEW w \in Workers, pc[w] = "commit",
           ~ClockRecordConflict(fetchedRecs[w])
    PROVE  /\ sRecords \cup fetchedRecs[w] = 0..fetchedClock[w]
           /\ LocalClock < fetchedClock[w]
<1>1. /\ local[w] < fetchedClock[w]
      /\ fetchedRecs[w] = local[w] + 1..fetchedClock[w]
      /\ local[w] <= LocalClock
  BY DEF DenseInductive, SyncSliceOK
<1>2. /\ sUser \in BOOLEAN /\ sClock \in Int
      /\ local[w] \in Int /\ fetchedClock[w] \in Int
      /\ -1 <= local[w]
  BY DEF DenseInductive, TypeOK, ClockVals
<1>3. /\ sUser => sRecords = 0..sClock
      /\ ~sUser => sRecords = {}
  BY DEF DenseInductive, ClockLogDense
<1>4. local[w] <= (IF sUser THEN sClock ELSE -1)
  BY <1>1 DEF LocalClock
<1>5. (local[w] + 1..fetchedClock[w]) \cap sRecords = {}
  BY <1>1 DEF ClockRecordConflict
<1>6. /\ sRecords \cup (local[w] + 1..fetchedClock[w]) = 0..fetchedClock[w]
      /\ (IF sUser THEN sClock ELSE -1) < fetchedClock[w]
  BY <1>1, <1>2, <1>3, <1>4, <1>5, SliceAppend
<1>7. QED
  BY <1>1, <1>6 DEF LocalClock

\* With no forced sync, the initial state satisfies the strengthening.
LEMMA DenseInit == Init => DenseInductive
BY TypeInit DEF Init, DenseInductive, ClockLogDense, SyncSliceOK

(***************************************************************************)
(* With no forced sync, every step keeps the strengthening: the steps that *)
(* leave the user row alone keep each sync's slice, FetchExport builds it  *)
(* (ExportSlice), and a commit without a primary-key clash appends it      *)
(* (SliceAppend).                                                          *)
(***************************************************************************)
LEMMA DenseStep ==
    ASSUME ForceResyncChoices = {FALSE}
    PROVE  DenseInductive /\ [Next]_vars => DenseInductive'
<1> SUFFICES ASSUME DenseInductive, [Next]_vars PROVE DenseInductive'
  OBVIOUS
<1>1. TypeOK /\ ClockLogDense /\ \A v \in Workers : SyncSliceOK(v)
  BY DEF DenseInductive
<1>2. TypeOK'
  BY <1>1, TypeStep
<1>3. UNCHANGED <<sUser, sClock, sRecords>> =>
         ClockLogDense' /\ LocalClock' = LocalClock
  BY <1>1 DEF ClockLogDense, LocalClock
<1> SUFFICES ClockLogDense' /\ \A v \in Workers : SyncSliceOK(v)'
  BY <1>2 DEF DenseInductive
<1>4. CASE UNCHANGED vars \/ PrimaryWrite \/ \E n \in Nodes : ReplicaCatchUp(n)
  <2>1. UNCHANGED <<dbVars, workerVars>>
    BY <1>4 DEF vars, PrimaryWrite, ReplicaCatchUp
  <2>2. QED
    BY <1>1, <1>3, <2>1 DEF SyncSliceOK, dbVars, workerVars
<1>5. ASSUME NEW w \in Workers, NEW n \in Nodes,
             NEW f \in ForceResyncChoices, StartSync(w, n, f)
      PROVE  ClockLogDense' /\ \A v \in Workers : SyncSliceOK(v)'
  BY <1>1, <1>3, <1>5 DEF StartSync, SyncSliceOK, TypeOK, dbVars
<1>6. ASSUME NEW w \in Workers, SyncStep(w)
      PROVE  ClockLogDense' /\ \A v \in Workers : SyncSliceOK(v)'
  <2>1. CASE LockHeld(w) \/ FinallyRemoveLocks(w)
    BY <1>1, <1>3, <2>1 DEF LockHeld, FinallyRemoveLocks, EndSync,
       SyncSliceOK, TypeOK, dbVars
  <2>2. CASE GetLock(w) \/ SetLock(w) \/ ExportFailed(w) \/ RemoveLockInLoop(w)
    BY <1>1, <1>3, <2>2 DEF GetLock, SetLock, ExportFailed, RemoveLockInLoop,
       SyncSliceOK, TypeOK, dbVars
  <2>3. CASE ReadLocalClock(w)
    <3>1. ~force[w]
      BY <1>1 DEF SyncSliceOK
    <3>2. /\ local' = [local EXCEPT ![w] = LocalClock]
          /\ pc' = [pc EXCEPT ![w] = "export"]
          /\ UNCHANGED <<sUser, sClock, sRecords, force, fetchedClock,
                         fetchedRecs>>
      BY <2>3, <3>1, Zenon DEF ReadLocalClock
    <3>3. ClockLogDense' /\ LocalClock' = LocalClock
      BY <1>3, <3>2
    <3>4. SyncSliceOK(w)'
      <4>1. pc'[w] = "export" /\ local'[w] = LocalClock
        BY <1>1, <3>2 DEF TypeOK
      <4>2. ~force'[w]
        BY <3>1, <3>2
      <4>3. LocalClock \in Int
        BY <1>1, LocalClockType DEF ClockVals
      <4>4. QED
        BY <3>3, <4>1, <4>2, <4>3 DEF SyncSliceOK
    <3>5. \A v \in Workers \ {w} : WorkerFrame(v)
      BY <1>1, <3>2 DEF WorkerFrame, TypeOK
    <3>6. QED
      BY <1>1, <3>3, <3>4, <3>5, LocalClockType, OtherSlices
         DEF TypeOK, ClockVals
  <2>4. CASE FetchExport(w)
    <3> DEFINE l == local[w]
               fc == ExportClock(source[w], l + 1)
    <3>1. /\ fetchedClock' = [fetchedClock EXCEPT ![w] = fc]
          /\ fetchedRecs' = [fetchedRecs EXCEPT ![w] = ExportRecs(source[w], l + 1)]
          /\ UNCHANGED <<sUser, sClock, sRecords, force, local>>
      BY <2>4 DEF FetchExport, dbVars
    <3>2. pc'[w] = "saveFiles" =>
             /\ l < fc
             /\ ExportRecs(source[w], l + 1) = l + 1..fc
      <4> SUFFICES ASSUME pc'[w] = "saveFiles"
                   PROVE  l < fc /\ ExportRecs(source[w], l + 1) = l + 1..fc
        OBVIOUS
      <4>1. /\ nodeClock[source[w]] # -1
            /\ fc # l
            /\ ~(fc < l)
        BY <2>4, <1>1 DEF FetchExport, RejectsExport, TypeOK, PCs
      <4>2. QED
        BY <4>1, <1>1, ExportSlice DEF TypeOK
    <3>3. pc' = [pc EXCEPT ![w] = pc'[w]]
      BY <2>4, <1>1 DEF FetchExport, TypeOK
    <3>4. pc[w] = "export" /\ pc'[w] \in {"finally", "saveFiles"}
      BY <2>4, <1>1 DEF FetchExport, TypeOK
    <3>5. ClockLogDense' /\ LocalClock' = LocalClock
      BY <1>3, <3>1
    <3>6. SyncSliceOK(w)'
      <4>1. ~force'[w]
        BY <1>1, <3>1 DEF SyncSliceOK
      <4>2. fetchedClock'[w] = fc /\ fetchedRecs'[w] = ExportRecs(source[w], l + 1)
        BY <1>1, <3>1 DEF TypeOK
      <4>3. local'[w] = l
        BY <3>1
      <4>4. local[w] <= LocalClock /\ l \in Int
        BY <1>1, <3>4 DEF SyncSliceOK, TypeOK, ClockVals
      <4>5. CASE pc'[w] = "finally"
        BY <4>1, <4>5 DEF SyncSliceOK
      <4>6. CASE pc'[w] = "saveFiles"
        BY <3>2, <3>5, <4>1, <4>2, <4>3, <4>4, <4>6 DEF SyncSliceOK
      <4>7. QED
        BY <3>4, <4>5, <4>6
    <3>7. \A v \in Workers \ {w} : WorkerFrame(v)
      BY <1>1, <3>1, <3>3 DEF WorkerFrame, TypeOK
    <3>8. QED
      BY <1>1, <3>5, <3>6, <3>7, LocalClockType, OtherSlices
         DEF TypeOK, ClockVals
  <2>5. CASE SaveFilesToFS(w)
    <3>1. \/ pc' = [pc EXCEPT ![w] = "commit"]
          \/ pc' = [pc EXCEPT ![w] = "unlockInLoop"]
      BY <2>5, FailureGatePc DEF SaveFilesToFS
    <3>2. UNCHANGED <<sUser, sClock, sRecords, force, local, fetchedClock,
                     fetchedRecs>>
      BY <2>5 DEF SaveFilesToFS
    <3>3. pc[w] = "saveFiles"
      BY <2>5 DEF SaveFilesToFS
    <3>4. QED
      BY <1>1, <1>3, <3>1, <3>2, <3>3 DEF SyncSliceOK, TypeOK
  <2>6. CASE CommitTransaction(w)
    <3>1. /\ pc' = [pc EXCEPT ![w] = "unlockInLoop"]
          /\ UNCHANGED <<force, local, fetchedClock, fetchedRecs>>
          /\ pc[w] = "commit"
      BY <2>6 DEF CommitTransaction
    <3>2. CASE ClockRecordConflict(fetchedRecs[w])
      <4>1. UNCHANGED <<sUser, sClock, sRecords>>
        BY <2>6, <3>2 DEF CommitTransaction
      <4>2. QED
        BY <1>1, <1>3, <3>1, <4>1 DEF SyncSliceOK, TypeOK
    <3>3. CASE ~ClockRecordConflict(fetchedRecs[w])
      <4>1. /\ sUser' = TRUE
            /\ sClock' = fetchedClock[w]
            /\ sRecords' = sRecords \cup fetchedRecs[w]
        BY <2>6, <3>3 DEF CommitTransaction, ImportRows
      <4>2. /\ local[w] < fetchedClock[w]
            /\ fetchedRecs[w] = local[w] + 1..fetchedClock[w]
            /\ local[w] <= LocalClock
        BY <1>1, <3>1 DEF SyncSliceOK
      <4>3. /\ sRecords \cup fetchedRecs[w] = 0..fetchedClock[w]
            /\ LocalClock <= fetchedClock[w]
        <5>1. /\ sRecords \cup fetchedRecs[w] = 0..fetchedClock[w]
              /\ LocalClock < fetchedClock[w]
          BY <3>1, <3>3, CommitAppends
        <5>2. QED
          BY <1>1, <5>1, LocalClockType DEF TypeOK, ClockVals
      <4>4. LocalClock' = fetchedClock[w]
        BY <4>1 DEF LocalClock
      <4>5. ClockLogDense'
        BY <4>1, <4>3 DEF ClockLogDense
      <4>6. SyncSliceOK(w)'
        <5>1. pc'[w] = "unlockInLoop" /\ ~force'[w]
          BY <1>1, <3>1 DEF SyncSliceOK, TypeOK
        <5>2. QED
          BY <5>1 DEF SyncSliceOK
      <4>7. \A v \in Workers \ {w} : WorkerFrame(v)
        BY <1>1, <3>1 DEF WorkerFrame, TypeOK
      <4>8. QED
        BY <1>1, <4>3, <4>4, <4>5, <4>6, <4>7, LocalClockType, OtherSlices
           DEF TypeOK, ClockVals
    <3>4. QED
      BY <3>2, <3>3
  <2>7. QED
    BY <1>6, <2>1, <2>2, <2>3, <2>4, <2>5, <2>6 DEF SyncStep
<1>7. CASE LockExpire
  BY <1>1, <1>3, <1>7 DEF LockExpire, SyncSliceOK, workerVars
<1>8. CASE NodeCrash
  BY <1>1, <1>3, <1>8 DEF NodeCrash, SyncSliceOK, dbVars
<1>9. QED
  BY <1>4, <1>5, <1>6, <1>7, <1>8 DEF Next

(***************************************************************************)
(* When no sync is forced, the secondary's clock log is dense (spec 3,    *)
(* 4.1): however ordinary syncs interleave, even two inside the lock at   *)
(* once (the getLock/setLock race), a user row exists exactly when clock  *)
(* records do and they are 0..clock.  The ClockRecord primary key turns   *)
(* the commit of a sync with a stale baseline into a rollback.            *)
(***************************************************************************)
THEOREM DenseClockLog ==
    ASSUME ForceResyncChoices = {FALSE}
    PROVE  Spec => []ClockLogDense
<1>1. Init => DenseInductive
  BY DenseInit
<1>2. DenseInductive /\ [Next]_vars => DenseInductive'
  BY DenseStep
<1>3. DenseInductive => ClockLogDense
  BY DEF DenseInductive
<1>4. QED
  BY <1>1, <1>2, <1>3, PTL DEF Spec

-----------------------------------------------------------------------------
(***************************************************************************)
(* Why non-skipped files have content: a sync waiting to commit saved     *)
(* every fetched CID but the failed ones, and the disk only grows.        *)
(***************************************************************************)
SavedBeforeCommit ==
    \A w \in Workers : pc[w] = "commit" => fetchedRecs[w] \ failed[w] \subseteq disk

ContentInductive ==
    TypeOK /\ ContentPresentUnlessSkipped /\ SavedBeforeCommit

\* Every step keeps ContentInductive, forced syncs included.
LEMMA ContentStep == ContentInductive /\ [Next]_vars => ContentInductive'
<1> SUFFICES ASSUME ContentInductive, [Next]_vars PROVE ContentInductive'
  OBVIOUS
<1>1. TypeOK'
  BY TypeStep DEF ContentInductive
<1> SUFFICES ContentPresentUnlessSkipped' /\ SavedBeforeCommit'
  BY <1>1 DEF ContentInductive
<1> USE DEF ContentInductive, ContentPresentUnlessSkipped, SavedBeforeCommit
<1>2. CASE UNCHANGED vars \/ PrimaryWrite \/ \E n \in Nodes : ReplicaCatchUp(n)
  BY <1>2 DEF vars, PrimaryWrite, ReplicaCatchUp, dbVars, workerVars
<1>3. ASSUME NEW w \in Workers, NEW n \in Nodes,
             NEW f \in ForceResyncChoices, StartSync(w, n, f)
      PROVE  ContentPresentUnlessSkipped' /\ SavedBeforeCommit'
  BY <1>3 DEF StartSync, TypeOK, dbVars
<1>4. ASSUME NEW w \in Workers, SyncStep(w)
      PROVE  ContentPresentUnlessSkipped' /\ SavedBeforeCommit'
  <2>1. CASE LockHeld(w) \/ FinallyRemoveLocks(w)
    BY <2>1 DEF LockHeld, FinallyRemoveLocks, EndSync, TypeOK, dbVars
  <2>2. CASE GetLock(w) \/ SetLock(w) \/ ExportFailed(w) \/ RemoveLockInLoop(w)
    BY <2>2 DEF GetLock, SetLock, ExportFailed, RemoveLockInLoop, TypeOK,
       dbVars
  <2>3. CASE ReadLocalClock(w)
    <3>1. /\ pc' = [pc EXCEPT ![w] = "export"]
          /\ UNCHANGED <<disk, fetchedRecs, failed>>
          /\ \/ sRecords' = {}
             \/ UNCHANGED <<sRecords, sSkipped>>
      BY <2>3, Zenon DEF ReadLocalClock
    <3>2. QED
      BY <3>1 DEF TypeOK
  <2>4. CASE FetchExport(w)
    BY <2>4 DEF FetchExport, TypeOK, dbVars
  <2>5. CASE SaveFilesToFS(w)
    <3>1. PICK f \in SUBSET fetchedRecs[w] :
             /\ disk' = disk \cup (fetchedRecs[w] \ f)
             /\ failed' = [failed EXCEPT ![w] = f]
             /\ FailureGate(w, f)
      BY <2>5 DEF SaveFilesToFS
    <3>2. \/ pc' = [pc EXCEPT ![w] = "commit"]
          \/ pc' = [pc EXCEPT ![w] = "unlockInLoop"]
      BY <3>1, FailureGatePc
    <3>3. UNCHANGED <<sRecords, sSkipped, fetchedRecs>>
      BY <2>5 DEF SaveFilesToFS
    <3>4. QED
      BY <3>1, <3>2, <3>3 DEF TypeOK
  <2>6. CASE CommitTransaction(w)
    <3>1. /\ pc' = [pc EXCEPT ![w] = "unlockInLoop"]
          /\ UNCHANGED <<disk, fetchedRecs, failed>>
          /\ pc[w] = "commit"
          /\ \/ UNCHANGED <<sRecords, sSkipped>>
             \/ /\ sRecords' = sRecords \cup fetchedRecs[w]
                /\ sSkipped' = sSkipped \cup failed[w]
      BY <2>6 DEF CommitTransaction, ImportRows
    <3>2. QED
      BY <3>1 DEF TypeOK
  <2>7. QED
    BY <1>4, <2>1, <2>2, <2>3, <2>4, <2>5, <2>6 DEF SyncStep
<1>5. CASE LockExpire
  BY <1>5 DEF LockExpire, workerVars
<1>6. CASE NodeCrash
  BY <1>6 DEF NodeCrash, dbVars
<1>7. QED
  BY <1>2, <1>3, <1>4, <1>5, <1>6 DEF Next

(***************************************************************************)
(* A File row that is not marked skipped has its content on this node's   *)
(* disk (spec 8), for every interleaving of syncs, forced ones included:  *)
(* the failure gate of lines 445-473 only lets a sync commit once the     *)
(* CIDs that failed saveFileForMultihashToFS are marked skipped.          *)
(***************************************************************************)
THEOREM ContentPresent == Spec => []ContentPresentUnlessSkipped
<1>1. Init => ContentInductive
  BY TypeInit DEF Init, ContentInductive, ContentPresentUnlessSkipped,
     SavedBeforeCommit
<1>2. QED
  BY <1>1, ContentStep, PTL DEF Spec, ContentInductive

-----------------------------------------------------------------------------
(***************************************************************************)
(* No node, no fetched export and not the secondary is ahead of the       *)
(* primary: the other replicas catch up towards it, an export carries at  *)
(* most its node's clock, and a commit installs a fetched clock.          *)
(***************************************************************************)
BehindPrimary ==
    /\ \A n \in Nodes : nodeClock[n] <= nodeClock[Primary]
    /\ \A w \in Workers : fetchedClock[w] <= nodeClock[Primary]
    /\ LocalClock <= nodeClock[Primary]

\* An export's clock is never past the clock of the node that served it.
LEMMA ExportBelowNode ==
    ASSUME NEW n \in Nodes, NEW m \in Int, nodeClock \in [Nodes -> ClockVals]
    PROVE  ExportClock(n, m) \in Int /\ ExportClock(n, m) <= nodeClock[n]
BY DEF ExportClock, ExportRecs, Lesser, ClockVals

LEMMA BehindInit == Init => BehindPrimary
BY DEF Init, BehindPrimary, LocalClock

LEMMA BehindStep == TypeOK /\ BehindPrimary /\ [Next]_vars => BehindPrimary'
<1> SUFFICES ASSUME TypeOK, BehindPrimary, [Next]_vars PROVE BehindPrimary'
  OBVIOUS
<1>1. TypeOK'
  BY TypeStep
<1>2. ASSUME nodeClock' = nodeClock,
             LocalClock' \in {LocalClock, -1},
             \A v \in Workers : fetchedClock'[v] \in {fetchedClock[v], -1}
      PROVE  BehindPrimary'
  BY <1>2, LocalClockType DEF BehindPrimary, TypeOK, ClockVals
<1>3. CASE PrimaryWrite
  BY <1>3 DEF PrimaryWrite, BehindPrimary, LocalClock, TypeOK, ClockVals,
     dbVars, workerVars
<1>4. ASSUME NEW n \in Nodes, ReplicaCatchUp(n) PROVE BehindPrimary'
  <2>1. PICK c \in nodeClock[n] + 1..nodeClock[Primary] :
           nodeClock' = [nodeClock EXCEPT ![n] = c]
    BY <1>4 DEF ReplicaCatchUp
  <2>2. nodeClock'[Primary] = nodeClock[Primary]
    BY <1>4, <2>1 DEF ReplicaCatchUp, TypeOK
  <2>3. UNCHANGED <<sUser, sClock, fetchedClock>>
    BY <1>4 DEF ReplicaCatchUp, dbVars, workerVars
  <2>4. QED
    BY <2>1, <2>2, <2>3 DEF BehindPrimary, LocalClock, TypeOK, ClockVals
<1>5. ASSUME NEW w \in Workers, NEW n \in Nodes,
             NEW f \in ForceResyncChoices, StartSync(w, n, f)
      PROVE  BehindPrimary'
  BY <1>2, <1>5 DEF StartSync, envVars, dbVars, LocalClock
<1>6. ASSUME NEW w \in Workers, SyncStep(w) PROVE BehindPrimary'
  <2>1. CASE LockHeld(w) \/ FinallyRemoveLocks(w)
    BY <1>2, <2>1 DEF LockHeld, FinallyRemoveLocks, EndSync, envVars, dbVars,
       LocalClock, TypeOK
  <2>2. CASE GetLock(w) \/ SetLock(w) \/ ExportFailed(w) \/ RemoveLockInLoop(w)
             \/ SaveFilesToFS(w)
    BY <1>2, <2>2 DEF GetLock, SetLock, ExportFailed, RemoveLockInLoop,
       SaveFilesToFS, envVars, dbVars, LocalClock
  <2>3. CASE ReadLocalClock(w)
    <3>1. UNCHANGED <<nodeClock, fetchedClock>>
      BY <2>3 DEF ReadLocalClock, envVars
    <3>2. CASE force[w]
      <4>1. sUser' = FALSE
        BY <2>3, <3>2 DEF ReadLocalClock
      <4>2. QED
        BY <1>2, <3>1, <4>1 DEF LocalClock
    <3>3. CASE ~force[w]
      BY <1>2, <2>3, <3>1, <3>3 DEF ReadLocalClock, LocalClock
    <3>4. QED
      BY <3>2, <3>3
  <2>4. CASE FetchExport(w)
    <3>1. /\ fetchedClock' = [fetchedClock EXCEPT
                                ![w] = ExportClock(source[w], local[w] + 1)]
          /\ UNCHANGED <<nodeClock, sUser, sClock>>
      BY <2>4 DEF FetchExport, envVars, dbVars
    <3>2. ExportClock(source[w], local[w] + 1) <= nodeClock[Primary]
      <4>1. /\ ExportClock(source[w], local[w] + 1) \in Int
            /\ ExportClock(source[w], local[w] + 1) <= nodeClock[source[w]]
        <5>1. /\ source[w] \in Nodes /\ local[w] + 1 \in Int
              /\ nodeClock \in [Nodes -> ClockVals]
          BY DEF TypeOK, ClockVals
        <5>2. QED
          BY <5>1, ExportBelowNode
      <4>2. QED
        BY <4>1 DEF BehindPrimary, TypeOK, ClockVals
    <3>3. QED
      BY <3>1, <3>2 DEF BehindPrimary, LocalClock, TypeOK, ClockVals
  <2>5. CASE CommitTransaction(w)
    <3>1. UNCHANGED <<nodeClock, fetchedClock>>
      BY <2>5 DEF CommitTransaction, envVars
    <3>2. CASE ClockRecordConflict(fetchedRecs[w])
      BY <1>2, <2>5, <3>1, <3>2 DEF CommitTransaction, LocalClock
    <3>3. CASE ~ClockRecordConflict(fetchedRecs[w])
      <4>1. LocalClock' = fetchedClock[w]
        BY <2>5, <3>3 DEF CommitTransaction, ImportRows, LocalClock
      <4>2. QED
        BY <3>1, <4>1 DEF BehindPrimary, TypeOK, ClockVals
    <3>4. QED
      BY <3>2, <3>3
  <2>6. QED
    BY <1>6, <2>1, <2>2, <2>3, <2>4, <2>5 DEF SyncStep
<1>7. CASE UNCHANGED vars
  BY <1>2, <1>7 DEF vars, envVars, dbVars, workerVars, LocalClock
<1>8. CASE LockExpire
  BY <1>2, <1>8 DEF LockExpire, envVars, workerVars, LocalClock
<1>9. CASE NodeCrash
  BY <1>2, <1>9 DEF NodeCrash, dbVars, LocalClock
<1>10. QED
  BY <1>3, <1>4, <1>5, <1>6, <1>7, <1>8, <1>9 DEF Next

(***************************************************************************)
(* With no forced sync, every step maps to a ReplicaLog step: a write of  *)
(* the primary is a Write, a commit that passes the primary key is a      *)
(* Replicate to the fetched clock, and every other step leaves the        *)
(* primary's clock, the secondary's clock and its records alone.          *)
(***************************************************************************)
LEMMA RefineStep ==
    ASSUME ForceResyncChoices = {FALSE}
    PROVE  DenseInductive /\ BehindPrimary /\ [Next]_vars
              => [RL!Next]_RL!logVars
<1> SUFFICES ASSUME DenseInductive, BehindPrimary, [Next]_vars
             PROVE  [RL!Next]_RL!logVars
  OBVIOUS
<1>1. TypeOK
  BY DEF DenseInductive
<1>2. UNCHANGED <<nodeClock, sUser, sClock, sRecords>> => [RL!Next]_RL!logVars
  BY DEF RL!logVars, LocalClock
<1>3. CASE PrimaryWrite
  <2>1. /\ nodeClock'[Primary] = nodeClock[Primary] + 1
        /\ UNCHANGED <<sUser, sClock, sRecords>>
    BY <1>1, <1>3 DEF PrimaryWrite, TypeOK, dbVars
  <2>2. RL!Write
    BY <2>1 DEF RL!Write, LocalClock
  <2>3. QED
    BY <2>2 DEF RL!Next
<1>4. ASSUME NEW n \in Nodes, ReplicaCatchUp(n) PROVE [RL!Next]_RL!logVars
  <2>1. nodeClock'[Primary] = nodeClock[Primary]
    BY <1>1, <1>4 DEF ReplicaCatchUp, TypeOK
  <2>2. UNCHANGED <<sUser, sClock, sRecords>>
    BY <1>4 DEF ReplicaCatchUp, dbVars
  <2>3. QED
    BY <2>1, <2>2 DEF RL!logVars, LocalClock
<1>5. ASSUME NEW w \in Workers, NEW n \in Nodes,
             NEW f \in ForceResyncChoices, StartSync(w, n, f)
      PROVE  [RL!Next]_RL!logVars
  BY <1>2, <1>5 DEF StartSync, envVars, dbVars
<1>6. ASSUME NEW w \in Workers, SyncStep(w) PROVE [RL!Next]_RL!logVars
  <2>1. CASE \/ LockHeld(w) \/ FinallyRemoveLocks(w) \/ GetLock(w)
             \/ SetLock(w) \/ ExportFailed(w) \/ RemoveLockInLoop(w)
             \/ SaveFilesToFS(w) \/ FetchExport(w)
    BY <1>2, <2>1 DEF LockHeld, FinallyRemoveLocks, GetLock, SetLock,
       ExportFailed, RemoveLockInLoop, SaveFilesToFS, FetchExport,
       envVars, dbVars
  <2>2. CASE ReadLocalClock(w)
    <3>1. ~force[w]
      BY DEF DenseInductive, SyncSliceOK
    <3>2. QED
      BY <1>2, <2>2, <3>1 DEF ReadLocalClock, envVars
  <2>3. CASE CommitTransaction(w)
    <3>1. UNCHANGED nodeClock /\ pc[w] = "commit"
      BY <2>3 DEF CommitTransaction, envVars
    <3>2. CASE ClockRecordConflict(fetchedRecs[w])
      BY <1>2, <2>3, <3>1, <3>2 DEF CommitTransaction
    <3>3. CASE ~ClockRecordConflict(fetchedRecs[w])
      <4>1. /\ sRecords \cup fetchedRecs[w] = 0..fetchedClock[w]
            /\ LocalClock < fetchedClock[w]
        BY <3>1, <3>3, CommitAppends
      <4>2. /\ sRecords' = 0..fetchedClock[w]
            /\ LocalClock' = fetchedClock[w]
        <5>1. /\ sUser' = TRUE /\ sClock' = fetchedClock[w]
              /\ sRecords' = sRecords \cup fetchedRecs[w]
          BY <2>3, <3>3 DEF CommitTransaction, ImportRows
        <5>2. QED
          BY <4>1, <5>1 DEF LocalClock
      <4>3. fetchedClock[w] \in LocalClock + 1..nodeClock[Primary]
        BY <1>1, <4>1, LocalClockType DEF BehindPrimary, TypeOK, ClockVals
      <4>4. RL!Replicate
        BY <3>1, <4>2, <4>3 DEF RL!Replicate
      <4>5. QED
        BY <4>4 DEF RL!Next
    <3>4. QED
      BY <3>2, <3>3
  <2>4. QED
    BY <1>6, <2>1, <2>2, <2>3 DEF SyncStep
<1>7. CASE UNCHANGED vars
  BY <1>2, <1>7 DEF vars, envVars, dbVars
<1>8. CASE LockExpire \/ NodeCrash
  BY <1>2, <1>8 DEF LockExpire, NodeCrash, envVars, dbVars
<1>9. QED
  BY <1>3, <1>4, <1>5, <1>6, <1>7, <1>8 DEF Next

(***************************************************************************)
(* With no forced sync, processSync implements ReplicaLog (spec 3, 4.1,   *)
(* 4.3): the secondary's clock records are always a prefix 0..clock of    *)
(* the primary's log, and they change only by a sync that moves the       *)
(* secondary forward, never backward and never past the primary, however *)
(* syncs, primary writes and other replicas interleave.                   *)
(***************************************************************************)
THEOREM ImplementsReplicaLog ==
    ASSUME ForceResyncChoices = {FALSE}
    PROVE  Spec => ReplicaLogSpec
<1>1. Init => RL!Init
  BY DEF Init, RL!Init, LocalClock
<1>2. Init => DenseInductive /\ BehindPrimary
  BY DenseInit, BehindInit
<1>3. DenseInductive /\ BehindPrimary /\ [Next]_vars
         => DenseInductive' /\ BehindPrimary'
  BY DenseStep, BehindStep DEF DenseInductive
<1>4. DenseInductive /\ BehindPrimary /\ [Next]_vars => [RL!Next]_RL!logVars
  BY RefineStep
<1>5. QED
  BY <1>1, <1>2, <1>3, <1>4, PTL DEF Spec, ReplicaLogSpec, RL!Spec

(***************************************************************************)
(* With no forced sync, DenseInductive holds in every reachable state: no *)
(* sync's baseline is ever ahead of the secondary's clock, and the slice   *)
(* a sync holds is exactly local+1..fetched clock, whatever the lock       *)
(* race, lock expiries and crashes let interleave.                        *)
(***************************************************************************)
THEOREM SyncSlicesConsistent ==
    ASSUME ForceResyncChoices = {FALSE}
    PROVE  Spec => []DenseInductive
BY DenseInit, DenseStep, PTL DEF Spec

=============================================================================
