-------------------------- MODULE AsyncQueueProofs --------------------------
(***************************************************************************)
(* Proofs about AsyncQueue for every set of requests, concurrency limit,  *)
(* maxStalledCount and number of crashes.                                 *)
(***************************************************************************)
EXTENDS AsyncQueue, TLAPS

USE ImplAssumption, ConcurrencyAssumption, StallAssumption, CrashAssumption

\* TypeOK with the shape of each job: the type invariant is not inductive
\* alone, since Crash can only keep stalls in range for jobs still queued.
TypeInv == TypeOK /\ \A r \in Requests : JobShape(r)

\* The key monitorProgress writes is a task name of the model.
LEMMA KeyTaskType ==
    ASSUME NEW t \in Tasks PROVE KeyTask(t) \in Tasks
BY DEF KeyTask, Tasks

LEMMA TypeInvInit == Init => TypeInv
BY DEF Init, TypeInv, TypeOK, JobShape, RunPCs, Outcomes, Statuses

LEMMA TypeInvStep == TypeInv /\ [Next]_vars => TypeInv'
<1> SUFFICES ASSUME TypeInv, [Next]_vars PROVE TypeInv'
  OBVIOUS
<1> USE DEF TypeInv, TypeOK, Tasks
<1>1. ASSUME NEW r \in Requests, NEW t \in Tasks, AddTask(r, t)
      PROVE TypeInv'
  <2>1. TypeOK'
    BY <1>1 DEF AddTask
  <2>2. ASSUME NEW q \in Requests PROVE JobShape(q)'
    BY <1>1 DEF AddTask, JobShape
  <2>3. QED
    BY <2>1, <2>2
<1>2. ASSUME NEW r \in Requests, ProcessJob(r) PROVE TypeInv'
  <2>1. TypeOK'
    BY <1>2 DEF ProcessJob, HandlerEntry, RunPCs, Outcomes
  <2>2. ASSUME NEW q \in Requests PROVE JobShape(q)'
    BY <1>2 DEF ProcessJob, JobShape
  <2>3. QED
    BY <2>1, <2>2
<1>3. ASSUME NEW r \in Requests, SetInProgress(r) PROVE TypeInv'
  <2>1. KeyTask(task[r]) \in Tasks
    BY <1>3, KeyTaskType DEF SetInProgress, JobShape
  <2>2. TypeOK'
    BY <1>3, <2>1 DEF SetInProgress, RunPCs, Statuses
  <2>3. ASSUME NEW q \in Requests PROVE JobShape(q)'
    BY <1>3 DEF SetInProgress, JobShape
  <2>4. QED
    BY <2>2, <2>3
<1>4. ASSUME NEW r \in Requests, CallFn(r) PROVE TypeInv'
  <2>1. TypeOK'
    BY <1>4 DEF CallFn, RunPCs
  <2>2. ASSUME NEW q \in Requests PROVE JobShape(q)'
    BY <1>4 DEF CallFn, JobShape
  <2>3. QED
    BY <2>1, <2>2
<1>5. ASSUME NEW r \in Requests, SetFinal(r) PROVE TypeInv'
  <2>1. KeyTask(task[r]) \in Tasks
    BY <1>5, KeyTaskType DEF SetFinal, JobShape
  <2>2. TypeOK'
    BY <1>5, <2>1 DEF SetFinal, RunPCs, Statuses, Terminal
  <2>3. ASSUME NEW q \in Requests PROVE JobShape(q)'
    BY <1>5 DEF SetFinal, JobShape
  <2>4. QED
    BY <2>2, <2>3
<1>6. ASSUME NEW r \in Requests, JobDone(r) PROVE TypeInv'
  <2>1. TypeOK'
    BY <1>6 DEF JobDone, RunPCs, Outcomes
  <2>2. ASSUME NEW q \in Requests PROVE JobShape(q)'
    BY <1>6 DEF JobDone, JobShape
  <2>3. QED
    BY <2>1, <2>2
<1>7. CASE Crash
  <2>1. ASSUME NEW r \in Requests
        PROVE /\ job'[r] \in {"none", "waiting", "active", "removed"}
              /\ outcome'[r] \in Outcomes
              /\ stalls'[r] \in 0..MaxStalledCount + 1
              /\ JobShape(r)'
    <3>1. CASE StalledOut(r)
      <4>1. /\ job[r] = "active" /\ task[r] # "none"
            /\ stalls[r] \in 0..MaxStalledCount
        BY <3>1 DEF StalledOut, JobShape
      <4>2. /\ job'[r] = "removed" /\ outcome'[r] = "stalledOut"
            /\ stalls'[r] = stalls[r] + 1 /\ run'[r] = "idle"
            /\ task'[r] = task[r]
        BY <1>7, <3>1, <4>1 DEF Crash
      <4>3. QED
        BY <4>1, <4>2 DEF JobShape, Outcomes
    <3>2. CASE ~StalledOut(r) /\ job[r] = "active"
      BY <1>7, <3>2 DEF Crash, StalledOut, JobShape
    <3>3. CASE job[r] # "active"
      BY <1>7, <3>3 DEF Crash, StalledOut, JobShape
    <3>4. QED
      BY <3>1, <3>2, <3>3
  <2>2. /\ run' = [r \in Requests |-> "idle"]
        /\ UNCHANGED <<task, status>>
        /\ crashes' \in 0..MaxCrashes
    BY <1>7 DEF Crash
  <2>3. /\ job' \in [Requests -> {"none", "waiting", "active", "removed"}]
        /\ outcome' \in [Requests -> Outcomes]
        /\ stalls' \in [Requests -> 0..MaxStalledCount + 1]
    BY <1>7, <2>1 DEF Crash
  <2>4. QED
    BY <2>1, <2>2, <2>3 DEF RunPCs
<1>8. CASE UNCHANGED vars
  BY <1>8 DEF vars, JobShape
<1>9. QED
  BY <1>1, <1>2, <1>3, <1>4, <1>5, <1>6, <1>7, <1>8 DEF Next, JobStep

(***************************************************************************)
(* Every step keeps the queue's variables in their types; in particular a *)
(* job's stalledCounter never exceeds maxStalledCount + 1, the value at   *)
(* which Bull's stalled-job check fails it.                               *)
(***************************************************************************)
THEOREM TypeCorrect == Spec => []TypeOK
<1>1. TypeInv => TypeOK
  BY DEF TypeInv
<1>2. QED
  BY TypeInvInit, TypeInvStep, <1>1, PTL DEF Spec

-----------------------------------------------------------------------------
(***************************************************************************)
(* The status record of AsyncProcessingQueue, where monitorProgress is    *)
(* given the job's own task name.                                         *)
(***************************************************************************)

\* Under AsyncProcessingQueue the handler of r writes the key <<task[r], r>>.
LEMMA AsyncKey ==
    ASSUME Impl = "async", NEW t \in Tasks PROVE KeyTask(t) = t
BY DEF KeyTask

LEMMA QueueInit == Init => QueueInductive
<1> SUFFICES ASSUME Init PROVE QueueInductive
  OBVIOUS
<1>1. TypeInv
  BY TypeInvInit
<1>2. QED
  BY <1>1 DEF Init, QueueInductive, TypeInv, HandlerOutcomeMatchesStatus,
            HandlerState

\* The status key of a request other than r is not the one r's handler writes.
LEMMA OtherKey ==
    ASSUME NEW r \in Requests, NEW q \in Requests, q # r,
           NEW t, NEW u
    PROVE  <<t, q>> # <<u, r>>
OBVIOUS

LEMMA QueueStep ==
    ASSUME Impl = "async"
    PROVE  QueueInductive /\ [Next]_vars => QueueInductive'
<1> SUFFICES ASSUME QueueInductive, [Next]_vars PROVE QueueInductive'
  OBVIOUS
<1>0. TypeInv /\ TypeInv'
  BY TypeInvStep DEF QueueInductive, TypeInv, HandlerState
\* What QueueInductive adds to TypeInv, for one request.
<1> DEFINE Matches(q) ==
        /\ outcome[q] = "completed" => status[<<task[q], q>>] = "DONE"
        /\ outcome[q] = "failed" => status[<<task[q], q>>] = "FAILED"
           Extra(q) ==
        /\ run[q] = "doneOk" => status[<<task[q], q>>] = "DONE"
        /\ run[q] = "doneErr" => status[<<task[q], q>>] = "FAILED"
        /\ outcome[q] \in {"completed", "failed"} => job[q] = "removed"
<1>1. SUFFICES ASSUME NEW q \in Requests PROVE Matches(q)' /\ Extra(q)'
  BY <1>0 DEF QueueInductive, TypeInv, HandlerOutcomeMatchesStatus,
              HandlerState
<1>2. Matches(q) /\ Extra(q) /\ JobShape(q)
  BY DEF QueueInductive, HandlerOutcomeMatchesStatus, HandlerState
<1> USE <1>0 DEF TypeInv, TypeOK, Tasks
<1>20. \A x \in Requests : JobShape(x)
  BY <1>0
<1>3. ASSUME NEW r \in Requests, NEW t \in Tasks, AddTask(r, t)
      PROVE Matches(q)' /\ Extra(q)'
  BY <1>2, <1>3 DEF AddTask, JobShape
<1>4. ASSUME NEW r \in Requests, ProcessJob(r) PROVE Matches(q)' /\ Extra(q)'
  <2>1. CASE q # r
    BY <1>2, <1>4, <2>1 DEF ProcessJob
  <2>2. CASE q = r /\ task[r] \in Handled
    <3>1. /\ job'[q] = "active" /\ run'[q] = "setInProgress"
          /\ outcome' = outcome /\ job[q] = "waiting"
      BY <1>4, <2>2 DEF ProcessJob, HandlerEntry
    <3>2. QED
      BY <1>2, <3>1, <1>4 DEF ProcessJob
  <2>3. CASE q = r /\ task[r] \notin Handled
    <3>1. /\ job'[q] = "removed" /\ outcome'[q] = "noHandler"
          /\ run' = run /\ job[q] = "waiting"
      BY <1>4, <2>3 DEF ProcessJob
    <3>2. QED
      BY <1>2, <3>1, <1>4 DEF ProcessJob
  <2>4. QED
    BY <2>1, <2>2, <2>3
<1>5. ASSUME NEW r \in Requests, SetInProgress(r)
      PROVE Matches(q)' /\ Extra(q)'
  <2>1. KeyTask(task[r]) = task[r]
    BY <1>5, <1>20, AsyncKey DEF SetInProgress, JobShape
  <2>2. CASE q = r
    BY <1>2, <1>5, <2>1, <2>2 DEF SetInProgress, JobShape
  <2>3. CASE q # r
    BY <1>2, <1>5, <2>1, <2>3, OtherKey DEF SetInProgress
  <2>4. QED
    BY <2>2, <2>3
<1>6. ASSUME NEW r \in Requests, CallFn(r) PROVE Matches(q)' /\ Extra(q)'
  BY <1>2, <1>6 DEF CallFn, JobShape
<1>7. ASSUME NEW r \in Requests, SetFinal(r) PROVE Matches(q)' /\ Extra(q)'
  <2>1. KeyTask(task[r]) = task[r]
    BY <1>7, <1>20, AsyncKey DEF SetFinal, JobShape
  <2>2. CASE q = r
    <3>1. CASE run[r] = "setDone"
      <4>1. /\ status'[<<task[q], q>>] = "DONE" /\ run'[q] = "doneOk"
            /\ outcome' = outcome /\ job' = job /\ task' = task
        BY <1>7, <1>20, <2>1, <2>2, <3>1 DEF SetFinal, JobShape
      <4>2. QED
        BY <1>2, <1>20, <4>1, <3>1, <2>2 DEF JobShape
    <3>2. CASE run[r] = "setFailed"
      <4>1. /\ status'[<<task[q], q>>] = "FAILED" /\ run'[q] = "doneErr"
            /\ outcome' = outcome /\ job' = job /\ task' = task
        BY <1>7, <1>20, <2>1, <2>2, <3>2 DEF SetFinal, JobShape
      <4>2. QED
        BY <1>2, <1>20, <4>1, <3>2, <2>2 DEF JobShape
    <3>3. QED
      BY <1>7, <3>1, <3>2 DEF SetFinal
  <2>3. CASE q # r
    BY <1>2, <1>7, <2>1, <2>3, OtherKey DEF SetFinal
  <2>4. QED
    BY <2>2, <2>3
<1>8. ASSUME NEW r \in Requests, JobDone(r) PROVE Matches(q)' /\ Extra(q)'
  <2>1. CASE q # r
    BY <1>2, <1>8, <2>1 DEF JobDone
  <2>2. CASE q = r /\ run[r] = "doneOk"
    <3>1. /\ outcome'[q] = "completed" /\ job'[q] = "removed"
          /\ run'[q] = "idle" /\ status' = status /\ task' = task
      BY <1>8, <2>2 DEF JobDone
    <3>2. QED
      BY <1>2, <2>2, <3>1
  <2>3. CASE q = r /\ run[r] = "doneErr"
    <3>1. /\ outcome'[q] = "failed" /\ job'[q] = "removed"
          /\ run'[q] = "idle" /\ status' = status /\ task' = task
      BY <1>8, <2>3 DEF JobDone
    <3>2. QED
      BY <1>2, <2>3, <3>1
  <2>4. QED
    BY <1>8, <2>1, <2>2, <2>3 DEF JobDone
<1>9. CASE Crash
  BY <1>2, <1>9 DEF Crash, StalledOut, JobShape
<1>10. CASE UNCHANGED vars
  BY <1>2, <1>10 DEF vars
<1>11. QED
  BY <1>3, <1>4, <1>5, <1>6, <1>7, <1>8, <1>9, <1>10 DEF Next, JobStep

(***************************************************************************)
(* AsyncProcessingQueue: whatever the number of requests, crashes and the *)
(* concurrency limit, when a processor finishes a job with done(), the    *)
(* status key of the job's task holds DONE if it completed and FAILED if  *)
(* it failed, because monitorProgress writes the status before it returns *)
(* or rethrows, and a job finished by done() is never run again.          *)
(***************************************************************************)
THEOREM OutcomeMatchesStatus ==
    ASSUME Impl = "async" PROVE Spec => []HandlerOutcomeMatchesStatus
<1>1. QueueInductive => HandlerOutcomeMatchesStatus
  BY DEF QueueInductive
<1>2. QED
  BY QueueInit, QueueStep, <1>1, PTL DEF Spec



-----------------------------------------------------------------------------
(***************************************************************************)
(* A finished job stays finished, for both queue classes.                 *)
(***************************************************************************)

\* Whatever way Bull finished r's job, the job has left the queue.
FinishedRemoved == \A r \in Requests : outcome[r] # "none" => job[r] = "removed"

LEMMA FinishedInit == Init => FinishedRemoved
BY DEF Init, FinishedRemoved

\* No step of a removed job's handler is enabled: a running handler
\* belongs to an active job.
LEMMA RemovedIdle ==
    ASSUME TypeInv, NEW r \in Requests, job[r] = "removed"
    PROVE  run[r] = "idle"
BY DEF TypeInv, JobShape

LEMMA FinishedStep == TypeInv /\ FinishedRemoved /\ [Next]_vars => FinishedRemoved'
<1> SUFFICES ASSUME TypeInv, FinishedRemoved, [Next]_vars,
                    NEW r \in Requests, outcome'[r] # "none"
             PROVE  job'[r] = "removed"
  BY DEF FinishedRemoved
<1> USE DEF TypeInv, TypeOK
<1>1. CASE outcome[r] # "none"
  <2>1. job[r] = "removed" /\ run[r] = "idle" /\ task[r] # "none"
    BY <1>1, RemovedIdle DEF FinishedRemoved, JobShape
  <2>2. ASSUME NEW q \in Requests, NEW t \in Tasks, AddTask(q, t)
        PROVE  job'[r] = "removed"
    BY <2>1, <2>2 DEF AddTask
  <2>3. ASSUME NEW q \in Requests,
               ProcessJob(q) \/ SetInProgress(q) \/ CallFn(q) \/ SetFinal(q)
        PROVE  job'[r] = "removed"
    BY <2>1, <2>3 DEF ProcessJob, SetInProgress, CallFn, SetFinal
  <2>4. ASSUME NEW q \in Requests, JobDone(q) PROVE job'[r] = "removed"
    BY <2>1, <2>4 DEF JobDone
  <2>5. CASE Crash
    BY <2>1, <2>5 DEF Crash, StalledOut
  <2>6. CASE UNCHANGED vars
    BY <2>1, <2>6 DEF vars
  <2>7. QED
    BY <2>2, <2>3, <2>4, <2>5, <2>6 DEF Next, JobStep
<1>2. CASE outcome[r] = "none"
  <2>1. ASSUME NEW q \in Requests, NEW t \in Tasks, AddTask(q, t)
        PROVE  FALSE
    BY <1>2, <2>1 DEF AddTask
  <2>2. ASSUME NEW q \in Requests,
               ProcessJob(q) \/ SetInProgress(q) \/ CallFn(q) \/ SetFinal(q)
               \/ JobDone(q)
        PROVE  job'[r] = "removed"
    BY <1>2, <2>2 DEF ProcessJob, SetInProgress, CallFn, SetFinal, JobDone
  <2>3. CASE Crash
    BY <1>2, <2>3 DEF Crash, StalledOut
  <2>4. CASE UNCHANGED vars
    BY <1>2, <2>4 DEF vars
  <2>5. QED
    BY <2>1, <2>2, <2>3, <2>4 DEF Next, JobStep
<1>3. QED
  BY <1>1, <1>2

\* A step leaves the outcome and every status key of a finished job alone.
LEMMA FrozenStep ==
    ASSUME TypeInv, FinishedRemoved, [Next]_vars,
           NEW r \in Requests, outcome[r] # "none"
    PROVE  /\ outcome'[r] = outcome[r]
           /\ \A t \in Tasks : status'[<<t, r>>] = status[<<t, r>>]
<1>1. job[r] = "removed" /\ run[r] = "idle"
  BY RemovedIdle DEF FinishedRemoved
<1> USE DEF TypeInv, TypeOK
<1>2. ASSUME NEW q \in Requests, SetInProgress(q) \/ SetFinal(q)
      PROVE  q # r /\ UNCHANGED outcome
  BY <1>1, <1>2 DEF SetInProgress, SetFinal
<1>3. ASSUME NEW q \in Requests, SetInProgress(q) \/ SetFinal(q)
      PROVE  \A t \in Tasks : status'[<<t, r>>] = status[<<t, r>>]
  <2>1. KeyTask(task[q]) \in Tasks
    BY <1>3, KeyTaskType DEF SetInProgress, SetFinal, JobShape
  <2>2. q # r
    BY <1>3, <1>2
  <2>3. QED
    BY <1>3, <2>1, <2>2 DEF SetInProgress, SetFinal
<1>4. QED
  BY <1>1, <1>2, <1>3 DEF Next, JobStep, AddTask, ProcessJob, CallFn,
     JobDone, Crash, StalledOut, vars

(***************************************************************************)
(* FinishedJobFrozen for every set of requests, both queue classes, any   *)
(* maxStalledCount and any number of crashes: once Bull has removed a job *)
(* with an outcome, neither the outcome nor any status key of the request *)
(* changes again.  The rerun of queue_rerun is confined to active jobs.   *)
(***************************************************************************)
THEOREM FinishedJobsStayFinished == Spec => FinishedJobFrozen
<1>1. Spec => [](TypeInv /\ FinishedRemoved)
  BY TypeInvInit, TypeInvStep, FinishedInit, FinishedStep, PTL DEF Spec
<1>2. TypeInv /\ FinishedRemoved /\ [Next]_vars =>
        [\A r \in Requests :
            outcome[r] # "none" =>
               /\ outcome'[r] = outcome[r]
               /\ \A t \in Tasks : status'[<<t, r>>] = status[<<t, r>>]]_vars
  BY FrozenStep
<1>3. QED
  BY <1>1, <1>2, PTL DEF Spec, FinishedJobFrozen


-----------------------------------------------------------------------------
(***************************************************************************)
(* The refinement of JobStatus, for AsyncProcessingQueue.                 *)
(***************************************************************************)

(***************************************************************************)
(* The status record of each request follows its handler: no key of r is *)
(* set before r's task is added, the record is IN_PROGRESS from           *)
(* monitorProgress's first write until the handler settles, and then the  *)
(* terminal state it wrote until done().                                   *)
(***************************************************************************)
RecordInv == \A r \in Requests :
    /\ task[r] = "none" => \A t \in Tasks : status[<<t, r>>] = "none"
    /\ run[r] \in {"callFn", "setDone", "setFailed"} => RecordOf(r) = "IN_PROGRESS"
    /\ run[r] = "doneOk" => RecordOf(r) = "DONE"
    /\ run[r] = "doneErr" => RecordOf(r) = "FAILED"

LEMMA RecordInit == Init => RecordInv
BY DEF Init, RecordInv, RecordOf

\* A running handler's request has a task, so its record is its key.
LEMMA RunningHasTask ==
    ASSUME TypeInv, NEW r \in Requests, run[r] # "idle"
    PROVE  task[r] \in Tasks /\ RecordOf(r) = status[<<task[r], r>>]
BY DEF TypeInv, TypeOK, JobShape, RecordOf

LEMMA RecordStep ==
    ASSUME Impl = "async" PROVE TypeInv /\ RecordInv /\ [Next]_vars => RecordInv'
<1> SUFFICES ASSUME TypeInv, RecordInv, [Next]_vars, NEW q \in Requests
             PROVE  RecordInv!(q)'
  BY DEF RecordInv
<1> USE DEF TypeInv, TypeOK
<1>1. ASSUME NEW r \in Requests, NEW t \in Tasks, AddTask(r, t)
      PROVE  RecordInv!(q)'
  <2>1. CASE r = q
    <3>1. run[q] = "idle" /\ \A u \in Tasks : status[<<u, q>>] = "none"
      BY <1>1, <2>1 DEF AddTask, JobShape, RecordInv
    <3>2. QED
      BY <1>1, <2>1, <3>1 DEF AddTask, RecordOf
  <2>2. CASE r # q
    BY <1>1, <2>2 DEF AddTask, RecordInv, RecordOf
  <2>3. QED
    BY <2>1, <2>2
<1>2. ASSUME NEW r \in Requests,
             ProcessJob(r) \/ CallFn(r) \/ JobDone(r)
      PROVE  RecordInv!(q)'
  BY <1>2 DEF ProcessJob, HandlerEntry, CallFn, JobDone, RecordInv, RecordOf
<1>3. ASSUME NEW r \in Requests, SetInProgress(r) \/ SetFinal(r)
      PROVE  RecordInv!(q)'
  <2>1. task[r] \in Tasks /\ KeyTask(task[r]) = task[r]
    BY <1>3, RunningHasTask, AsyncKey DEF SetInProgress, SetFinal
  <2>2. CASE r = q
    <3>1. /\ task' = task
          /\ RecordOf(q)' = status'[<<task[q], q>>]
          /\ RecordOf(q) = status[<<task[q], q>>]
      BY <1>3, <2>1, <2>2 DEF SetInProgress, SetFinal, RecordOf, Tasks
    <3>2. CASE SetInProgress(r)
      BY <2>1, <2>2, <3>1, <3>2 DEF SetInProgress, Tasks
    <3>3. CASE SetFinal(r)
      BY <2>1, <2>2, <3>1, <3>3 DEF SetFinal, Tasks
    <3>4. QED
      BY <1>3, <3>2, <3>3
  <2>3. CASE r # q
    <3>1. /\ \A u \in Tasks : status'[<<u, q>>] = status[<<u, q>>]
          /\ run'[q] = run[q] /\ task' = task
      BY <1>3, <2>1, <2>3 DEF SetInProgress, SetFinal
    <3>2. QED
      BY <3>1 DEF RecordInv, RecordOf
  <2>4. QED
    BY <2>2, <2>3
<1>4. CASE Crash
  BY <1>4 DEF Crash, RecordInv, RecordOf
<1>5. CASE UNCHANGED vars
  BY <1>5 DEF vars, RecordInv, RecordOf
<1>6. QED
  BY <1>1, <1>2, <1>3, <1>4, <1>5 DEF Next, JobStep


\* A write of one of r's keys leaves every other request's record alone.
LEMMA OtherRecords ==
    ASSUME TypeInv, NEW r \in Requests, NEW k \in Tasks, NEW v,
           task' = task, status' = [status EXCEPT ![<<k, r>>] = v]
    PROVE  \A q \in Requests \ {r} : RecordOf(q)' = RecordOf(q)
<1> SUFFICES ASSUME NEW q \in Requests \ {r} PROVE RecordOf(q)' = RecordOf(q)
  OBVIOUS
<1>1. CASE task[q] = "none"
  BY <1>1 DEF RecordOf
<1>2. CASE task[q] # "none"
  <2>1. task[q] \in Tasks
    BY <1>2 DEF TypeInv, TypeOK
  <2>2. QED
    BY <1>2, <2>1 DEF RecordOf, TypeInv, TypeOK
<1>3. QED
  BY <1>1, <1>2

\* The queue's state as JobStatus sees it.
jobStateBar == [r \in Requests |-> JobStateOf(r)]
recordBar == [r \in Requests |-> RecordOf(r)]

(***************************************************************************)
(* Every step of the queue is a JobStatus step or leaves what a client    *)
(* sees alone: AddTask enqueues; a fetch loop taking a job stutters,      *)
(* unless the job has no processor, which Bull drops; monitorProgress's   *)
(* writes start and settle the record; done() finishes the job; a crash  *)
(* drops the jobs the stalled-job check fails and requeues the others.    *)
(***************************************************************************)
LEMMA RefineStep ==
    ASSUME Impl = "async"
    PROVE  TypeInv /\ RecordInv /\ [Next]_vars => [JS!Next]_JS!jobVars
<1> SUFFICES ASSUME TypeInv, RecordInv, [Next]_vars
             PROVE  [JS!Next]_JS!jobVars
  OBVIOUS
<1> USE DEF TypeInv, TypeOK
<1>1. jobStateBar' = jobStateBar /\ recordBar' = recordBar
        /\ UNCHANGED outcome => [JS!Next]_JS!jobVars
  BY DEF JS!jobVars, jobStateBar, recordBar
<1>2. ASSUME NEW r \in Requests, CallFn(r) PROVE [JS!Next]_JS!jobVars
  BY <1>1, <1>2 DEF CallFn, jobStateBar, recordBar, JobStateOf, RecordOf
<1>3. CASE UNCHANGED vars
  BY <1>1, <1>3 DEF vars, jobStateBar, recordBar, JobStateOf, RecordOf
<1>4. ASSUME NEW r \in Requests, NEW t \in Tasks, AddTask(r, t)
      PROVE  [JS!Next]_JS!jobVars
  <2>1. job[r] = "none" /\ \A u \in Tasks : status[<<u, r>>] = "none"
    BY <1>4 DEF AddTask, JobShape, RecordInv
  <2>3. jobStateBar' = [jobStateBar EXCEPT ![r] = "queued"]
    BY <1>4 DEF AddTask, jobStateBar, JobStateOf
  <2>4. recordBar' = recordBar
    BY <1>4, <2>1 DEF AddTask, recordBar, RecordOf, Tasks
  <2>5. JS!Enqueue(r)
    BY <1>4, <2>1, <2>3, <2>4 DEF AddTask, JS!Enqueue, jobStateBar,
       JobStateOf, recordBar
  <2>6. QED
    BY <2>5 DEF JS!Next
<1>5. ASSUME NEW r \in Requests, ProcessJob(r) PROVE [JS!Next]_JS!jobVars
  <2>1. recordBar' = recordBar
    BY <1>5 DEF ProcessJob, recordBar, RecordOf
  <2>2. CASE task[r] \in Handled
    BY <1>1, <1>5, <2>1, <2>2 DEF ProcessJob, jobStateBar, JobStateOf
  <2>3. CASE task[r] \notin Handled
    <3> DEFINE o == [q \in {r} |-> "noHandler"]
    <3>1. o \in [{r} -> JS!Lost]
      BY DEF JS!Lost
    <3>2. /\ jobStateBar[r] = "queued"
          /\ jobStateBar' = [q \in Requests |->
                               IF q \in {r} THEN "finished" ELSE jobStateBar[q]]
          /\ outcome' = [q \in Requests |->
                           IF q \in {r} THEN o[q] ELSE outcome[q]]
      BY <1>5, <2>3 DEF ProcessJob, jobStateBar, JobStateOf
    <3>3. JS!Drop({r})
      BY <2>1, <3>1, <3>2 DEF JS!Drop, jobStateBar, recordBar
    <3>4. QED
      BY <3>3 DEF JS!Next
  <2>4. QED
    BY <2>2, <2>3
<1>6. ASSUME NEW r \in Requests, SetInProgress(r) PROVE [JS!Next]_JS!jobVars
  <2>1. task[r] \in Tasks /\ KeyTask(task[r]) = task[r] /\ job[r] = "active"
    BY <1>6, RunningHasTask, AsyncKey DEF SetInProgress, JobShape
  <2>2. recordBar' = [recordBar EXCEPT ![r] = "IN_PROGRESS"]
    <3>1. \A q \in Requests \ {r} : RecordOf(q)' = RecordOf(q)
      BY <1>6, <2>1, OtherRecords DEF SetInProgress
    <3>2. RecordOf(r)' = "IN_PROGRESS"
      BY <1>6, <2>1 DEF SetInProgress, RecordOf, Tasks
    <3>3. QED
      BY <3>1, <3>2 DEF recordBar
  <2>3. JS!Start(r)
    BY <1>6, <2>1, <2>2 DEF SetInProgress, JS!Start, jobStateBar,
       JobStateOf, recordBar
  <2>4. QED
    BY <2>3 DEF JS!Next
<1>7. ASSUME NEW r \in Requests, SetFinal(r) PROVE [JS!Next]_JS!jobVars
  <2>1. task[r] \in Tasks /\ KeyTask(task[r]) = task[r] /\ job[r] = "active"
    BY <1>7, RunningHasTask, AsyncKey DEF SetFinal, JobShape
  <2>2. RecordOf(r) = "IN_PROGRESS"
    BY <1>7 DEF SetFinal, RecordInv
  <2>3. recordBar' = [recordBar EXCEPT ![r] =
                        IF run[r] = "setDone" THEN "DONE" ELSE "FAILED"]
    <3>1. \A q \in Requests \ {r} : RecordOf(q)' = RecordOf(q)
      BY <1>7, <2>1, OtherRecords DEF SetFinal
    <3>2. RecordOf(r)' = IF run[r] = "setDone" THEN "DONE" ELSE "FAILED"
      BY <1>7, <2>1 DEF SetFinal, RecordOf, Tasks
    <3>3. QED
      BY <3>1, <3>2 DEF recordBar
  <2>4. JS!Settle(r)
    BY <1>7, <2>1, <2>2, <2>3 DEF SetFinal, JS!Settle, JS!Terminal,
       jobStateBar, JobStateOf, recordBar
  <2>5. QED
    BY <2>4 DEF JS!Next
<1>8. ASSUME NEW r \in Requests, JobDone(r) PROVE [JS!Next]_JS!jobVars
  <2>1. job[r] = "active"
    BY <1>8 DEF JobDone, JobShape
  <2>2. RecordOf(r) = IF run[r] = "doneOk" THEN "DONE" ELSE "FAILED"
    BY <1>8 DEF JobDone, RecordInv
  <2>3. recordBar' = recordBar
    BY <1>8 DEF JobDone, recordBar, RecordOf
  <2>4. jobStateBar' = [jobStateBar EXCEPT ![r] = "finished"]
    BY <1>8 DEF JobDone, jobStateBar, JobStateOf
  <2>5. JS!Finish(r)
    BY <1>8, <2>1, <2>2, <2>3, <2>4 DEF JobDone, JS!Finish, JS!Terminal,
       jobStateBar, JobStateOf, recordBar
  <2>6. QED
    BY <2>5 DEF JS!Next
<1>9. CASE Crash
  <2> DEFINE S == {q \in Requests : StalledOut(q)}
  <2>1. recordBar' = recordBar
    BY <1>9 DEF Crash, recordBar, RecordOf
  <2>2. CASE S = {}
    BY <1>1, <1>9, <2>1, <2>2 DEF Crash, jobStateBar, JobStateOf, StalledOut
  <2>3. CASE S # {}
    <3> DEFINE o == [q \in S |-> "stalledOut"]
    <3>1. o \in [S -> JS!Lost]
      BY DEF JS!Lost
    <3>2. /\ \A q \in S : jobStateBar[q] = "queued"
          /\ jobStateBar' = [q \in Requests |->
                               IF q \in S THEN "finished" ELSE jobStateBar[q]]
          /\ outcome' = [q \in Requests |->
                           IF q \in S THEN o[q] ELSE outcome[q]]
      BY <1>9 DEF Crash, StalledOut, jobStateBar, JobStateOf
    <3>3. JS!Drop(S)
      BY <2>1, <2>3, <3>1, <3>2 DEF JS!Drop, jobStateBar, recordBar
    <3>4. QED
      BY <3>3 DEF JS!Next
  <2>4. QED
    BY <2>2, <2>3
<1>10. QED
  BY <1>2, <1>3, <1>4, <1>5, <1>6, <1>7, <1>8, <1>9 DEF Next, JobStep

(***************************************************************************)
(* AsyncProcessingQueue implements JobStatus, the status contract of     *)
(* spec 4.4 read at task:::uuid, for every set of requests, concurrency   *)
(* limit, maxStalledCount and number of crashes: a task is enqueued once, *)
(* its record is IN_PROGRESS before DONE or FAILED, done() finishes the   *)
(* job as its record says, and a finished job's record and outcome stay.  *)
(* The allowance JobStatus makes is the one the crash recovery needs: a   *)
(* job still in the queue may start over.                                 *)
(***************************************************************************)
THEOREM ImplementsJobStatus ==
    ASSUME Impl = "async" PROVE Spec => JobStatusSpec
<1>1. Init => JS!Init
  BY DEF Init, JS!Init, JobStateOf, RecordOf
<1>2. Init => TypeInv /\ RecordInv
  BY TypeInvInit, RecordInit
<1>3. TypeInv /\ RecordInv /\ [Next]_vars => TypeInv' /\ RecordInv'
  BY TypeInvStep, RecordStep
<1>4. QED
  BY <1>1, <1>2, <1>3, RefineStep, PTL DEF Spec, JobStatusSpec, JS!Spec

=============================================================================
