----------------------------- MODULE AsyncQueue -----------------------------
(***************************************************************************)
(* The creator node's file-processing job queue: a Bull queue named        *)
(* "fileProcessing" whose handler wraps each task in monitorProgress,      *)
(* which writes the job's status under the redis key task:::uuid that     *)
(* clients poll.  Two implementations live in                             *)
(* src/creator-node/src/FileProcessingQueue.js:                           *)
(*   - "async": AsyncProcessingQueue (lines 349-535), one handler that     *)
(*     dispatches on job.data.task through getFn;                          *)
(*   - "file": FileProcessingQueue (lines 1-200), one named processor per  *)
(*     task name.                                                          *)
(* The node may crash and restart; Bull then moves the jobs it finds       *)
(* active back to waiting, or fails them once they stalled too often.     *)
(***************************************************************************)
EXTENDS Naturals, FiniteSets

CONSTANTS
    Requests,         \* request ids (logContext.requestID) of added tasks
    Impl,             \* "async" or "file": which class runs the queue
    MaxConcurrency,   \* MAX_CONCURRENCY of queue.process
    MaxStalledCount,  \* Bull's maxStalledCount (default 1)
    MaxCrashes        \* bound on node crashes (model bound)

ASSUME ImplAssumption == Impl \in {"async", "file"}
ASSUME ConcurrencyAssumption == MaxConcurrency \in Nat \ {0}
ASSUME StallAssumption == MaxStalledCount \in Nat
ASSUME CrashAssumption == MaxCrashes \in Nat

\* PROCESS_NAMES
Tasks == {"trackContentUpload", "transcodeAndSegment",
          "processTranscodeAndSegments"}

\* PROCESS_STATES, and "none" for a key redis does not hold.
Terminal == {"DONE", "FAILED"}
Statuses == {"none", "IN_PROGRESS"} \cup Terminal

VARIABLES
    task,     \* task[r]: the task added for request r ("none": not added)
    job,      \* job[r]: r's Bull job: none, waiting, active, or removed
              \*   once finished (removeOnComplete, removeOnFail)
    outcome,  \* outcome[r]: how Bull finished r's job
    stalls,   \* stalls[r]: Bull's stalledCounter of r's job
    run,      \* run[r]: where r's handler is
    status,   \* status[t, r]: the value of the redis key t:::r
    crashes   \* number of node crashes so far

vars == <<task, job, outcome, stalls, run, status, crashes>>

\* How a job leaves the queue: done(null, ..), done(err), failed by the
\* stalled-job check, or failed for lack of a processor for its name.
Outcomes == {"none", "completed", "failed", "stalledOut", "noHandler"}

\* Program points of the handler between its awaits.
\* "hung": a processor whose promise rejected without calling done().
RunPCs == {"idle", "setInProgress", "callFn", "setDone", "setFailed",
           "doneOk", "doneErr", "hung"}

(***************************************************************************)
(* The task name monitorProgress is given, hence the key it writes:       *)
(* AsyncProcessingQueue passes job.data.task (line 395); both processors  *)
(* of FileProcessingQueue pass PROCESS_NAMES.trackContentUpload (lines 53 *)
(* and 80), a write those processors never reach (HandlerEntry).          *)
(***************************************************************************)
\* Mutant: the dispatcher writes every task under the trackContentUpload key.
KeyTaskCopyPaste(t) == "trackContentUpload"

KeyTask(t) == IF Impl = "async" THEN t ELSE "trackContentUpload"

\* Job names with a processor: the one unnamed processor (line 389), or
\* the two named ones (lines 45 and 72).
Handled == IF Impl = "async" THEN Tasks
                             ELSE {"trackContentUpload", "transcodeAndSegment"}

(***************************************************************************)
(* Where a handler started on a job goes first.  The async handler reads  *)
(* job.data and calls monitorProgress with it.  Each FileProcessingQueue  *)
(* processor reads job.data.trackContentUploadParams (lines 49 and 76),   *)
(* which addTask never sets (line 189 enqueues the params themselves):    *)
(* monitorProgress rejects while destructuring its undefined third        *)
(* argument, before any redis write, and the catch throws reading         *)
(* trackContentUploadParams.logContext (lines 60 and 87) before done().   *)
(* The processor's promise rejects and Bull keeps the job active.         *)
(***************************************************************************)
HandlerEntry == IF Impl = "async" THEN "setInProgress" ELSE "hung"

\* Bull runs one fetch loop per unit of concurrency of every process()
\* call, each loop taking a job of any name: 100, or 100 + 100.
Capacity == IF Impl = "async" THEN MaxConcurrency ELSE 2 * MaxConcurrency

Active == {r \in Requests : job[r] = "active"}

Init ==
    /\ task = [r \in Requests |-> "none"]
    /\ job = [r \in Requests |-> "none"]
    /\ outcome = [r \in Requests |-> "none"]
    /\ stalls = [r \in Requests |-> 0]
    /\ run = [r \in Requests |-> "idle"]
    /\ status = [k \in Tasks \X Requests |-> "none"]
    /\ crashes = 0

\* add<Task>Task, then addTask: queue.add durably enqueues the job.
AddTask(r, t) ==
    /\ task[r] = "none"
    /\ task' = [task EXCEPT ![r] = t]
    /\ job' = [job EXCEPT ![r] = "waiting"]
    /\ UNCHANGED <<outcome, stalls, run, status, crashes>>

(***************************************************************************)
(* A free fetch loop takes a waiting job.  A job whose name has no        *)
(* processor fails at once ("Missing process handler"); otherwise the     *)
(* handler starts (HandlerEntry).                                          *)
(***************************************************************************)
ProcessJob(r) ==
    /\ job[r] = "waiting"
    /\ Cardinality(Active) < Capacity
    /\ IF task[r] \in Handled
         THEN /\ job' = [job EXCEPT ![r] = "active"]
              /\ run' = [run EXCEPT ![r] = HandlerEntry]
              /\ UNCHANGED outcome
         ELSE /\ job' = [job EXCEPT ![r] = "removed"]
              /\ outcome' = [outcome EXCEPT ![r] = "noHandler"]
              /\ UNCHANGED run
    /\ UNCHANGED <<task, stalls, status, crashes>>

\* monitorProgress: await redisClient.set(key, IN_PROGRESS).
SetInProgress(r) ==
    /\ run[r] = "setInProgress"
    /\ status' = [status EXCEPT ![<<KeyTask(task[r]), r>>] = "IN_PROGRESS"]
    /\ run' = [run EXCEPT ![r] = "callFn"]
    /\ UNCHANGED <<task, job, outcome, stalls, crashes>>

\* await func(...): the track handler resolves or throws.
CallFn(r) ==
    /\ run[r] = "callFn"
    /\ \E next \in {"setDone", "setFailed"} : run' = [run EXCEPT ![r] = next]
    /\ UNCHANGED <<task, job, outcome, stalls, status, crashes>>

\* Mutant: the catch writes PROCESS_STATES.DONE, as the try does.
SetFinalAlwaysDone(r) ==
    /\ run[r] \in {"setDone", "setFailed"}
    /\ status' = [status EXCEPT ![<<KeyTask(task[r]), r>>] = "DONE"]
    /\ run' = [run EXCEPT ![r] = IF run[r] = "setDone" THEN "doneOk"
                                                       ELSE "doneErr"]
    /\ UNCHANGED <<task, job, outcome, stalls, crashes>>

\* await redisClient.set(key, DONE) in the try, or set(key, FAILED) in the
\* catch, which then rethrows to the processor.
SetFinal(r) ==
    /\ run[r] \in {"setDone", "setFailed"}
    /\ status' = [status EXCEPT ![<<KeyTask(task[r]), r>>] =
                    IF run[r] = "setDone" THEN "DONE" ELSE "FAILED"]
    /\ run' = [run EXCEPT ![r] = IF run[r] = "setDone" THEN "doneOk"
                                                       ELSE "doneErr"]
    /\ UNCHANGED <<task, job, outcome, stalls, crashes>>

\* Mutant: the processor never calls done(), so the job keeps its slot.
JobDoneNoRelease(r) ==
    /\ run[r] \in {"doneOk", "doneErr"}
    /\ run' = [run EXCEPT ![r] = "idle"]
    /\ outcome' = [outcome EXCEPT ![r] =
                    IF run[r] = "doneOk" THEN "completed" ELSE "failed"]
    /\ UNCHANGED <<task, job, stalls, status, crashes>>

\* done(null, {response}) or, in the processor's catch, done(e.toString());
\* Bull then removes the job.
JobDone(r) ==
    /\ run[r] \in {"doneOk", "doneErr"}
    /\ run' = [run EXCEPT ![r] = "idle"]
    /\ job' = [job EXCEPT ![r] = "removed"]
    /\ outcome' = [outcome EXCEPT ![r] =
                    IF run[r] = "doneOk" THEN "completed" ELSE "failed"]
    /\ UNCHANGED <<task, stalls, status, crashes>>

\* Mutant: the stalled-job check never fails a job.
CrashNoStallLimit ==
    /\ crashes < MaxCrashes
    /\ crashes' = crashes + 1
    /\ run' = [r \in Requests |-> "idle"]
    /\ stalls' = [r \in Requests |->
                    IF job[r] = "active" THEN stalls[r] + 1 ELSE stalls[r]]
    /\ job' = [r \in Requests |->
                 IF job[r] = "active" THEN "waiting" ELSE job[r]]
    /\ UNCHANGED <<task, outcome, status>>

(***************************************************************************)
(* The node crashes and restarts: every running handler is lost, redis   *)
(* keeps the statuses and the queue.  Bull's stalled-job check increments *)
(* the stalledCounter of each job left active and moves it back to        *)
(* waiting, or fails it once the counter exceeds maxStalledCount.         *)
(***************************************************************************)
StalledOut(r) == job[r] = "active" /\ stalls[r] + 1 > MaxStalledCount

Crash ==
    /\ crashes < MaxCrashes
    /\ crashes' = crashes + 1
    /\ run' = [r \in Requests |-> "idle"]
    /\ stalls' = [r \in Requests |->
                    IF job[r] = "active" THEN stalls[r] + 1 ELSE stalls[r]]
    /\ job' = [r \in Requests |->
                 IF StalledOut(r) THEN "removed"
                 ELSE IF job[r] = "active" THEN "waiting" ELSE job[r]]
    /\ outcome' = [r \in Requests |->
                     IF StalledOut(r) THEN "stalledOut" ELSE outcome[r]]
    /\ UNCHANGED <<task, status>>

\* The steps of r's job and handler.
JobStep(r) ==
    \/ ProcessJob(r) \/ SetInProgress(r) \/ CallFn(r) \/ SetFinal(r)
    \/ JobDone(r)

Next ==
    \/ \E r \in Requests, t \in Tasks : AddTask(r, t)
    \/ \E r \in Requests : JobStep(r)
    \/ Crash

Spec == Init /\ [][Next]_vars

(***************************************************************************)
(* Fairness: Bull's fetch loops keep taking waiting jobs while a loop is  *)
(* free, and the event loop resumes every handler's awaits: weak fairness *)
(* on each job's steps.  The track handlers are assumed to return or      *)
(* throw.  Crashes are not required to happen.                            *)
(***************************************************************************)
FairSpec == Spec /\ \A r \in Requests : WF_vars(JobStep(r))

-----------------------------------------------------------------------------
TypeOK ==
    /\ task \in [Requests -> Tasks \cup {"none"}]
    /\ job \in [Requests -> {"none", "waiting", "active", "removed"}]
    /\ outcome \in [Requests -> Outcomes]
    /\ stalls \in [Requests -> 0..MaxStalledCount + 1]
    /\ run \in [Requests -> RunPCs]
    /\ status \in [Tasks \X Requests -> Statuses]
    /\ crashes \in 0..MaxCrashes

(***************************************************************************)
(* When a processor finishes a job with done(), a client polling the key  *)
(* of the job's task reads the matching terminal state: DONE when the job *)
(* completed, FAILED when it failed (monitorProgress writes before it     *)
(* returns or rethrows).  It holds across crashes that rerun a job, and   *)
(* breaks if the status is written under another task's key.              *)
(***************************************************************************)
HandlerOutcomeMatchesStatus ==
    \A r \in Requests :
        /\ outcome[r] = "completed" => status[<<task[r], r>>] = "DONE"
        /\ outcome[r] = "failed" => status[<<task[r], r>>] = "FAILED"

(***************************************************************************)
(* The strengthening of HandlerOutcomeMatchesStatus that every step keeps  *)
(* (the proofs use it): a running handler belongs to an active job of an  *)
(* added task, a queued job has stalled at most maxStalledCount times;    *)
(* once monitorProgress has written DONE or FAILED, that is what the key *)
(* holds until done(); and a job done() finished has left the queue for   *)
(* good, so nothing of its handler runs again.                            *)
(***************************************************************************)
JobShape(r) ==
    /\ job[r] = "none" <=> task[r] = "none"
    /\ job[r] = "none" => stalls[r] = 0
    /\ run[r] # "idle" => job[r] = "active"
    /\ job[r] \in {"waiting", "active"} => stalls[r] <= MaxStalledCount

HandlerState(r) ==
    /\ JobShape(r)
    /\ run[r] = "doneOk" => status[<<task[r], r>>] = "DONE"
    /\ run[r] = "doneErr" => status[<<task[r], r>>] = "FAILED"
    /\ outcome[r] \in {"completed", "failed"} => job[r] = "removed"

QueueInductive ==
    /\ TypeOK
    /\ HandlerOutcomeMatchesStatus
    /\ \A r \in Requests : HandlerState(r)

(***************************************************************************)
(* Spec 4.4: completed and failed jobs are removed from the queue, and    *)
(* their status entries linger so that a client polling task:::uuid sees  *)
(* the terminal state.  Whatever way Bull finished r's job, the key of    *)
(* r's task holds DONE or FAILED.                                         *)
(***************************************************************************)
FinishedJobHasTerminalStatus ==
    \A r \in Requests :
        outcome[r] # "none" => status[<<task[r], r>>] \in Terminal

(***************************************************************************)
(* Spec 4.4: jobs are not retried by the queue, so a terminal status a    *)
(* client has read is never replaced: no step overwrites DONE or FAILED.  *)
(***************************************************************************)
TerminalStatusStable ==
    [][\A k \in Tasks \X Requests :
          status[k] \in Terminal => status'[k] = status[k]]_status

(***************************************************************************)
(* Once Bull has finished r's job (done(), the stalled-job check, or no   *)
(* processor), no step changes how it finished or any status key of r:    *)
(* the rerun that overwrites DONE (TerminalStatusStable) can only happen  *)
(* while the job is still active, never after Bull removed it.  It breaks *)
(* if done() left a finished job in the queue for a crash to requeue.     *)
(***************************************************************************)
FinishedJobFrozen ==
    [][\A r \in Requests :
          outcome[r] # "none" =>
              /\ outcome'[r] = outcome[r]
              /\ \A t \in Tasks : status'[<<t, r>>] = status[<<t, r>>]]_vars

(***************************************************************************)
(* Every added task's job eventually leaves the queue: the fetch loops    *)
(* are never held by finished handlers and crashes do not lose jobs.      *)
(***************************************************************************)
EventuallyFinished ==
    \A r \in Requests : task[r] # "none" ~> outcome[r] # "none"


-----------------------------------------------------------------------------
(***************************************************************************)
(* The queue as a client of spec 4.4 sees it: a job is in the queue while *)
(* Bull holds it (waiting or active), and its status record is the key    *)
(* a client polls for it, task:::uuid of the job's own task (spec 4.4).    *)
(***************************************************************************)
JobStateOf(r) ==
    CASE job[r] = "none"    -> "none"
      [] job[r] = "removed" -> "finished"
      [] OTHER              -> "queued"

RecordOf(r) == IF task[r] = "none" THEN "none" ELSE status[<<task[r], r>>]

JS == INSTANCE JobStatus WITH
        jobState <- [r \in Requests |-> JobStateOf(r)],
        record <- [r \in Requests |-> RecordOf(r)]

(***************************************************************************)
(* AsyncProcessingQueue implements JobStatus: each task is enqueued once,  *)
(* its task:::uuid record is IN_PROGRESS before it is DONE or FAILED, a   *)
(* job done() removes finished as its record says, and a removed job's    *)
(* record never changes; Bull's stalled-job recovery only reruns jobs it  *)
(* still holds.  It breaks if done() leaves the job in the queue, a       *)
(* status is written for a job that has left it, or under another key.    *)
(* FileProcessingQueue does not: its processors write no record at all.   *)
(***************************************************************************)
JobStatusSpec == JS!Spec

=============================================================================
