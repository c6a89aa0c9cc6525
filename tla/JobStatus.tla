------------------------------ MODULE JobStatus ------------------------------
(***************************************************************************)
(* What the job queue promises a client (spec 4.4): a task is enqueued    *)
(* once; while its job is in the queue the wrapper keeps a status record  *)
(* for it, IN_PROGRESS while the handler runs and then DONE or FAILED;    *)
(* the queue removes the job once, and from then on the record stays as  *)
(* it was, so a client polling by request id reads the terminal state.    *)
(* A job that finished with done() finished the way its record says.      *)
(* The one allowance for the queue's recovery: a job still in the queue   *)
(* may be run again, which starts its record over.                        *)
(***************************************************************************)
CONSTANTS Requests

VARIABLES
    jobState,  \* jobState[r]: "none", "queued" or "finished"
    record,    \* record[r]: the status record a client reads for r
    outcome    \* outcome[r]: how the queue finished r's job

jobVars == <<jobState, record, outcome>>

Terminal == {"DONE", "FAILED"}

\* The ways the queue finishes a job without a handler's done(): failed
\* as stalled, or failed for lack of a processor.
Lost == {"stalledOut", "noHandler"}

Init ==
    /\ jobState = [r \in Requests |-> "none"]
    /\ record = [r \in Requests |-> "none"]
    /\ outcome = [r \in Requests |-> "none"]

\* enqueue(task, params).
Enqueue(r) ==
    /\ jobState[r] = "none"
    /\ jobState' = [jobState EXCEPT ![r] = "queued"]
    /\ UNCHANGED <<record, outcome>>

\* A handler starts on a queued job: its record says in_progress.
Start(r) ==
    /\ jobState[r] = "queued"
    /\ record' = [record EXCEPT ![r] = "IN_PROGRESS"]
    /\ UNCHANGED <<jobState, outcome>>

\* The handler returns or throws: its record says done or failed.
Settle(r) ==
    /\ jobState[r] = "queued"
    /\ record[r] = "IN_PROGRESS"
    /\ record' \in {[record EXCEPT ![r] = s] : s \in Terminal}
    /\ UNCHANGED <<jobState, outcome>>

\* The handler's done(): the job leaves the queue as its record says.
Finish(r) ==
    /\ jobState[r] = "queued"
    /\ record[r] \in Terminal
    /\ jobState' = [jobState EXCEPT ![r] = "finished"]
    /\ outcome' = [outcome EXCEPT ![r] =
                     IF record[r] = "DONE" THEN "completed" ELSE "failed"]
    /\ UNCHANGED record

\* The queue itself fails a set of queued jobs at once, whatever their
\* records say.
Drop(S) ==
    /\ S # {}
    /\ \A r \in S : jobState[r] = "queued"
    /\ \E o \in [S -> Lost] :
         /\ jobState' = [r \in Requests |->
                           IF r \in S THEN "finished" ELSE jobState[r]]
         /\ outcome' = [r \in Requests |->
                          IF r \in S THEN o[r] ELSE outcome[r]]
    /\ UNCHANGED record

Next ==
    \/ \E r \in Requests : Enqueue(r) \/ Start(r) \/ Settle(r) \/ Finish(r)
    \/ \E S \in SUBSET Requests : Drop(S)

Spec == Init /\ [][Next]_jobVars

=============================================================================
