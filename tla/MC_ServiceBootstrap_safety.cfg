\* Start-up with up to two restarts and every one-shot await allowed to
\* throw.
CONSTANTS
    SpIds <- MCSpIds
    OneShotOutcomes = {TRUE, FALSE}
    MaxRestarts = 2
SPECIFICATION Spec
INVARIANT DependentsHaveIdentity
\* The start-up ends (done or rejected): the node then serves requests.
CHECK_DEADLOCK FALSE
