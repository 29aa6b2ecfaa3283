\* One job under review when the server restarts.
CONSTANTS
    Jobs = {j1}
    MaxRestarts = 1
    MaxSaveFailures = 0
SPECIFICATION Spec
INVARIANT ReviewHasSubJobs
CHECK_DEADLOCK FALSE
