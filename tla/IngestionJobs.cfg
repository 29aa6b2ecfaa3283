\* One job, two restarts of the server and two saves that fail.
CONSTANTS
    Jobs = {j1}
    MaxRestarts = 2
    MaxSaveFailures = 2
SPECIFICATION Spec
INVARIANTS TypeOK CommittedOnce
PROPERTIES  EventuallyEnded SavedEventuallyEnded
CHECK_DEADLOCK FALSE
