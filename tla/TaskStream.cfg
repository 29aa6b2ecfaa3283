\* Two consumers, two entries of one task, one crash or failing
\* command, one handler slower than stale_ms; XAUTOCLAIM replies as the code
\* expects.
CONSTANTS
    Workers = {w1, w2}
    Tasks = {t1}
    NoWorker = NoWorker
    NoTask = NoTask
    MaxRetries = 2
    MaxLen = 1
    ReplyParts = 2
    MaxEntries = 2
    MaxFaults = 1
    MaxOvertakes = 1
SPECIFICATION Spec
INVARIANTS TypeOK  OnceUndisturbed SettledAccounted DeadLetterEarned AttemptsBounded
PROPERTY EventuallySettled
CHECK_DEADLOCK FALSE
