\* The server of docker-compose.yml and k8s/redis.yaml: XAUTOCLAIM replies with
\* three parts.  Nothing else goes wrong.
CONSTANTS
    Workers = {w1, w2}
    Tasks = {t1}
    NoWorker = NoWorker
    NoTask = NoTask
    MaxRetries = 2
    MaxLen = 2
    ReplyParts = 3
    MaxEntries = 2
    MaxFaults = 0
    MaxOvertakes = 0
SPECIFICATION Spec
PROPERTY EventuallySettled
CHECK_DEADLOCK FALSE
