SPECIFICATION Spec
CONSTANTS
    NoWorker = NoWorker
    Requests = {r1}
    Workers = {w1}
    PrintRetryAttempts = 2
CHECK_DEADLOCK FALSE
INVARIANTS OneLabel
