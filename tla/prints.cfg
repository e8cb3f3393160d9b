SPECIFICATION FairSpec
CONSTANTS
    NoWorker = NoWorker
    Requests = {r1, r2}
    Workers = {w1}
    PrintRetryAttempts = 2
CHECK_DEADLOCK FALSE
INVARIANTS TypeOK SafeToResend NoSilentLoss WorkersKept
PROPERTIES EveryPrintAnswered
