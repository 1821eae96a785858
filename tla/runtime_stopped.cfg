CONSTANTS
    w1 = w1
    w2 = w2
    Workers = {w1, w2}
    NoWorker = NoWorker
    Operations = {1, 2, 3, 4, 5, 6, 7}
    MaxRecoveries = 1
    MaxAttempts = 2
    MaxRequests = 2
    MaxFaults = 0
SPECIFICATION Spec
CHECK_DEADLOCK FALSE
INVARIANT
    IntentionallyStopped
