CONSTANTS
    w1 = w1
    w2 = w2
    a1 = a1
    a2 = a2
    Workers = {w1, w2}
    NoWorker = NoWorker
    Agents = {a1, a2}
    NoRunner = NoRunner
    Residents = {a1}
    MaxReplacements = 1
    MaxAttempts = 2
    Budget = 2
    Capacity = 1
    MaxFaults = 1
    MaxSweeps = 3
SPECIFICATION FairSpec
CHECK_DEADLOCK FALSE
INVARIANTS
    TypeOK
    CreatedOnce
    HandoverFenced
PROPERTIES
    Settles
    ServingDropletKept
    Relocates
