CONSTANTS
    w1 = w1
    w2 = w2
    r1 = r1
    r2 = r2
    Workers = {w1, w2}
    NoWorker = NoWorker
    Runners = {r1, r2}
    NoRunner = NoRunner
    MaxDeployments = 2
    MaxOps = 1
    MaxFaults = 0
    RetryLimit = 1
    MaxRecoveries = 1
    CanaryModes = {TRUE, FALSE}
    OwnerActs = {"retry", "stop", "delete"}
SPECIFICATION Spec
CHECK_DEADLOCK FALSE
SYMMETRY DeploymentSymmetry

    
    
PROPERTIES
    StopIsFinal
