CONSTANTS
    w1 = w1
    w2 = w2
    r1 = r1
    r2 = r2
    Workers = {w1, w2}
    NoWorker = NoWorker
    Runners = {r1, r2}
    NoRunner = NoRunner
    MaxDeployments = 1
    MaxOps = 2
    MaxFaults = 1
    RetryLimit = 2
    MaxRecoveries = 1
    CanaryModes = {TRUE, FALSE}
    OwnerActs = {"stop", "delete"}
SPECIFICATION Spec
CHECK_DEADLOCK FALSE
SYMMETRY DeploymentSymmetry
INVARIANTS
    TypeOK
    CanaryOnce
    ReadyIsVerified
PROPERTIES
    FollowsStages
