CONSTANTS
    p1 = p1
    p2 = p2
    Publishers = {p1, p2}
    NoOne = NoOne
    MaxGeneration = 2
    MaxPublishAttempts = 2
    MaxDeliveries = 2
    RollbackAllowed = TRUE
SPECIFICATION FairSpec
INVARIANTS
    TypeOK
    CurrentGeneration
    BoundedProviderEffects
    DrainedOnce
PROPERTIES
    NoStaleDrain
    OnlyLeaseHolderPublishes
    ExhaustedNeedsReplay
    SettledRowsAreFinal
    PublicationSettles
CHECK_DEADLOCK FALSE
