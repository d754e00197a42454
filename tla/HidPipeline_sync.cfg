SPECIFICATION FairSpec
CONSTANTS
    Keys = {k1, k2}
    ItemCountMax = 2
    EventQueueSize = 4
    Pipeline = 1
    SentOnSof = FALSE
    XYMax = 3
    XYMaxBoot = 1
    Motions <- MCMotions
    MaxInputs = 4
    MaxHost = 3
    MaxErrors = 0
    Backlog = 2
    Expiry = TRUE
    CalmHost = TRUE
INVARIANTS TypeOK LinkRouted MotionConserved
PROPERTIES HostCatchesUp
CHECK_DEADLOCK FALSE
