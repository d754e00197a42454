SPECIFICATION Spec
CONSTANTS
    Keys = {k1, k2}
    ItemCountMax = 1
    EventQueueSize = 2
    Pipeline = 2
    SentOnSof = TRUE
    XYMax = 3
    XYMaxBoot = 1
    Motions <- MCMotions
    MaxInputs = 3
    MaxHost = 3
    MaxErrors = 1
    Backlog = 2
    Expiry = FALSE
    CalmHost = TRUE
SYMMETRY MCSymmetry
INVARIANTS BufferForEveryReport CreditExact NoStuckKey
CHECK_DEADLOCK FALSE
