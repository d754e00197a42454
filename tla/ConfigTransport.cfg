SPECIFICATION FairSpec
CONSTANTS
    usb = usb
    esb = esb
    Transports <- MCTransports
    LowMax = 2
    MaxRequests <- MCMaxRequests
INVARIANTS TypeOK WaitsForSomething ReadyAnswersLast MatchIsAwaited
PROPERTIES HostIsAnswered
CHECK_DEADLOCK FALSE
