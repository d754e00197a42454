\* One motion wakes the suspended mouse.
SPECIFICATION FairSpec
CONSTANTS
    Stages = 2
    Rates = {1}
    EsbRate = 7
    MinRate = 1
    MaxRate = 8
    DefaultRate = 1
    HostOptions = {"stage", "poll_esb"}
    NoDataLimit = 1
    MaxMoves = 1
    MaxInputs = 2
    MaxErrors = 0
PROPERTIES WokenIsSampled
CHECK_DEADLOCK FALSE
