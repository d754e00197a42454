SPECIFICATION FairSpec
CONSTANTS
    Dongles = {d1, d2}
    None = None
    MaxPresses = 3
    MaxReboots = 1
INVARIANTS TypeOK DonglePairingEnds PairedMeet
PROPERTIES OnlyPairingPairs PairingModeEnds
CHECK_DEADLOCK FALSE
