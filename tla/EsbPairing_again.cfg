SPECIFICATION Spec
CONSTANTS
    Dongles = {d1}
    None = None
    MaxPresses = 3
    MaxReboots = 0
INVARIANTS PairingModeAsks
CHECK_DEADLOCK FALSE
