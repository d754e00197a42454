\* A wheel step of two units, packets of one wheel event, two packets in the FIFO, rates of
\* 4 and 8 kHz and 0.5 ms between acknowledgements, which are two packets, or four single
\* ones at 8 kHz; two samples told apart, two inputs, one fault.
SPECIFICATION FairSpec
CONSTANTS
    Keys = {left}
    Divider = 2
    Turns <- MCTurns
    WheelLimit = 1
    Rates = {4, 8}
    EightK = 8
    AckTime = 1
    Second = 2
    Capacity = 2
    MaxSamples = 2
    MaxInputs = 2
    MaxFaults = 1
INVARIANTS TypeOK WheelConserved MotionOnce
PROPERTIES InputArrives
CHECK_DEADLOCK FALSE
