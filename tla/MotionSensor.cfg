\* Two stages of CPI, two rates that are out of bounds on either side; two motions, two
\* inputs of users, hosts, USB and power, one failed read or write of the sensor.  The
\* mouse at rest does nothing more.
SPECIFICATION FairSpec
CONSTANTS
    Stages = 2
    Rates = {0, 9}
    EsbRate = 7
    MinRate = 1
    MaxRate = 8
    DefaultRate = 1
    HostOptions = {"stage", "poll_esb"}
    NoDataLimit = 1
    MaxMoves = 2
    MaxInputs = 2
    MaxErrors = 1
INVARIANTS TypeOK NeverDeaf SensorFollowsOptions
PROPERTIES MotionIsSampled
CHECK_DEADLOCK FALSE
