SPECIFICATION FairSpec
CONSTANTS
    Blocks = {b1, b2}
    None = None
    MaxReports = 3
    MaxConfigs = 1
    MaxFaults = 1
INVARIANTS TypeOK BlocksAccounted StreamIntact
PROPERTIES HostNeverGoesBack StreamDrains
