SPECIFICATION Spec
CONSTANTS
    Blocks = {b1}
    None = None
    MaxReports = 1
    MaxConfigs = 1
    MaxFaults = 0
INVARIANTS ConfigDelivered
