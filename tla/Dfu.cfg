\* Two images of three cells, a buffer of two; three hosts, one HID report, two
\* commands of MCUmgr, one failure of the flash, one reboot.
SPECIFICATION FairSpec
CONSTANTS
    Images = {a, b}
    None = None
    Length = 3
    Slot = 3
    Buffer = 2
    MaxHosts = 3
    MaxUse = 1
    MaxCommands = 2
    MaxErrors = 1
    MaxReboots = 1
INVARIANTS TypeOK OneWriter SlotIsPrefix
PROPERTIES LockIsReleased
CHECK_DEADLOCK FALSE
