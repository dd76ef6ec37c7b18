CONSTANTS
    Drives = {"hda", "hdc", "raw", "rawrw"}
    RawDrives = {"raw", "rawrw"}
    InPlace = {"rawrw"}
    NumSectors = 3
    BlockSectors = 2
    Values = {image, written}
    Image = image
    Idle = Idle
    Uses <- AllUses
SPECIFICATION FairSpec
INVARIANT SlotAwaited
PROPERTIES ImplementsDisk Answered
CHECK_DEADLOCK FALSE
