CONSTANTS
    Channels = {"primary", "secondary"}
    Primary = "primary"
    Type <- Types
    RawDrives <- Raw
    Byte = 4
    SectorSize = 8
    NumSectors = 8
    BlockSectors = 3
    Heads = 2
    SectorsPerTrack = 2
    SectorAccesses = 2
    Uses <- AllUses
SPECIFICATION FairSpec
INVARIANTS TypeOK DataInPlace AllMoved CompletionAwaited OnlyKnownFatal
PROPERTIES CommandsEnd
CHECK_DEADLOCK FALSE
