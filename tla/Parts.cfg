CONSTANTS
    MaxTrace = 3
    Rooms <- MCRooms
    PrefixLists <- MCPrefixLists
    Operands <- MCOperands
    QueueSize = 5
    KbdUses <- MCKbdUses
    NumSectors = 4
    TrackSectors = 2
    Heads = 2
    BlockSectors = 3
    Chunked = {0}
    Protected = {1}
    FdcUses <- MCFdcUses
SPECIFICATION PartSpec
\* The user and the drivers have done all they do.
CHECK_DEADLOCK FALSE
INVARIANTS TypesOK InPage FetchNeeded SegmentsDropped BytesInOrder OwnerShown NotStranded AnswersFit
PROPERTY CommandsAnswered
