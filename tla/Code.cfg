CONSTANTS
    MaxFaults = 2
    MaxRepeats = 2
    Lins = {l1, l2}
    Pages = {p1, p2}
    LastChunk = 1
    MaxTlb = 3
    MaxTraces = 2
    None = None
    Uses <- TransfersAndRemaps
SPECIFICATION CodeSpec
SYMMETRY Symmetry
\* One instruction is executed; then there is nothing more to do.
CHECK_DEADLOCK FALSE
INVARIANTS TypesOK Precise NotTorn StoresChecked CodeFresh CodeGuarded MappingsFollowed
