CONSTANTS
    Lines <- ThreeLines
    Vectors <- ThreeVectors
    LevelVectors <- OneLevelVector
    Priorities <- TwoPriorities
    Uses <- PeekingOnly
SPECIFICATION Spec
PROPERTIES OnlyCpuAcknowledges
CHECK_DEADLOCK FALSE
