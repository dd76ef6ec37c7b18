CONSTANTS
    Lines <- ThreeLines
    Vectors <- ThreeVectors
    LevelVectors <- OneLevelVector
    Priorities <- TwoPriorities
    Uses <- AllUses
SPECIFICATION FairSpec
INVARIANTS NoLostInterrupt TakenOutranks LevelInFlight
PROPERTIES RequestTaken
CHECK_DEADLOCK FALSE
