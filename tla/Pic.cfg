CONSTANTS
    NumLines = 3
    Cascade = 1
    DeviceLines <- FourDevices
    Masks <- SomeMasks
    Uses <- AllUses
SPECIFICATION FairSpec
INVARIANTS NoReentry NestingOrder NoLostRequest
PROPERTIES HighestFirst StrandingSteps AllServed
CHECK_DEADLOCK FALSE
