CONSTANTS
    NumLines = 3
    Cascade = 1
    DeviceLines <- FourDevices
    Masks <- SomeMasks
    Uses <- NestedOnly
SPECIFICATION Spec
INVARIANTS EmptyIsrSignals
CHECK_DEADLOCK FALSE
