CONSTANTS
    TicksPerSecond = 16
    PitClock = 11
    AcpiClock = 12
    Reload = 8
    Wide = 16
    AcpiWrap = 4
    BootRate = 2
    MaxSlice = 5
    Never = 99
    MaxOwed = 3
    Uses <- OneShotOnly
SPECIFICATION Spec
INVARIANTS NeverEarly
