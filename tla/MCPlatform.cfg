SPECIFICATION Spec
CONSTANTS
    PrioBase = 9000
    NopOffset = 100
    MaxStarts = 2
    MaxFaults = 1
    UidTop = 5
    Width = 4
INVARIANTS
    TeardownRestores
    TrafficAsConfigured
    RegisteredIsPhysical
    UidRangesExact
    RoutesAreTheDifference
PROPERTIES
    TeardownSparesHost
CHECK_DEADLOCK FALSE
