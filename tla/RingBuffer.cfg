\* Five slots, and a stream long enough to wrap around twice.
SPECIFICATION Spec
CONSTANTS
    Capacity = 5
    MaxBytes = 14
INVARIANTS
    InOrder
    NoDataRace
    FlagsExact
PROPERTY ChannelSpec
CHECK_DEADLOCK FALSE
