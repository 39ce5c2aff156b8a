\* One byte in each buffer, two bytes each way: every buffer can be full with
\* more to come.
SPECIFICATION FairSpec
CONSTANTS
    RecvCap = 1
    SendCap = 1
    RxCap = 1
    TxCap = 1
    MaxIn = 2
    MaxOut = 2
INVARIANTS
    FinBehindAllData
    EofIsTheEnd
    NoLostReadWakeup
PROPERTIES
    BytesAreRead
    ClosedGetsFin
CHECK_DEADLOCK FALSE
