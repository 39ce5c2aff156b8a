\* A blocked writer misses the news that the socket is gone.
SPECIFICATION FairSpec
CONSTANTS
    RecvCap = 1
    SendCap = 1
    RxCap = 1
    TxCap = 1
    MaxIn = 2
    MaxOut = 2
PROPERTY WriterReleased
CHECK_DEADLOCK FALSE
