\* The end of the stream overtakes the last bytes.
SPECIFICATION Spec
CONSTANTS
    RecvCap = 1
    SendCap = 1
    RxCap = 1
    TxCap = 1
    MaxIn = 2
    MaxOut = 2
PROPERTY EofOnlyWhenDrained
CHECK_DEADLOCK FALSE
