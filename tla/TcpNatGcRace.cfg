\* A session is refreshed while the GC waits for the locks.
CONSTANTS
    Key = {k1, k2}
    Task = {t1}
    Reset = {}
    NAT_PORT_START = 2
    NAT_PORT_END = 3
    Timeout = 1
    Throttle = 1
    MaxTime = 2
    None = None
SPECIFICATION SpecNoReset
PROPERTY GcRemovesOnlyExpired
