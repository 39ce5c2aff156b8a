\* One lookup runs between the two statements of clear.
CONSTANTS
    Key = {k1, k2, k3}
    Task = {t1}
    Reset = {r1}
    NAT_PORT_START = 2
    NAT_PORT_END = 3
    Timeout = 1
    Throttle = 1
    MaxTime = 1
    None = None
SPECIFICATION Spec
INVARIANT NoSharedPort
