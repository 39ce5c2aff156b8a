\* Three flows and two tasks for two ports: the table fills up and the cursor wraps.
CONSTANTS
    Key = {k1, k2, k3}
    Task = {t1, t2}
    Reset = {}
    NAT_PORT_START = 2
    NAT_PORT_END = 3
    Timeout = 1
    Throttle = 1
    MaxTime = 2
    None = None
SPECIFICATION FairSpecNoReset
INVARIANT MapsAgree
PROPERTY AnswerLeadsBack
PROPERTY RefusedOnlyWhenFull
PROPERTY LeaseSpec
PROPERTY LookupReturns
