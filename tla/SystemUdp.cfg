\* Every channel holds one item, and a flow can lose its session and get another.
SPECIFICATION FairSpec
CONSTANTS
    Flow = {f1, f2}
    DnsFlow = {f2}
    DnsConn = {d1}
    Chan = {c1, c2}
    ReplyCap = 1
    UdpTxCap = 1
    DnsTxCap = 1
    Timeout = 1
    MaxTime = 1
    None = None
INVARIANTS
    SenderHasTask
    SessionAnswersItsClient
    DnsBypassesSessions
    QueryInOnePlace
PROPERTY TunLoopReturns
