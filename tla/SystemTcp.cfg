\* Two flows, one of them DNS, compete for a single NAT port.
CONSTANTS
    Key = {k1, k2}
    DnsKey = {k2}
    DnsListener = TRUE
    TcpTxCapacity = 1
    Task = {"tun", "tcp", "dns"}
    Reset = {r1}
    NAT_PORT_START = 2
    NAT_PORT_END = 2
    Timeout = 0
    Throttle = 0
    MaxTime = 1
    None = None
SPECIFICATION TcpSpec
PROPERTY SoundConnKeepsSession
PROPERTY DnsNeverProxied
