SPECIFICATION Spec
CONSTANTS
    eth0 = eth0
    ip1 = ip1
    NoIp = NoIp
    Nets <- OneNet
    Ips <- OneIp
    MaxSessions = 2
    MaxChanges = 2
INVARIANTS TypeOK SignalledOnce NoPortTwice NoDanglingPort
    NoSessionForgotten
