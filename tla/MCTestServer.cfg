CONSTANTS
    s1 = s1
    s2 = s2
    p1 = p1
    p2 = p2
    Free = Free
    Other = Other
    Servers <- MCServers
    Ports <- MCPorts
    MaxAttempts = 5

SPECIFICATION Spec

INVARIANT TypeOK
INVARIANT NoTraceToStoppedProcessor
INVARIANT StopResult
