SPECIFICATION Spec
CONSTANTS
    Ring = 16
    Node <- MCNode
    Bits <- MCBits
    Delay <- MCDelay
    Scenarios <- MCScenarios
    s1 = s1
    s2 = s2
    q1 = q1
    q2 = q2
    q3 = q3
    Socket = {s1, s2}
    NoSocket = NoSocket
    DefRtt = 1000
    MaxHops = 3
INVARIANTS
    SamePeers
    AcksTrue
    RoutesRight
PROPERTIES
    Quiesces
CHECK_DEADLOCK FALSE
