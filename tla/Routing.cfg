SPECIFICATION Spec
CONSTANTS
    Service <- MCService
    Group <- MCGroup
    Addr <- MCAddr
    ListenerOf <- MCListenerOf
    Offered <- MCOffered
    Rank <- MCRank
    Query <- MCQuery
    q1 = q1
    q2 = q2
    Request = {q1, q2}
    MaxLatency = 2
    MaxPicks = 3
    None = None
SYMMETRY Symmetry
INVARIANTS
    TypeOK
    MatchIsBest
    EveryTargetOnceDirectFirst
    RoundRobinFair
