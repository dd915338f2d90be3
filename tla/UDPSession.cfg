SPECIFICATION LiveSpec
CONSTANTS
    p1 = p1
    p2 = p2
    c1 = c1
    c2 = c2
    u1 = u1
    u2 = u2
    Packet = {p1, p2}
    Client = {c1, c2}
    Senders <- MCSenders
    Upstream = {u1, u2}
    MaxAttempts = 2
    Candidates <- MCCandidates
    TTLs = {0}
    DefaultTTL = 0
    NoBinding = NoBinding
    NoConn = NoConn
    NoPacket = NoPacket
INVARIANTS
    TypeOK
    SessionsAreOpen
    AnswersStayWithClient
CHECK_DEADLOCK FALSE
PROPERTIES
    IdleIsClosed
    PacketsEnd
