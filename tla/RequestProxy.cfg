SPECIFICATION LiveSpec
CONSTANTS
    n1 = n1
    Node = {n1}
    Policy <- MCPolicy
    Upstream = {"up"}
    ListenerNode <- MCListenerNode
    Relay = {"peer"}
    ClientHops <- MCClientHops
    FallbackRate = 1
    QueueCap = 1
    MaxSends = 1
    None = None
CHECK_DEADLOCK FALSE
INVARIANTS
    TypeOK
    LoopsEnd
    WholeBody
    NoRepeatAfterAnswer
    CountersAgree
    EstimateIsClose
PROPERTIES
    StatsHonest
    RequestsEnd
