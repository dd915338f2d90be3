SPECIFICATION Spec
CONSTANTS
    Node = {1, 2}
    TTL = 2
    BusCap = 1
    MaxTime = 2
    MaxSample <- MCSamplesOne
    MaxRestarts <- MCRestartsWriter
    MaxMerging = 1
    NoEntry = NoEntry
INVARIANTS
    TypeOK
    MonotonicReads
PROPERTIES
    StoreMovesUp
