SPECIFICATION LiveSpec
CONSTANTS
    Node = {1, 2}
    TTL = 2
    BusCap = 1
    MaxTime = 2
    MaxSample <- MCSamplesTwo
    MaxRestarts <- MCRestartsWriter
    MaxMerging = 1
    NoEntry = NoEntry
PROPERTIES
    Convergence
