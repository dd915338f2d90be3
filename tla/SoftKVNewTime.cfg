SPECIFICATION Spec
CONSTANTS
    Node = {1, 2}
    TTL = 2
    BusCap = 1
    MaxTime = 1
    MaxSample <- MCSamplesOne
    MaxRestarts <- MCRestartsWriter
    MaxMerging = 1
    NoEntry = NoEntry
PROPERTIES
    NewTimeReplacesOld
