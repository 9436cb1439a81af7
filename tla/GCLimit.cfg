SPECIFICATION FairSpec
CONSTANTS
    Policy = "LimitBased"
    MaxBackups = 2
    Retention = 0
    Immutability = 0
    ErrorThreshold = 1
    NoOfChunks = 1
    Hours = {1}
    MaxTicks = 1
    MaxSaves = 4
    MaxFaults = 1
INVARIANT DeltaChunksKept
PROPERTY LatestKept BackupsKept CollectedEventually
CHECK_DEADLOCK FALSE
