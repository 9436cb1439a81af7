SPECIFICATION MCSpec
CONSTANTS
    Policy = "Exponential"
    MaxBackups = 1
    Retention = 0
    Immutability = 1
    ErrorThreshold = 1
    NoOfChunks = 0
    Hours = {1, 23, 144, 700}
    MaxTicks = 4
    MaxSaves = 3
    MaxFaults = 0
INVARIANT DailyKept HourlyKept
CHECK_DEADLOCK FALSE
