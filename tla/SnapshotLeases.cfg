SPECIFICATION LeaseSpec
CONSTANTS
    MaxRev = 2
    MaxSaves = 2
    MaxFaults = 1
    MaxRuns = 2
    MaxJobs = 1
PROPERTIES FullLeaseMonotone FullLeaseCatchesUp DeltaLeaseCatchesUp StopReturns
CHECK_DEADLOCK FALSE
