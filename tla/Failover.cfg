SPECIFICATION Spec
CONSTANTS
    MaxRev = 3
    MaxFaults = 1
    MaxDemands = 2
    MaxElections = 1
    MaxJobs = 1
INVARIANTS RestoreSound ReplayableRestores ChainHeals
PROPERTIES CompactionKeeps
CHECK_DEADLOCK FALSE
