SPECIFICATION FairRestoreSpec
CONSTANTS
    NumSnaps = 3
    MaxFetchers = 2
    LeanInterval = 2
    MaxFaults = 2
INVARIANTS SuccessIsComplete NoSendAfterClose
PROPERTY RestoreReturns
CHECK_DEADLOCK FALSE
