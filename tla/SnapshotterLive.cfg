SPECIFICATION FairSpec
CONSTANTS
    Clients = {c1, c2}
    DeltaEnabled = TRUE
    LeaseRenewal = TRUE
    TornSave = FALSE
    MaxRev = 2
    MaxFaults = 1
    MaxDemands = 3
INVARIANTS ChainWellFormed NoEventLost
PROPERTIES ImplementsBackup RequestHonoured BackedUpEventually RequestAnswered StopsWhenNotLeading
CHECK_DEADLOCK FALSE
