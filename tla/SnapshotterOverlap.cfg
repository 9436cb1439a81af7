SPECIFICATION Spec
CONSTANTS
    Clients = {}
    DeltaEnabled = TRUE
    LeaseRenewal = TRUE
    TornSave = FALSE
    MaxRev = 4
    MaxFaults = 0
    MaxDemands = 1
INVARIANTS Restorable
CHECK_DEADLOCK FALSE
