SPECIFICATION FairSpec
CONSTANTS
    MaxChanges = 2
    MaxFailures = 1
INVARIANTS OneRenewal OneTerm
PROPERTIES TermsEnd LeaderServes
CHECK_DEADLOCK FALSE
