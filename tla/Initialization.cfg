SPECIFICATION FairSpec
CONSTANTS
    MaxRev = 2
    MaxDamage = 1
    MaxFaults = 2
    MaxCrashes = 1
INVARIANTS NeverBehindBackup NoForgetfulVoter
PROPERTIES NoSecondCluster SoundDirKept EtcdRunsAgain
CHECK_DEADLOCK FALSE
