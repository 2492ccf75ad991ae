SPECIFICATION FairSpec
CONSTANTS
    Records = {k1, k2}
    Savers = {s1, s2, s3}
    MaxVersion = 3
    MaxTroubles = 2
    NoFile = NoFile
CHECK_DEADLOCK FALSE
INVARIANTS TypeOK DurableNeverLost
PROPERTIES ImplementsDurableStore WritesReachDisk
