CONSTANTS
    switch = switch
    leave = leave
    Ids = {1, 2, 3, 4, 5}
    Kinds = {switch, leave}
    KindOf <- MCKindOf
    BucketOf <- MCBucketOf
    MaxCrashes = 2
SPECIFICATION FairMigration
INVARIANTS
    ServesWhatSqlKeeps
    WindowStaysDecided
PROPERTY
    EventuallyServes
CHECK_DEADLOCK FALSE
