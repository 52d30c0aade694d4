SPECIFICATION FairSpec
CONSTANTS
    Keys = {k1, k2, k3}
    Rows = {k2, k3}
    Flushers = {f1}
    MaxPending = 2
    Outages = TRUE
    MaxWrites = 3
    MaxRestarts = 1
INVARIANTS TypeOK NothingLost LatestQueued QueueBounded Superseded
PROPERTIES CommitKept PassesEnd
CHECK_DEADLOCK FALSE
