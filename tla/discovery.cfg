SPECIFICATION FairSpec
CONSTANTS
    M = 2
    Tickers = {t1}
    Users = {u1}
    Items = {i1}
    Frequencies = {2}
    Cooldown = 2
    MaxAttempts = 2
    MaxRetries = 1
    MaxRun = 1
    Managed = {2}
INVARIANTS TypeOK InFlightMeansRunning DedupUnlessOverlapping
PROPERTIES Cadence DueJobsRun
