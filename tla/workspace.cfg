SPECIFICATION FairSpec
CONSTANTS
    a1 = a1
    a2 = a2
    m1 = m1
    m2 = m2
    Attempts = {a1, a2}
    NoAttempt = NoAttempt
    Missions = {m1, m2}
    MissionOf <- MCMissionOf
    TTL = 8
    WorkspaceTTL = 12
    Timeout = 1
    MaxTries = 2
    ClaimTries = 2
    MaxAge = 1
    MaxLate = 2
    MaxMisses = 1
INVARIANTS TypeOK LeaseKept WorkspaceKept
PROPERTIES WorkspaceFreed
