SPECIFICATION FairSpec
CONSTANTS
    N = 3
    Plans <- MCPlans
    Callers = {c1, c2}
    MaxRetries = 1
    MaxIterations = 4
INVARIANTS TypeOK HonestCompletion ApprovedFirst InOrder RetriesPerDrive Driven
PROPERTIES RunSettles
