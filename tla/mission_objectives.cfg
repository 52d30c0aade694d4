SPECIFICATION Spec
CONSTANTS
    Objectives = {1, 2}
    Deps <- Independent
    Tokens <- MCTokens
    TokensOf <- MCTokensOf
    NoToken = NoToken
    Operator = Operator
    TTL = 2
    MaxAge = 0
    MaxRetries = 1
    MaxReplans = 2
    MaxObjectives = 5
    Workers = {w1, w2}
    RepoDerived = {}
    Commands = {"CANCEL"}
    Failures = {"RETRY"}
    Attempts = 2
    MaxCommands = 1
    MaxCrashes = 0
    MaxFaults = 1
SYMMETRY Symmetry
INVARIANTS TypeOK OneLiveLease RetriesBounded
