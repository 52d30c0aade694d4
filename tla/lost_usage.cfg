SPECIFICATION Spec
CONSTANTS
    Objectives = {1, 2}
    Deps <- Independent
    Tokens <- MCTokens
    TokensOf <- MCTokensOf
    NoToken = NoToken
    Operator = Operator
    TTL = 1
    MaxAge = 0
    MaxRetries = 1
    MaxReplans = 1
    MaxObjectives = 5
    Workers = {w1, w2}
    RepoDerived = {}
    Commands = {"START", "CANCEL"}
    Failures = {}
    Attempts = 2
    MaxCommands = 1
    MaxCrashes = 0
    MaxFaults = 0
SYMMETRY Symmetry
INVARIANTS NoLostUsage
