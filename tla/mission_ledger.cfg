SPECIFICATION FairSpec
CONSTANTS
    Objectives = {1, 2}
    Deps <- Chain
    Tokens <- MCTokens
    TokensOf <- MCTokensOf
    NoToken = NoToken
    Operator = Operator
    TTL = 2
    MaxAge = 1
    MaxRetries = 1
    MaxReplans = 1
    MaxObjectives = 5
    Workers = {w1, w2}
    RepoDerived = {2}
    Commands = {"START", "CANCEL"}
    Failures = {"FAILED"}
    Attempts = 2
    MaxCommands = 1
    MaxCrashes = 1
    MaxFaults = 0
INVARIANTS CompletedMeansDone
PROPERTIES KeepsLedger NothingStaysRunning
