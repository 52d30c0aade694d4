SPECIFICATION Spec
CONSTANTS
    Objectives = {1}
    Deps <- Independent
    Tokens <- MCTokens
    TokensOf <- MCTokensOf
    NoToken = NoToken
    Operator = Operator
    TTL = 1
    MaxAge = 0
    MaxRetries = 1
    MaxReplans = 1
    MaxObjectives = 5
    Workers = {w1, w2}
    RepoDerived = {}
    Commands = {"START", "RESUME_CHECKPOINT"}
    Failures = {"RETRY", "REVISE", "FAILED", "APPROVAL", "PROVIDER"}
    Attempts = 2
    MaxCommands = 2
    MaxCrashes = 0
    MaxFaults = 0
SYMMETRY Symmetry
PROPERTIES WitnessIsOwn
