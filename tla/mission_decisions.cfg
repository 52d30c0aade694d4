SPECIFICATION Spec
CONSTANTS
    Objectives = {1}
    Deps <- Independent
    Tokens <- MCTokens
    TokensOf <- MCTokensOf
    NoToken = NoToken
    Operator = Operator
    TTL = 1
    MaxAge = 0
    MaxRetries = 0
    MaxReplans = 1
    MaxObjectives = 5
    Workers = {w1, w2}
    RepoDerived = {}
    Commands = {"START", "PAUSE", "RESUME", "UNBLOCK", "PROVIDER_AVAILABLE", "APPROVE", "CANCEL", "REJECT_APPROVAL", "BLOCK", "RESUME_CHECKPOINT"}
    Failures = {"REVISE", "FAILED", "APPROVAL", "PROVIDER"}
    Attempts = 1
    MaxCommands = 2
    MaxCrashes = 0
    MaxFaults = 1
SYMMETRY Symmetry
INVARIANTS NeverOvercounted
PROPERTIES OwnerDecides LegalMoves TerminalFrozen
