SPECIFICATION Spec
CONSTANTS
    N = 3
    Plans <- MCIrreversible
    Callers = {c1, c2}
    MaxRetries = 1
    MaxIterations = 4
INVARIANTS IrreversibleApproved
