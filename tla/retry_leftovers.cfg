SPECIFICATION Spec
CONSTANTS
    Calls = {c1, c2}
    Chunks = 2
    DeadlockMax = 2
    NetworkMax = 3
    BackoffCap = 1500
    Patience = 2500
    Leftovers = {{}, {2}}
INVARIANT DuplicateIsOwnCommit
CHECK_DEADLOCK FALSE
