SPECIFICATION Spec
CONSTANTS
    Nodes = {1, 2, 3, 4}
    Plans <- Single
    MaxParallel = 2
    Attempts = 2
    Items = 2
    Width = 2
    MaxSignals = 1
    MaxRestarts = 1
CHECK_DEADLOCK FALSE
INVARIANTS ShutdownRecoverable
