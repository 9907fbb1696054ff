SPECIFICATION Spec
CONSTANTS
    e1 = e1
    e2 = e2
    w1 = w1
    n1 = n1
    n2 = n2
    d1 = d1
    k1 = k1
    h1 = h1
    Executions = {e1, e2}
    Workflows = {w1}
    WorkflowOf <- OneWorkflow
    Limited = {e1, e2}
    MaxRuns <- OneAtATime
    Queueing = {e1, e2}
    MaxQueued <- TwoQueued
    Nodes = {n1}
    Replayable = {}
    Sensitive = {}
    MaxAttempts <- RetryOnce
    Keys = {k1}
    Hashes = {h1}
    NoIdentity = NoIdentity
    MaxCrashes = 1
    MaxFaults = 1
CHECK_DEADLOCK FALSE
INVARIANTS WorkerMatchesRow RowHasDriver OwnershipCoversWork OneExecutionPerKey ConcurrencyBound
PROPERTIES EndedForGood ImplementsContract
