SPECIFICATION FairSpec
CONSTANTS
    e1 = e1
    e2 = e2
    w1 = w1
    n1 = n1
    n2 = n2
    d1 = d1
    k1 = k1
    h1 = h1
    Executions = {e1, e2}
    Workflows = {w1}
    WorkflowOf <- OneWorkflow
    Limited = {e1, e2}
    MaxRuns <- OneAtATime
    Queueing = {e1, e2}
    MaxQueued <- TwoQueued
    Nodes = {n1, d1}
    Replayable = {d1}
    Sensitive = {n1}
    MaxAttempts <- NoRetry
    Keys = {}
    Hashes = {h1}
    NoIdentity = NoIdentity
    MaxCrashes = 1
    MaxFaults = 0
CHECK_DEADLOCK FALSE
INVARIANTS EffectsBounded
PROPERTIES CoreLive
