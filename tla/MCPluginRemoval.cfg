SPECIFICATION MCSpec
CONSTANTS
  e1 = e1
  e2 = e2
  w1 = w1
  b1 = b1
  Executions = {e1, e2}
  Workflows = {w1}
  WorkflowOf <- OneWorkflow
  Limited = {e1, e2}
  MaxRuns <- OneAtATime
  Queueing = {e1, e2}
  MaxQueued <- OneAtATime
  Builds = {b1, b2}
  NoBuild = NoBuild
  Admins = {a1, a2}
  Startup = Startup
  Legacy = {}
  Installable = {b2}
  MaxCrashes = 1
SYMMETRY Interchangeable
CHECK_DEADLOCK FALSE
INVARIANTS PinProtectsRecord BlockedStaysDisabled 
