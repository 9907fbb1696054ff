SPECIFICATION MCSpec
CONSTANTS
  e1 = e1
  e2 = e2
  w1 = w1
  b1 = b1
  Executions = {e1, e2}
  Workflows = {w1}
  WorkflowOf <- OneWorkflow
  Limited = {}
  MaxRuns <- OneAtATime
  Queueing = {}
  MaxQueued <- OneAtATime
  Builds = {b1}
  NoBuild = NoBuild
  Admins = {a1}
  Startup = Startup
  Legacy = {e2}
  Installable = {}
  MaxCrashes = 0
  Handlers = {h1, h2}
  Origins = {"local", "npm", "git"}
  OriginKind <- MCOriginKind
  Packages = {"a1", "linked", "a2", "large", "b1"}
  About <- MCAbout
  Slots = 1
  MaxFiles = 3
  MaxBytes = 2
  MaxDepth = 1
  Builtin = {"core"}
  MaxReviews = 2
  MaxMishaps = 1
  Missing = Missing
  Parts = {"settling", "staging"}
CHECK_DEADLOCK FALSE
INVARIANTS StagingSound
PROPERTIES RemovalSettles
