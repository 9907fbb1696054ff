SPECIFICATION MCSpec
CONSTANTS
  up = up
  skip = skip
  single = single
  all = all
  cron = cron
  lost = lost
  files = files
  again = again
  Triggers = {up, skip, single, all, cron, lost, files, again}
  Kind <- MCKind
  Misfire <- MCMisfire
  Instants <- MCInstants
  Latest = {single}
  MaxCatchUp = 2
  Every = 2
  Files = {"a", "b", "log"}
  Matching = {"a", "b"}
  Capacity = 1
  Debounce = 1
  MaxTime = 4
  MaxRevision = 2
  MaxStarts = 2
  None = None
CHECK_DEADLOCK FALSE
INVARIANTS FiresOnce RunsFaithful
 
