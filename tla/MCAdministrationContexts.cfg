SPECIFICATION MCSpec
CONSTANTS
  Callers = {c1, c2}
  Values = {v1, v2}
  Backends = {"vault", "native", "both"}
  MaxVersions = 2
  MaxRevisions = 2
  MaxRestarts = 1
  None = None
  Invitations = {i1, i2}
  Devices = {d1, d2}
  Lifetime = 1
  MaxAge = 2
  MaxTokens = 3
  Nobody = Nobody
  Ids = {w1, w2}
  Names = {n1, w2}
  Clients = {e1, e2}
  Settings = {s1, s2}
  MaxSources = 3
  Nothing = Nothing
  Inits = {p1, p2}
  Cores = {k1}
  Commands = {q1, q2}
  Contexts = {x, y}
  Latest = 3
  MaxKills = 1
  MaxWrites = 4
  Local = Local
  Free = Free
  Kinds = {"workflows", "executions", "nodes", "triggers", "events", "metadata", "tools", "stream"}
  MaxLimit = 2
  MaxKey = 3
  MaxChanges = 5
  Links <- MCLinks
  BodyLinks <- MCBodyLinks
  Shapes <- MCShapes
  Sources <- MCSources
  Work <- MCWork
  Replies <- MCReplies
  Budget = 4
  MaxModelCalls = 2
  MaxToolCalls = 2
  MaxAttempts = 2
  MaxRecoveries = 1
  MaxRefreshes = 1
  Parts = {"contexts"}
CHECK_DEADLOCK FALSE
PROPERTIES ContextsKept
