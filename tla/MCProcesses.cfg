SPECIFICATION MCSpec
CONSTANTS
  d1 = d1
  d2 = d2
  v1 = v1
  f1 = f1
  l1 = l1
  l2 = l2
  s1 = s1
  Cores = {d1, d2, v1, f1}
  Launchers = {l1, l2}
  Stoppers = {s1}
  Mode <- MCMode
  Child <- MCChild
  None = None
  Legacy = Legacy
  Operations = {"node", "agent", "direct", "discover", "checked", "plugin", "command", "http"}
  Capacity = 1
  MaxPages = 2
  MaxNotes = 1
  MaxLines = 3
CHECK_DEADLOCK FALSE
INVARIANTS OwnershipSound StopSound AnswersItsRequest NoChildLeft
PROPERTIES LaunchSound ProcessesEnd 
