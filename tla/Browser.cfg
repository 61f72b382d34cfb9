SPECIFICATION MCSpec
CONSTANTS
  Logins = {l1, l2}
  Requests = {r1, r2}
  MaxLogins = 2
  MaxSessions = 1
  MaxRefresh = 2
  Nothing = Nothing
  Launches = {b1, b2}
  Keys = {k1, k2}
  Workspaces = {w1, w2}
  MaxEpochs = 2
  MaxTickets = 1
  Bundles = {o1, o2}
  Applies = {q1, q2}
  LastEpoch = 2
  MaxLength = 2
  Nobody0 = Nobody0
  Operations = {e1, e2}
  Payloads = {p1, p2}
  Posts = {f1, f2, f3}
  MaxKey = 3
  Terminals = {t1, t2}
  TerminalLimit = 1
  ExecutionLimit = 1
  LastInstance = 2
  LastPacket = 3
  MaxDelay = 2
  MaxContent = 1
  MaxCommits = 2
  MaxProfile = 1
INVARIANTS
  MCTypeOK
  BrowserSound
  OneWorkspacePerKey
  HandoffSound
  OneRunPerOperation
  AgentTruthful
PROPERTIES
  StreamsClose
CHECK_DEADLOCK FALSE
