\* Two handlers and a reaper contend for two sessions and the project lock.
SPECIFICATION FairSpec
CONSTANTS
  None = None
  Sessions = {s1, s2}
  Legacy = {}
  Work = {}
  Handlers = {h1, h2}
  Reapers = {r}
  MaxGen = 2
  Kinds = {"open", "finish", "recycle", "reap"}
  Faults = {"mirror", "cancel"}
  MaxFaults = 1
  LateWork = FALSE
PROPERTIES RequestsEnd
