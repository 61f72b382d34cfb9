\* A driver that commits while its session is being closed.
SPECIFICATION Spec
CONSTANTS
  None = None
  Sessions = {s1}
  Legacy = {}
  Work = {w1}
  Handlers = {h1}
  Reapers = {}
  MaxGen = 2
  Kinds = {"open", "close"}
  Faults = {}
  MaxFaults = 0
  LateWork = TRUE
INVARIANT CommitPreserved
