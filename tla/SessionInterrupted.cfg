\* A crash in every step of open, close and recycle.
SPECIFICATION Spec
CONSTANTS
  None = None
  Sessions = {s1}
  Legacy = {}
  Work = {w1}
  Handlers = {h1}
  Reapers = {}
  MaxGen = 2
  Kinds = {"open", "close", "recycle"}
  Faults = {"crash"}
  MaxFaults = 1
  LateWork = FALSE
PROPERTY InterruptedIsFailed
