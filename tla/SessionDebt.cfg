\* Two sessions in conflict, a third one opened under the debt.
SPECIFICATION Spec
CONSTANTS
  None = None
  Sessions = {s1, s2, s3}
  Legacy = {}
  Work = {w1, w2}
  Handlers = {h1}
  Reapers = {}
  MaxGen = 2
  Kinds = {"open", "close"}
  Faults = {}
  MaxFaults = 0
  LateWork = FALSE
PROPERTY OpenInheritsDebt
