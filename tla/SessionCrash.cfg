\* One handler and a reaper; up to two of: a crash of the control plane,
\* a snapshot that cannot be written.
SPECIFICATION Spec
CONSTANTS
  None = None
  Sessions = {s1, s2}
  Legacy = {}
  Work = {w1, w2}
  Handlers = {h1}
  Reapers = {r}
  MaxGen = 2
  Kinds = {"open", "close", "recycle", "reap"}
  Faults = {"persist", "crash"}
  MaxFaults = 2
  LateWork = FALSE
SYMMETRY Symmetry
INVARIANTS BranchExclusive WorkPreserved DebtKept
PROPERTIES ImplementsContract
