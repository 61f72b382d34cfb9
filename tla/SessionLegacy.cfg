\* Two records of an old snapshot claim the legacy container; drivers may
\* write while transitions run.
SPECIFICATION Spec
CONSTANTS
  None = None
  Sessions = {s1, s2, s3, s4}
  Legacy = {s1, s2}
  Work = {w1, w2}
  Handlers = {h1}
  Reapers = {r}
  MaxGen = 2
  Kinds = {"open", "recycle", "reap"}
  Faults = {"persist", "flush", "cancel"}
  MaxFaults = 1
  LateWork = TRUE
SYMMETRY Symmetry
INVARIANTS CommitPreserved
PROPERTIES DisputedNeverDestroyed
