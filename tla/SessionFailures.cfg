\* Two sessions under two handlers and a reaper; any one step fails.
SPECIFICATION Spec
CONSTANTS
  None = None
  Sessions = {s1, s2}
  Legacy = {}
  Work = {w1, w2}
  Handlers = {h1, h2}
  Reapers = {r}
  MaxGen = 2
  Kinds = {"open", "open_human", "close", "recycle", "reap"}
  Faults = {"persist", "mirror", "image", "docker", "boot", "flush", "push"}
  MaxFaults = 1
  LateWork = FALSE
SYMMETRY Symmetry
INVARIANTS TypeOK MutualExclusion OneRuntimePerSession OutcomeTruthful ActiveIsRunnable
PROPERTIES ObservedGenerationOnly ImplementsContract
