\* Two triggers that may fall into one second; nothing fails.
SPECIFICATION Spec
CONSTANTS
  None = None
  Runs = {r1, r2}
  RingSize = 2
  MaxClock = 2
  Distinct = FALSE
  Faults = {}
  MaxFaults = 0
INVARIANT RecordsTellTheTruth
