\* Three triggers in different seconds, a ring of two; two failures, a crash and
\* an unwritten snapshot among them.
SPECIFICATION Spec
CONSTANTS
  None = None
  Runs = {r1, r2, r3}
  RingSize = 2
  MaxClock = 3
  Distinct = TRUE
  Faults = {"persist", "crash", "prepare", "create", "boot", "exec", "flush", "destroy"}
  MaxFaults = 2
SYMMETRY Symmetry
INVARIANTS TypeOK RecordsTellTheTruth LogAgreesWithRecords TestimonyOrComplaint InFlightListed LatchIsHeld
PROPERTIES IncumbentUntouched ImplementsContract
