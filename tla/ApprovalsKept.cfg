SPECIFICATION ApprovalsSpec
CONSTANTS
  Drivers = {d1}
  Flows = {f1, f2}
  Window = 1
  Lifetimes = {1, 2}
  MaxEpoch = 2
  NoDriver = NoDriver
PROPERTIES
  ApprovalKept
CHECK_DEADLOCK FALSE
