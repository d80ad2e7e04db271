SPECIFICATION Spec

CONSTANTS
  File = {f1}
  NoFile = NoFile
  Attempts = 3
  MaxStalled = 1
  HeadMayFail = TRUE
  Call = {c1, c2}
  MaxCallFaults = 0
  Worker = {w1}
  LocksMayLapse = FALSE
  SweepOn = FALSE
  ScansAreQuick = FALSE
  MaxRunFaults = 0
  MaxCrashes = 0
  Purger = {}
  MaxPurgeFaults = 0
  Recipient = {}

INVARIANTS
  NothingOutlivesTheRow

CHECK_DEADLOCK FALSE
