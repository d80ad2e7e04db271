SPECIFICATION Spec

CONSTANTS
  File = {f1}
  NoFile = NoFile
  Attempts = 3
  MaxStalled = 1
  HeadMayFail = FALSE
  Call = {c1}
  MaxCallFaults = 0
  Worker = {w1}
  LocksMayLapse = FALSE
  SweepOn = TRUE
  ScansAreQuick = TRUE
  MaxRunFaults = 3
  MaxCrashes = 1
  Purger = {}
  MaxPurgeFaults = 0
  Recipient = {}

PROPERTIES
  RequeuedIsQueued

CHECK_DEADLOCK FALSE
