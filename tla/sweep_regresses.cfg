SPECIFICATION Spec

CONSTANTS
  File = {f1}
  NoFile = NoFile
  Attempts = 3
  MaxStalled = 1
  HeadMayFail = FALSE
  Call = {c1}
  MaxCallFaults = 0
  Worker = {w1}
  LocksMayLapse = FALSE
  SweepOn = TRUE
  ScansAreQuick = TRUE
  MaxRunFaults = 0
  MaxCrashes = 1
  Purger = {}
  MaxPurgeFaults = 0
  Recipient = {}

PROPERTIES
  DocumentedTransitions

CHECK_DEADLOCK FALSE
