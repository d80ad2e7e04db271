SPECIFICATION Spec

CONSTANTS
  File = {f1}
  NoFile = NoFile
  Attempts = 3
  MaxStalled = 1
  HeadMayFail = FALSE
  Call = {c1}
  MaxCallFaults = 0
  Worker = {w1}
  LocksMayLapse = FALSE
  SweepOn = FALSE
  ScansAreQuick = FALSE
  MaxRunFaults = 0
  MaxCrashes = 0
  Purger = {w1}
  MaxPurgeFaults = 0
  Recipient = {}

PROPERTIES
  PurgeSparesCompleted

CHECK_DEADLOCK FALSE
