SPECIFICATION Spec

CONSTANTS
  File = {f1}
  NoFile = NoFile
  Attempts = 3
  MaxStalled = 1
  HeadMayFail = TRUE
  Call = {c1}
  MaxCallFaults = 0
  Worker = {w1, w2}
  LocksMayLapse = TRUE
  SweepOn = TRUE
  ScansAreQuick = FALSE
  MaxRunFaults = 1
  MaxCrashes = 1
  Purger = {}
  MaxPurgeFaults = 0
  Recipient = {}

SYMMETRY WorkerSymmetry

INVARIANTS
  IInv
  LockOK
  OneScanAtATime
  OnlyCleanIsShared
  RefusedWasNeverShared

CHECK_DEADLOCK FALSE
