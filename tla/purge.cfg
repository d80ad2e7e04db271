SPECIFICATION Spec

CONSTANTS
  File = {f1}
  NoFile = NoFile
  Attempts = 3
  MaxStalled = 1
  HeadMayFail = FALSE
  Call = {c1}
  MaxCallFaults = 1
  Worker = {w1}
  LocksMayLapse = FALSE
  SweepOn = FALSE
  ScansAreQuick = FALSE
  MaxRunFaults = 1
  MaxCrashes = 1
  Purger = {w1}
  MaxPurgeFaults = 1
  Recipient = {r1}

INVARIANTS
  OnlyCleanIsShared
  RefusedWasNeverShared
  NothingOutlivesTheRow

PROPERTIES
  DocumentedTransitions
  KeepsThePromise

CHECK_DEADLOCK FALSE
