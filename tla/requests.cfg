SPECIFICATION LiveSpec

CONSTANTS
  File = {f1}
  NoFile = NoFile
  Attempts = 3
  MaxStalled = 1
  HeadMayFail = FALSE
  Call = {c1, c2}
  MaxCallFaults = 1
  Worker = {w1}
  LocksMayLapse = FALSE
  SweepOn = FALSE
  ScansAreQuick = FALSE
  MaxRunFaults = 2
  MaxCrashes = 1
  Purger = {}
  MaxPurgeFaults = 0
  Recipient = {}

INVARIANTS
  TypeOK
  NothingOutlivesTheRow
  TombstoneIsEmpty
  AwaitedIsQueued
  StageOK

PROPERTIES
  StoresOnlyGoForward
  DocumentedTransitions
  CleanUploadSettles

CHECK_DEADLOCK FALSE
