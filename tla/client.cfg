SPECIFICATION Spec

CONSTANTS
  Tab = {t1}
  Page = {p1, p2}
  NoPage = NoPage
  TabOf <- OneTab
  Session = {s1, s2}
  Id = {i1}
  NoId = NoId
  Candidate = {x, y}
  NoFile = NoFile
  Parts = 2
  Common = {}
  PartAttempts = 1
  MaxFaults = 1

SYMMETRY Symmetry

INVARIANTS
  ClientTypeOK
  IInv
  ObjectIsOneFile
  SentIsResumable

CHECK_DEADLOCK FALSE
