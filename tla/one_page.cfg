SPECIFICATION LiveSpec

CONSTANTS
  Tab = {t1}
  Page = {p1}
  NoPage = NoPage
  TabOf <- OneTab
  Session = {s1, s2}
  Id = {i1}
  NoId = NoId
  Candidate = {x}
  NoFile = NoFile
  Parts = 2
  Common = {}
  PartAttempts = 2
  MaxFaults = 3

PROPERTIES
  UploadSettles

CHECK_DEADLOCK FALSE
