SPECIFICATION Spec

CONSTANTS
  Page = {p1}
  NoPage = NoPage
  MaxGets = 2
  Post = {q1, q2}
  FastInterval = 1
  SlowInterval = 2
  SwitchToSlowAfter = 1
  GiveUpAfter = 3
  PasswordLimit = 1
  MaxWindows = 2

INVARIANTS
  ScanningIsPolled
