SPECIFICATION Spec

CONSTANTS
  Tab = {1, 2}
  NoTab = 0
  Email = {1, 2}
  NoEmail = 0
  Types <- TypesUpTo
  File = {f1}
  NoFile = NoFile
  Owner <- FirstOwner
  Filter = {"all", "active"}
  Call = {c1, c2}

INVARIANTS
  AccountTypeOK
  AccountsAreTheirs
  WaitsForAnAnswer
