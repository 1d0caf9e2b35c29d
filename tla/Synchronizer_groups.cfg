CONSTANTS
  a = a
  b = b
  c = c
  home = home
  away = away
  x = x
  Endpoints = {a, b}
  Groups = {home, away}
  GroupChoices <- AllMove
  InitialGroup <- SameGroup
  Names = {x}
  Objects <- OnlyA
  Container = {x}
  Lossy = FALSE
  MaxChanges = 1
  MaxSends = 1
  MaxFailures = 0
  MaxCalls = 1
  MaxRestarts <- ARestarts
SPECIFICATION Spec
INVARIANTS
  TypeOK
  KnownHaveInfo
  OwnGroupDataOnly
  OneSyncPerName
CHECK_DEADLOCK FALSE
