CONSTANTS
  a = a
  b = b
  c = c
  home = home
  away = away
  x = x
  Endpoints = {a, b}
  Groups = {home, away}
  GroupChoices <- AllMove
  InitialGroup <- SameGroup
  Names = {x}
  Objects <- OnlyA
  Container = {x}
  Lossy = FALSE
  MaxChanges = 0
  MaxSends = 1
  MaxFailures = 0
  MaxCalls = 0
  MaxRestarts <- NoRestarts
SPECIFICATION FairSpec
PROPERTIES
  LeaversAreForgotten
CHECK_DEADLOCK FALSE
