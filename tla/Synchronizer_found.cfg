CONSTANTS
  a = a
  b = b
  c = c
  home = home
  away = away
  x = x
  Endpoints = {a, b}
  Groups = {home, away}
  GroupChoices <- AMoves
  InitialGroup <- SameGroup
  Names = {x}
  Objects <- OnlyA
  Container = {}
  Lossy = FALSE
  MaxChanges = 0
  MaxSends = 3
  MaxFailures = 1
  MaxCalls = 0
  MaxRestarts <- ARestarts
SPECIFICATION ScanningSpec
PROPERTIES
  EveryoneIsFound
CHECK_DEADLOCK FALSE
