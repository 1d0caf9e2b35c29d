CONSTANTS
  a = a
  b = b
  c = c
  home = home
  away = away
  x = x
  Endpoints = {a, b}
  Groups = {home, away}
  GroupChoices <- AMoves
  InitialGroup <- SameGroup
  Names = {x}
  Objects <- OnlyA
  Container = {x}
  Lossy = FALSE
  MaxChanges = 0
  MaxSends = 1
  MaxFailures = 1
  MaxCalls = 0
  MaxRestarts <- ARestarts
SPECIFICATION LayersSpec
INVARIANTS
  NothingWithheld
PROPERTIES
  UsesTransport
CHECK_DEADLOCK FALSE
