CONSTANTS
  a = a
  b = b
  c = c
  home = home
  away = away
  x = x
  Endpoints = {a, b}
  Groups = {home}
  GroupChoices <- AllStay
  InitialGroup <- SameGroup
  Names = {x}
  Objects <- OnlyA
  Container = {x}
  Lossy = FALSE
  MaxChanges = 1
  MaxSends = 3
  MaxFailures = 0
  MaxCalls = 0
  MaxRestarts <- NoRestarts
SPECIFICATION TransmissionSpec
PROPERTIES
  UpdatesArrive
CHECK_DEADLOCK FALSE
