CONSTANTS
  GroupNames = {"", "my group"}
  DefaultGroupName = ""
  Durations = {0, 1, 3, 5}
  DefaultInterval = 4
  DefaultDuration = 2
  UIntMod = 8
SPECIFICATION FairSpec
INVARIANTS
  TypeOK
  CountdownsRun
  PhaseEndsOnTime
  NoQueryBetweenScans
PROPERTIES
  ScansForEver
  ImplementsScanCycle
