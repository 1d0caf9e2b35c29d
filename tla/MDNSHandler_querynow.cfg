CONSTANTS
  GroupNames = {"", "my group"}
  DefaultGroupName = ""
  Durations = {3}
  DefaultInterval = 4
  DefaultDuration = 2
  UIntMod = 8
SPECIFICATION Spec
INVARIANTS
  QueryNowIsHonoured
