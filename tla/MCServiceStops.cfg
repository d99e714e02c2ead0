CONSTANTS
  r = r
  a = a
  Rules = {r}
  Adapters = {a}
  Off = off
  off = off
  Nothing <- MCNothing
  Configs <- MCConfigs
  SameApp <- NoPairs
  Routes = {}
  Faults = {"wfp"}
  MaxChanges = 1
SPECIFICATION FairSpec
PROPERTY StopEnds
PROPERTY WokenEnds
CHECK_DEADLOCK FALSE
