CONSTANTS
  r = r
  a = a
  Rules = {r}
  Adapters = {a}
  Off = off
  off = off
  Nothing <- MCNothing
  Configs <- MCConfigs
  SameApp <- NoPairs
  Routes = {x}
  Faults <- AllFaults
  MaxChanges = 2
SPECIFICATION Spec
INVARIANT TypeOK
INVARIANT FiltersFollowInterfaces
INVARIANT RedirectsFindTheirRule
INVARIANT BlockNeverLeaks
INVARIANT StatusIsTrue
INVARIANT StopRemoves
CHECK_DEADLOCK FALSE
