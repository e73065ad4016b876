CONSTANTS
  Objects = {o1, o2, o3}
  Storages = {s1, s2}
  Uses <- NoUses
SPECIFICATION ClosingSpec
INVARIANTS
  OnlyObjectsDestroyed
  FinalisersHaveTheirBindings
PROPERTIES
  AllDestroyedInTheEnd
CHECK_DEADLOCK FALSE
