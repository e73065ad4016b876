SPECIFICATION MCSpec
CONSTANTS
  TableIds = {t0, t1, t2}
  Root = t0
  Globals = t0
  a = a
  b = b
  KeyOrder <- TwoKeys
  Stored = {t0}
  Walks = {w1, w2}
  MaxHeld = 2
  MaxPath = 3
  MaxWalkPath = 1
  MaxWalkLinks = 1
  Uses <- NoUses
SYMMETRY Symmetry
INVARIANTS
  TablesTyped
  StackPartitioned
  PathsAgree
  EachFieldOnce
CHECK_DEADLOCK FALSE
