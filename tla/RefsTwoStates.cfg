CONSTANTS
  r1 = r1
  r2 = r2
  m = m
  A = A
  B = B
  mainA = mainA
  mainB = mainB
  coA = coA
  objA = objA
  objB = objB
  Null = Null
  Nil = Nil
  None = None
  Dead = Dead
  MaxSlots = 3
  Handles <- Handles2
  MainOnly <- Main3
  States <- BothStates
  Threads <- ThreadsAB
  StateOf <- StateOfAB
  MainThread <- MainThreadAB
  Values <- ValuesAB
  Home <- HomeAB
  Uses <- NoUses
SPECIFICATION Spec
INVARIANTS
  SlotsOwned
  MainHandlesUseMainThread
  KeptAlive
PROPERTIES
  HandlesAreValues
