CONSTANTS
  Builds <- CAndCxx
  MaxFrames = 4
  MaxHandlers = 2
  Uses <- NoUses
SPECIFICATION Spec
INVARIANTS
  TypeOK
  LocalsDestroyed
  ErrorsArriveWhole
  LuaKnowsItsCalls
CHECK_DEADLOCK FALSE
