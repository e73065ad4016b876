CONSTANTS
  Kinds = {"vector", "list", "forward_list", "array", "map", "set"}
  Values = {1, 2}
  MaxSize = 3
  MaxGiven = 4
  Uses = {}
SPECIFICATION Spec
INVARIANTS
  NothingUndefined
  EachItemOnce
  KeysReadBack
PROPERTIES
  CallsLikeLua
CHECK_DEADLOCK FALSE
