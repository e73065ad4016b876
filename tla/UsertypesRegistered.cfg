CONSTANTS
  B = B
  D = D
  v1 = v1
  Classes = {B, D}
  Names = {"f", "new"}
  Others = {}
  Values = {v1, v2}
  MetaKeys = {"__index", "__newindex", "static_index", "static_new_index", "__gc"}
  MaxPerKey = 2
  Operations = {"bind", "construct", "derive", "unregister", "script", "object"}
  BaseLists <- DerivedBases
SPECIFICATION MCSpec
INVARIANTS
  TypeOK
  ObjectsFollowTheRule
  AssignmentsReachObjects
  NoDanglingPointer
  NothingLeftBehind
