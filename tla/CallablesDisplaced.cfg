SPECIFICATION CallSpec
CONSTANTS
  OverloadSets <- Pairs
  ArgLists <- Calls
  Forms <- Overloaded
  MaxResults = 2
  CallUses <- Displaced
INVARIANTS
  FirstMatchIsCalled
CHECK_DEADLOCK FALSE
