SPECIFICATION CallSpec
CONSTANTS
  OverloadSets <- Sets
  ArgLists <- Calls
  Forms <- AllForms
  MaxResults = 2
  CallUses <- NoUses
INVARIANTS
  FirstMatchIsCalled
  ArgumentsAreTheirOwn
  ResultsAreTheirOwn
CHECK_DEADLOCK FALSE
