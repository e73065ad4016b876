CONSTANTS
  Objects = {r1, r2}
  Calls = {c1, c2, c3}
  MaxDepth = 3
  MaxUsers = 1
  MaxArgs = 1
  MaxRets = 2
  Uses <- NoUses
SPECIFICATION Spec
INVARIANTS
  ResultsNameTheirValues
  StackBalanced
  HandlersAreCalled
