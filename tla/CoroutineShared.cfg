CONSTANTS
  Objects = {c1, c2}
  Results = {r1, r2}
  MaxRuns = 3
  MaxCalls = 5
  MaxValues = 2
  Uses = {}
SPECIFICATION Spec
INVARIANTS
  ResultsAreTheirOwn
  RunnableMeansSuspended
  StackStaysWhole
  FinishedThreadsAreDead
