SPECIFICATION Spec
CONSTANTS
  Objects = {o1, o2}
  Calls = {c1, c2, c3}
  Packages = {p, q}
  Envs = {globals, sandbox}
  Globals = globals
  MaxDepth = 3
  MaxOwn = 1
  MaxRuns = 2
  Uses <- NoUses
SYMMETRY Symmetry
INVARIANTS
  StackPartitioned
  ChunksSeeTheirEnvironment
  OnePackageOneValue
CHECK_DEADLOCK FALSE
