\* Two processes, no failure at all: the guards are evaluated before the lock.
SPECIFICATION Spec
CONSTANTS
  p1 = p1
  p2 = p2
  Procs = {p1, p2}
  Dialect = "postgresql"
  NumTables = 2
  RowsOf <- TwoAndOne
  BatchSize = 1
  Keyless = {}
  Unserializable = {}
  Configs = {"c1"}
  Secrets = {"s1"}
  MaxRuns = 2
  MaxMasks = 2
  MaxFailures = 0
  MaxCrashes = 0
INVARIANTS
  MaskedOnce
