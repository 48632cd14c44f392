\* One process on MySQL, one refused UPDATE: the rows before it are committed with
\* the failed status, without their progress.
SPECIFICATION Spec
CONSTANTS
  p1 = p1
  p2 = p2
  Procs = {p1}
  Dialect = "mysql"
  NumTables = 2
  RowsOf <- TwoAndOne
  BatchSize = 2
  Keyless = {}
  Unserializable = {}
  Configs = {"c1"}
  Secrets = {"s1"}
  MaxRuns = 2
  MaxMasks = 2
  MaxFailures = 1
  MaxCrashes = 0
INVARIANTS
  BatchAtomicity
