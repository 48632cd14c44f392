\* Two processes on PostgreSQL in every interleaving of their statements.
SPECIFICATION Spec
CONSTANTS
  p1 = p1
  p2 = p2
  Procs = {p1, p2}
  Dialect = "postgresql"
  NumTables = 2
  RowsOf <- TwoAndOne
  BatchSize = 1
  Keyless = {}
  Unserializable = {}
  Configs = {"c1"}
  Secrets = {"s1"}
  MaxRuns = 2
  MaxMasks = 2
  MaxFailures = 2
  MaxCrashes = 2
SYMMETRY Permuted
INVARIANTS
  SingleRunner
  BatchAtomicity
PROPERTIES
  MaskedForGood
