\* Two processes on MySQL in every interleaving, with refused statements, whose
\* failed batches are committed in part, with deaths and two configs.
SPECIFICATION Spec
CONSTANTS
  p1 = p1
  p2 = p2
  Procs = {p1, p2}
  Dialect = "mysql"
  NumTables = 2
  RowsOf <- TwoAndOne
  BatchSize = 2
  Keyless = {}
  Unserializable = {}
  Configs = {"c1", "c2"}
  Secrets = {"s1"}
  MaxRuns = 2
  MaxMasks = 2
  MaxFailures = 2
  MaxCrashes = 1
SYMMETRY Permuted
INVARIANTS
  NothingLeftBehind
  CompletedCountsRows
PROPERTIES
  CompletedIsFinal
  MaskedForGood
