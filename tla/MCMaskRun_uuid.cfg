\* Two processes on PostgreSQL and a second table with keys json.dumps refuses: the run
\* never gets past it.
SPECIFICATION FairSpec
CONSTANTS
  p1 = p1
  p2 = p2
  Procs = {p1, p2}
  Dialect = "postgresql"
  NumTables = 2
  RowsOf <- TwoAndOne
  BatchSize = 2
  Keyless = {}
  Unserializable = {2}
  Configs = {"c1"}
  Secrets = {"s1"}
  MaxRuns = 2
  MaxMasks = 2
  MaxFailures = 1
  MaxCrashes = 1
INVARIANTS
  NothingLeftBehind
  OnceWhereKeysFit
PROPERTIES
  InvocationsEnd
