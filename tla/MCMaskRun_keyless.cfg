\* Two processes on MySQL and a second table without a primary key: the run never gets
\* past it.
SPECIFICATION FairSpec
CONSTANTS
  p1 = p1
  p2 = p2
  Procs = {p1, p2}
  Dialect = "mysql"
  NumTables = 2
  RowsOf <- TwoAndOne
  BatchSize = 2
  Keyless = {2}
  Unserializable = {}
  Configs = {"c1"}
  Secrets = {"s1"}
  MaxRuns = 2
  MaxMasks = 2
  MaxFailures = 1
  MaxCrashes = 1
PROPERTIES
  InvocationsEnd
