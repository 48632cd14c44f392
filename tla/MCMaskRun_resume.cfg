\* One process at a time on PostgreSQL, with deaths, refused statements, changed
\* configs and secrets: the promise of MaskOnce and the guarantees behind it.
SPECIFICATION FairSpec
CONSTANTS
  p1 = p1
  p2 = p2
  Procs = {p1}
  Dialect = "postgresql"
  NumTables = 2
  RowsOf <- ThreeAndTwo
  BatchSize = 2
  Keyless = {}
  Unserializable = {}
  Configs = {"c1", "c2"}
  Secrets = {"s1", "s2"}
  MaxRuns = 2
  MaxMasks = 2
  MaxFailures = 2
  MaxCrashes = 2
INVARIANTS
  TypeOK
  MaskedOnce
  CompletedIsWhole
PROPERTIES
  KeepsPromise
  ResumeCompletes
