CONSTANTS
  email = email
  customer = customer
  name = name
  label = label
  note = note
  digest = digest
  alice = alice
  ALICE = ALICE
  bob = bob
  r1 = r1
  r2 = r2
  f1 = f1
  f2 = f2
  NULL = NULL
  Rule <- SomeRules
  Cells <- SomeCells
  Texts = {alice, ALICE, bob}
  Folded <- Lower
  Sources <- JoinedSources
  Fakes = {f1, f2}
  Fakers <- SomeFakers
  CacheSizes = {0, 1}
  MaxRestarts = 1
SPECIFICATION Spec
INVARIANTS TypeOK JoinSurvives VariantsConverge SuffixSeparates
CHECK_DEADLOCK FALSE
