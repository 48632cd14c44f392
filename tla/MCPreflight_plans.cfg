SPECIFICATION Spec
CONSTANTS
  NumTables = 3
  Histories <- SomeHistories
  Edits <- SomeEdits
  Joins <- SomeJoins
  Rows <- SomeRows
  Contents <- SomeContents
  Folded <- Lower
  Fakers <- SomeFakers
  MaxChanges <- SomeChanges
  Inits = {1, 2}
INVARIANTS
  TypeOK
  ReportedIsCycle
  ClearedHasNone
  PlanFits
  ReferencesSurvive
  JoinsSurvive
  OriginalsGone
  DraftIsClean
  ConfigWhole
PROPERTIES
  CheckAnswers
  ReplacedByForce
