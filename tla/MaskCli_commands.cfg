SPECIFICATION Spec
CONSTANTS
  MaxVersion = 1
  MaxChanges = 2
  MaxFaults = 1
INVARIANTS
  TypeOK
  LoginOnlyToMatched
  RefusalsLeaveNoTrace
  CheckedMeansPreflight
  DraftFitsDatabase
