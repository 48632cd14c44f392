SPECIFICATION Spec
CONSTANTS
  MaxVersion = 1
  MaxChanges = 1
  MaxFaults = 0
INVARIANTS
  DryRunWritesNothing
