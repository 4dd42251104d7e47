SPECIFICATION Spec
CONSTANTS
  Pairs = 1
  MaxSignals = 1
INVARIANTS
  AcknowledgedFilesAreDurable
