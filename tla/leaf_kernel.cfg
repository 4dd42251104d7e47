SPECIFICATION Spec
CONSTANTS
  Universe = 6
  K = 2
  Ring = 3
  Batch = 2
  Requests <- MCRequests
INVARIANTS
  MergeIsExact
  FusedIsExact
