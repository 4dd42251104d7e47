SPECIFICATION FairSpec
CONSTANTS
  Pairs = 5
  MaxSignals = 2
INVARIANTS
  PermissionIsRecoverable
  StopVerdictIsFinal
  PassMeansComplete
  NoOrphanRunner
  AuditNeverOverlapsTiming
PROPERTIES
  ImplementsPermission
  Termination
