SPECIFICATION FairSpec
CONSTANTS
  Passes = 3
INVARIANTS
  AckBindsRows
  AdapterNeverOverlapsTiming
  OkMeansComplete
  NothingLeftRunning
PROPERTIES
  LatchedStopBarsLink
  ImplementsPermission
  Termination
