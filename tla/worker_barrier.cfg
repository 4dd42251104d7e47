SPECIFICATION FairSpec
CONSTANTS
  Lanes = 3
  Queries = 3
INVARIANTS
  EachRowOnce
  TimingBracketsWork
  AcceptedIsComplete
  GuardSignalsOwnChildren
  NoLaneLeft
PROPERTIES
  Termination
