SPECIFICATION Spec
CONSTANTS
  Engines = {"dual", "indexed", "fixed", "radix", "reusable", "batched", "memo", "spill"}
  Queries <- MCQueries
  TableMin = 2
  TableFactor = 1
  EpochMax = 2
  FixedEpochMax = 2
  FilterEpochMax = 2
  SlotMax = 8
  MemoEpochMax = 2
  RadixWidth = 2
  AddedWidth = 2
  AddedVisits = 2
  Completions = 1
  Window = 2
  AgeMax = 3
  ComputedMin = 5
INVARIANTS
  NearestAreKept
  ContainersAgree
  TraceIsExact
PROPERTIES
  ImplementsBeamSearch
CHECK_DEADLOCK FALSE
