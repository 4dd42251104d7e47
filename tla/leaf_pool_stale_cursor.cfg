SPECIFICATION Spec
CONSTANTS
  Thread = {t1, t2, t3}
  Lane = {l1, l2}
  None = None
  MaxGeneration = 2
  Joined = TRUE

INVARIANTS
  EndedWithSupport
CHECK_DEADLOCK FALSE
