SPECIFICATION LiveSpec
CONSTANTS
  Worker = {"w1", "w2"}
  Root = {"r1", "r2"}
  Child = {"c1"}
INVARIANTS TypeOK WorkUnderLock
PROPERTIES ShutdownEnds
CHECK_DEADLOCK FALSE
