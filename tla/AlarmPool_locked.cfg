SPECIFICATION Spec
CONSTANTS
  Pass = {"p1", "p2"}
  Channel = {"push", "mail"}
  PoolSize = 2
  MaxCalls = 2
INVARIANTS PoolMoves
CHECK_DEADLOCK FALSE
