SPECIFICATION LiveSpec
CONSTANTS
  Pass = {"p1", "p2"}
  Channel = {"push", "mail"}
  PoolSize = 3
  MaxCalls = 2
INVARIANTS TypeOK PoolMoves
PROPERTIES PassesEnd
CHECK_DEADLOCK FALSE
