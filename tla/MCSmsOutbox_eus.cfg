SPECIFICATION LiveSpec
CONSTANTS
  Gateway = {"g1"}
  Setups <- MCEus
  MaxGen = 2
  MaxConn = 1
PROPERTIES KeepsPromise Decided
CHECK_DEADLOCK FALSE
