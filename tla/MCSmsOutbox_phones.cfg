SPECIFICATION Spec
CONSTANTS
  Gateway = {g1, g2}
  Setups <- MCPhones
  MaxGen = 2
  MaxConn = 2
SYMMETRY MCAlike
INVARIANTS TypeOK RequeueIsSafe OneGrant
PROPERTIES KeepsPromise
CHECK_DEADLOCK FALSE
