SPECIFICATION LiveSpec
CONSTANTS
  Jobs = {"j1"}
  Original = "j1"
  Routes <- MCRoutes
  Routed <- MCBoth
  Cancelled = {"j1"}
  Agents = {"a1","a2"}
  Linux = "linux"
  None = "none"
  MaxAttempts = 2
  MaxPush = 2
  MaxFaults = 2
  Protocols = {2}
  MaxConn = 2
INVARIANTS TypeOK ApprovedHolds
PROPERTIES OutcomeStands EveryJobSettles
CHECK_DEADLOCK FALSE
