SPECIFICATION Spec
CONSTANTS
  Msgs = {"m2", "m3"}
  Elvis = {"m2", "m3"}
  AlarmSource = {"m2"}
  Texts = {"t1", "t2"}
  Code = {"r1", "r2"}
  TextOf <- MCTextOf
  CodesOf <- MCCodesOf
  Request = {"q1"}
  Recovery = {"v"}
  None = "none"
  MaxAttempts = 2
  MaxFaults = 0
  MaxAsked = 0
INVARIANTS NothingSwallowed
CHECK_DEADLOCK FALSE
