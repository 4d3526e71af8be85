SPECIFICATION LiveSpec
CONSTANTS
  Msgs = {"m1", "m2", "m3"}
  Elvis = {"m2", "m3"}
  AlarmSource = {"m2", "m3"}
  Texts = {"t1", "t2"}
  Code = {"r1", "r2"}
  TextOf <- MCTextOf
  CodesOf <- MCCodesOf
  Request = {"q1"}
  Recovery = {"v"}
  None = "none"
  MaxAttempts = 2
  MaxFaults = 1
  MaxAsked = 1
INVARIANTS TypeOK FollowUpOnce NachlaufOnce AlarmIsRaised NothingSwallowed
PROPERTIES EveryMessageApplied
CHECK_DEADLOCK FALSE
