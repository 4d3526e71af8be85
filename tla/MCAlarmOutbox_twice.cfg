SPECIFICATION Spec
CONSTANTS
  Channel = {"push", "mail"}
  Variant = {"first"}
  First = "first"
  LoopPass = {lp}
  RequestPass = {rp}
  ProcOf <- MCTwoProcesses
  Sweep = sweep
  MaxResend = 0
  MaxPoll = 0
  MaxFault = 0
INVARIANTS FinishedOnce
CHECK_DEADLOCK FALSE
