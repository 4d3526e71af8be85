SPECIFICATION LiveSpec
CONSTANTS
  Channel = {"teams"}
  Variant = {"first"}
  First = "first"
  LoopPass = {lp}
  RequestPass = {rp}
  ProcOf <- MCTwoProcesses
  Sweep = sweep
  MaxResend = 1
  MaxPoll = 0
  MaxFault = 2
INVARIANTS TypeOK PostBudget SoleSender RetryMeansUnsent
PROPERTIES TerminalStands EveryJobSettles
CHECK_DEADLOCK FALSE
