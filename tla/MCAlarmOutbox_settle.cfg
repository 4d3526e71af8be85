SPECIFICATION LiveSpec
CONSTANTS
  Channel = {"sms", "mail"}
  Variant = {"first"}
  First = "first"
  LoopPass = {lp}
  RequestPass = {}
  ProcOf <- MCOneProcess
  Sweep = sweep
  MaxResend = 0
  MaxPoll = 1
  MaxFault = 1
INVARIANTS FinishedOnce FinishedMeansSettled
PROPERTIES EveryJobSettles 
CHECK_DEADLOCK FALSE
