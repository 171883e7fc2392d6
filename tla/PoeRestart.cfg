SPECIFICATION Spec
CONSTANTS
  NumPorts = 2
  MaxRetries = 1
  SeqMod = 4
  MayReject = FALSE
  MayDamage = TRUE
  MayLose = TRUE
  MaxPolls = 0
  MaxCalls = 1
  MaxSaves = 1
  MaxRestarts = 2
INVARIANT OneInFlight
INVARIANT SettledAsAsked
PROPERTY ImplementsFifo
CHECK_DEADLOCK FALSE
