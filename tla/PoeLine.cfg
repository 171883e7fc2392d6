SPECIFICATION FairSpec
CONSTANTS
  NumPorts = 2
  MaxRetries = 1
  SeqMod = 4
  MayReject = TRUE
  MayDamage = TRUE
  MayLose = FALSE
  MaxPolls = 1
  MaxCalls = 1
  MaxSaves = 1
  MaxRestarts = 0
INVARIANT TypeOK
INVARIANT SendBound
INVARIANT SendsCounted
PROPERTY QueueDrains
PROPERTY ImplementsFifo
CHECK_DEADLOCK FALSE
