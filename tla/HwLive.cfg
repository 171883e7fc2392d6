SPECIFICATION FairSpec
CONSTANTS
  HiRegs = {"tamper"}
  LowRegs = {"relay"}
  Watched = {"tamper"}
  Settable = {"relay"}
  Sensors = {"tamper"}
  HI_DELAY = 1
  LOW_DELAY = 2
  EV_DELAY = 0
  MAX_I2C_ERROR = 5
  UpAtStart = {TRUE}
  MaxStall = 0
  MaxSets = 1
  MaxStale = 1
  MaxChanges = 1
  MaxOutages = 1
  MaxInputs = 2
INVARIANT TypeOK
INVARIANT LogTruthAfterFill
PROPERTY SetDrained
PROPERTY TableConverges
PROPERTY EventsFollow
