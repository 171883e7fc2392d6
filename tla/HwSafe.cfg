SPECIFICATION Spec
CONSTANTS
  HiRegs = {"relay"}
  LowRegs = {"month"}
  Watched = {}
  Settable = {"relay", "month"}
  Sensors = {}
  HI_DELAY = 2
  LOW_DELAY = 5
  EV_DELAY = 0
  MAX_I2C_ERROR = 5
  UpAtStart = {TRUE}
  MaxStall = 1
  MaxSets = 2
  MaxStale = 1
  MaxChanges = 0
  MaxOutages = 1
  MaxInputs = 2
INVARIANT ErrorsBounded
INVARIANT SerialSetsLand
