SPECIFICATION Spec
CONSTANTS
  Test = "link"
  ConfigOk = TRUE
  TestNum = 1
  MaxReset = 1
  ByteMod = 2
  RebootDelay = 1
  Alarm = FALSE
  Day = 1
  TimeUp = 0
  TimeDown = 0
  Preempted = {}
  UbusMayFail = FALSE
  SelfPowered = FALSE
  MaxCmds = 2
  MaxAdmin = 0
INVARIANT RebootInProgress
