SPECIFICATION Spec
CONSTANTS
  Test = "link"
  ConfigOk = TRUE
  TestNum = 1
  MaxReset = 1
  ByteMod = 3
  RebootDelay = 1
  Alarm = FALSE
  Day = 1
  TimeUp = 0
  TimeDown = 0
  Preempted = {"test"}
  UbusMayFail = TRUE
  SelfPowered = FALSE
  MaxCmds = 1
  MaxAdmin = 0
INVARIANT TypeOK
INVARIANT RebootInv
INVARIANT OffTimeKept
INVARIANT RestartBudget
