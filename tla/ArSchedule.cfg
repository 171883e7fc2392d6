SPECIFICATION FairSpec
CONSTANTS
  Test = "speed"
  ConfigOk = TRUE
  TestNum = 1
  MaxReset = 1
  ByteMod = 2
  RebootDelay = 1
  Alarm = TRUE
  Day = 2
  TimeUp = 1
  TimeDown = 0
  Preempted = {}
  UbusMayFail = FALSE
  SelfPowered = FALSE
  MaxCmds = 0
  MaxAdmin = 0
PROPERTY ScheduleServed
INVARIANT ScheduleKeepsOff
