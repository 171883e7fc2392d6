SPECIFICATION FairSpec
CONSTANTS
  NetOutputs <- AllOutputs
  Macs = {"own", "zero", "foreign"}
  MaxFds = 1
  MaxRequests = 2
  MaxFails = 1
  MaxRestarts = 1
CHECK_DEADLOCK FALSE
INVARIANT TypeOK
INVARIANT AnswerReady
INVARIANT RightSetsHeard
INVARIANT StopReason
PROPERTY Served
PROPERTY Drained
