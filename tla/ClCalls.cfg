SPECIFICATION FairSpec
CONSTANTS
  Clients = {c1, c2}
  Ports = {p1}
  NoPort = noPort
  NoClient = noClient
  MaxFd = 4
  MaxPipes = 2
  Backlog = 1
  MaxCalls = 4
  MaxKills = 1
  MaxRestarts = 1
CHECK_DEADLOCK FALSE
INVARIANT TypeOK
INVARIANT OkMeansServed
PROPERTY SurvivesCalls
PROPERTY Answered
