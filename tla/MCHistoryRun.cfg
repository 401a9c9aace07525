SPECIFICATION FairRunSpec
CONSTANTS
  Ms <- MCThree
  SessionGap = 5
  Hour = 1
  Day = 50
  Reaches <- MCReaches
  PerHour = 2
  PerSession = 3
  PageSize = 3
  PageSlack = 1
  MaxPages = 5
  MaxIdle = 2
  MinUseful = 2
  Ceiling = 5
  WorkerTrades = 3
  Drops = {TRUE, FALSE}
  Refuses = {TRUE}
  Presses = 2
  Losses = 1
INVARIANTS
  OneRequestOut
  ReachIsOnTheChart
PROPERTIES
  QueuedPressBegins
  RunsEnd
