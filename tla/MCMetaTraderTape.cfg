SPECIFICATION FairTapeSpec
CONSTANTS
  Ms <- MCTape
  Opened = 1
  SessionGap = 5
  BlockMax = 4
  SliceTicks = 2
  PageTicks = 1
  Pagings = {TRUE, FALSE}
  MaxCloses = 1
  MaxReceived = 4
  MaxPages = 3
  MaxIdle = 2
  MaxHeld = 2
  Losses = 2
  Presses = 1
  Places = 2
INVARIANTS
  ChartInTapeOrder
  HolesAreMarked
  LoadsAreOwed
PROPERTIES
  LoadsAreAnswered
  RefillsEnd
CHECK_DEADLOCK FALSE
