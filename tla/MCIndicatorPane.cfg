SPECIFICATION PaneSpec
CONSTANTS
  Slots <- MCSlots
  Sources <- MCSources
  Broken <- MCBroken
  FailsAt <- MCFailsAt
  Default = "declared"
  None = None
  CommandCap = 1
  EventCap = 2
  Values = {"v"}
  BarSizes <- MCBarSizes
  Rungs <- MCRungs
  Seeds <- MCSeeds
  Backfills <- MCBackfills
  MaxPrints = 2
  MaxOps = 2
INVARIANTS
  RemoveWins
  SettledPane
PROPERTIES
  RepairsAreEarned
  SettlesOnTheChart
CHECK_DEADLOCK FALSE
