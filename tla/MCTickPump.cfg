SPECIFICATION PumpSpec
CONSTANTS
  Ms <- MCMs
  Second = 10
  RoundTicks = 4
  MaxTicks = 10
  MaxRounds = 4
INVARIANT SoleTicksOnce
PROPERTY EveryPrintLeaves
CHECK_DEADLOCK FALSE
