SPECIFICATION ArmedSpec
VIEW ArmedView
CONSTANTS
  Prices <- MCPrices
  Quantities = {}
  Brackets <- MCBrackets
  Entries <- MCEntries
  MaxPlaced = 2
  MaxTouched = 1
  MaxQueue = 2
  Drawings <- MCDrawings
  Presets <- MCPresets
  Setups <- MCSetups
INVARIANT FiredIsPending
PROPERTIES
  BotsNeverNet
  NeverRidesBare
