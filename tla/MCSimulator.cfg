SPECIFICATION Spec
VIEW Quietly
CONSTANTS
  Prices <- MCPrices
  Quantities = {1}
  Brackets <- MCBrackets
  Entries <- MCEntries
  MaxPlaced = 2
  MaxTouched = 1
  MaxQueue = 2
PROPERTIES
  FillsExplainPosition
  ProtectionArmsNextPrint
  OrdersLeaveOnce
  LadderCoversItsPosition
