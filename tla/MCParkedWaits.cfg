SPECIFICATION FairWaitSpec
CONSTANTS
  Capacity = 1
  PageLimit = 2
  MaxEvents = 2
  Calls <- MCCalls
  Conns <- MCConns
  ConnOf <- MCConnOf
  OwnSlots = 2
  SharedSlots = 1
INVARIANTS
  ParkedSlotsAreAccounted
  NoWaitIsForgotten
  NoSilentGap
  OwnCursorsAreGood
  HonestTimeout
PROPERTY OwedWaitsEnd
CHECK_DEADLOCK FALSE
