SPECIFICATION Spec
CONSTANTS
  Principals <- MCPrincipals
  Keys <- MCKeys
  Digests = {"d"}
  Calls = {k1, k2}
  MaxEntries = 1
  Retention = 1
  MaxTime = 1
  None = None
  Ids = {"a", "b"}
  Requests <- MCRequests
  GlobalSlots = 2
  ConnSlots = 2
  QueueCap = 1
INVARIANTS
  AnswersAreTrue
  RequestsAreAccounted
  KeyedActionRunsOnce
  ReplaysAreEarned
PROPERTIES
  RevokedChangesNothing
  EveryCallEnds
CHECK_DEADLOCK FALSE
