SPECIFICATION LedgerSpec
CONSTANTS
  Principals <- MCPrincipals
  Keys <- MCKeys
  Digests = {d1, d2}
  Calls = {t1, t2}
  MaxEntries = 3
  Retention = 1
  MaxTime = 1
  None = None
SYMMETRY MCSymmetry
INVARIANTS
  OneLicence
  NothingForTheForgotten
PROPERTY ShareIsKept
