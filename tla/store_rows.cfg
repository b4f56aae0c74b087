\* DashboardStore: two rows, claims and keys, swept as soon as released; the ledger
SPECIFICATION Spec
CONSTANTS
  Ids = {i1, i2}
  Emails = {e1, e2}
  ClaimIds = {c1, c2}
  Keys = {k1, k2}
  None = None
  Retention = 0
  MaxTime = 1
  MaxDay = 0
  Flags = {TRUE}
SYMMETRY Symmetry
INVARIANTS
  RowsAndClaimsAgree
  KeysAndClaimsAgree
  NoAddressHeldTwice
  ClaimedRowsStayFinished
  NoAddressListedTwice
PROPERTIES
  RemovedRowsAreBackedUp
  ImplementsLedger
