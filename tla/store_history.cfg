\* DashboardStore: one row and two claims across the clock, midnight and crashes
SPECIFICATION Spec
CONSTANTS
  Ids = {i1}
  Emails = {e1}
  ClaimIds = {c1, c2}
  Keys = {k1, k2}
  None = None
  Retention = 1
  MaxTime = 3
  MaxDay = 1
  Flags = {TRUE, FALSE}
SYMMETRY Symmetry
INVARIANTS
  ToldClaimsSurvive
  SameKeySameClaim
  ArchiveIsFinal
  KeysArchivedWithClaims
PROPERTIES
  ClaimsMoveForward
