\* MailAccess: overlapping distributions of rows that come and go from view
SPECIFICATION Spec
CONSTANTS
  Ids = {i1, i2}
  Emails = {e1, e2}
  Grants = {g1, g2, g3}
  Admins = {a1, a2}
  Requests = {}
  Fetches = {}
  None = None
  Durations = {}
  CacheTime = 1
  MaxRevision = 2
  MaxForward = 0
SYMMETRY Symmetry
INVARIANTS
  OneReaderPerAddress
