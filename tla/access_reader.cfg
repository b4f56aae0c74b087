\* MailAccess: one reader and the administrator, every change under way with their requests
SPECIFICATION Spec
CONSTANTS
  Ids = {i1}
  Emails = {e1}
  Grants = {g1}
  Admins = {a1}
  Requests = {r1}
  Fetches = {f1}
  None = None
  Durations = {1}
  CacheTime = 1
  MaxRevision = 2
  MaxForward = 2
SYMMETRY Symmetry
INVARIANTS
  SessionsHoldTheToken
PROPERTIES
  ReleasedOnlyWhileAllowed
  OnlyGrantedMail
  MailFromCurrentMailbox
