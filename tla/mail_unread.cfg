\* MailScan: two overlapping checks of a row that is read meanwhile
SPECIFICATION Spec
CONSTANTS
  Ids = {i1}
  Scans = {s1, s2}
  MaxMail = 2
SYMMETRY Symmetry
\* the row may be deleted
CHECK_DEADLOCK FALSE
PROPERTIES
  ReadMailStaysRead
  UnreadMailStaysUnread
