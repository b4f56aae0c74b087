\* MailScan: one check of two rows while everything else happens
SPECIFICATION Spec
CONSTANTS
  Ids = {i1, i2}
  Scans = {s1}
  MaxMail = 1
SYMMETRY Symmetry
\* every row may be deleted
CHECK_DEADLOCK FALSE
PROPERTIES
  ReportsWhatItDid
  DecisionsStand
