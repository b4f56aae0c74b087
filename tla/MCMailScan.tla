------------------------------ MODULE MCMailScan ------------------------------
EXTENDS MailScan, TLC

Symmetry == Permutations(Ids) \cup Permutations(Scans)
=============================================================================
