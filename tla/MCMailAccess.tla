---------------------------- MODULE MCMailAccess ----------------------------
EXTENDS MailAccess, TLC

Symmetry == Permutations(Ids) \cup Permutations(Emails) \cup Permutations(Grants)
    \cup Permutations(Admins) \cup Permutations(Requests) \cup Permutations(Fetches)
=============================================================================
