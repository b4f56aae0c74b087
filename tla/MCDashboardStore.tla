-------------------------- MODULE MCDashboardStore --------------------------
EXTENDS DashboardStore, TLC
Symmetry == Permutations(Ids) \cup Permutations(Emails) \cup Permutations(ClaimIds) \cup Permutations(Keys)
=============================================================================
