------------------------------ MODULE MCAdminPage ------------------------------
EXTENDS AdminPage, TLC

PageSymmetry ==
  Permutations(Ids) \cup Permutations(Loads) \cup Permutations(Checks)
=============================================================================
