SPECIFICATION PageSpec
CONSTANTS
  Ids = {x, y}
  NoId = NoId
  Loads = {l1, l2}
  Checks = {c1, c2}
  Txs = {t1}
SYMMETRY PageSymmetry
INVARIANTS
  PageIsHonest
  NoButtonIsStuck
CHECK_DEADLOCK FALSE
