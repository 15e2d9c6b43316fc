SPECIFICATION ProfileSpec
CONSTANTS
  Values = {v1, v2}
  Saves = {s1, s2}
  Loads = {l1, l2}
SYMMETRY ProfileSymmetry
INVARIANTS
  ProfileInStep
  SettingsShowTheProfile
CHECK_DEADLOCK FALSE
