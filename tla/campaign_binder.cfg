CONSTANTS
  fmt = fmt
  glm = glm
  c1 = c1
  Slugs <- TwoSlugs
  Collectors = {c1}
  MaxGates = 2
  MaxBumps = 1
  MaxRollups = 0
  MaxKills = 0
SPECIFICATION Spec
CHECK_DEADLOCK FALSE
INVARIANTS OneBinderPerCommit
