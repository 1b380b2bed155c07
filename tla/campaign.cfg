CONSTANTS
  fmt = fmt
  glm = glm
  c1 = c1
  Slugs <- TwoSlugs
  Collectors = {c1}
  MaxGates = 3
  MaxBumps = 1
  MaxRollups = 2
  MaxKills = 1
SPECIFICATION Spec
CHECK_DEADLOCK FALSE
INVARIANTS TypeOK EarlierOutputIsNewer
PROPERTIES RollupIsComplete ReportAdvances
