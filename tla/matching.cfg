CONSTANTS
  Patterns <- MCPatterns
  Subjects <- MCSubjects
  Cases <- MCCases
  Modules <- MCModules
  Rebuilds <- MCRebuilds
  Ignores <- MCIgnores
  MaxCompares = 2
SPECIFICATION MatchingSpec
INVARIANTS GlobIsReference MatchersAsAsserted BindSetAsClaimed SurfaceVerdictIsExact ArtifactsBackVerdict
PROPERTY GlobEnds
CHECK_DEADLOCK FALSE
