CONSTANTS
  clang = clang
  gcc16 = gcc16
  Backends = {clang}
  Dirs <- AllDirs
  MaxRuns = 2
SPECIFICATION FairSpec
INVARIANTS TypeOK FreshVerdict OwnBuild FailureIsExplained
PROPERTIES ExitZeroMeansAgreement ImplementsLedger RunEnds
