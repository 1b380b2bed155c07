CONSTANTS
  clang = clang
  gcc16 = gcc16
  Backends = {clang}
  Dirs <- CorpusDirs
  MaxRuns = 2
SPECIFICATION Spec
INVARIANTS JudgedByOwnOracle
