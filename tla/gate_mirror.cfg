CONSTANTS
  clang = clang
  gcc16 = gcc16
  Backends = {clang}
  Dirs <- CorpusDirs
  MaxRuns = 1
SPECIFICATION Spec
INVARIANTS MirrorsConstexpr
