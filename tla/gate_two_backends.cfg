CONSTANTS
  clang = clang
  gcc16 = gcc16
  Backends = {clang, gcc16}
  Dirs <- CorpusDirs
  MaxRuns = 2
SPECIFICATION Spec
PROPERTIES RecordSurvives
