CONSTANTS
  master = master
  gcc_16 = gcc_16
  Branches = {master, gcc_16}
  Trunk = master
  MaxEdits = 1
SPECIFICATION Spec
INVARIANTS TestedBranch
