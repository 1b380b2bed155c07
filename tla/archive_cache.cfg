CONSTANTS
  base = base
  crc = crc
  log = log
  a1 = a1
  a2 = a2
  Agents = {a1, a2}
  Forcers = {a1, a2}
  Parts <- Components
  PartsOf <- ComponentsOf
  MaxVersion = 2
  MaxPrepares = 4
  MaxFaults = 1
SPECIFICATION Spec
SYMMETRY AgentSymmetry
CHECK_DEADLOCK FALSE
INVARIANTS TypeOK CachedIsOneVersion OwnPrepareLinks PartialIsReplaced
PROPERTIES ForceRefreshes
