CONSTANTS
  base = base
  crc = crc
  log = log
  a1 = a1
  a2 = a2
  Agents = {a1, a2}
  Forcers = {}
  Parts <- Components
  PartsOf <- ComponentsOf
  MaxVersion = 2
  MaxPrepares = 2
  MaxFaults = 0
SPECIFICATION Spec
SYMMETRY AgentSymmetry
CHECK_DEADLOCK FALSE
INVARIANTS PoolIsolation
