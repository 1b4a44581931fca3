SPECIFICATION Spec
CONSTANTS
  a4 = a4
  b4 = b4
  a6 = a6
  b6 = b6
  Tuples <- MCTuples
  Family <- MCFamily
  Pids = {p1, p2}
  UidOf <- MCUidOf
  Readable = {p1}
  CACHE_TTL = 1
  MaxOpens = 2
  MaxEvents = 3
  MaxClock = 1
SYMMETRY MCSymmetry
INVARIANTS
  TypeOK
  SteadyFlowsExact
PROPERTIES
  ImplementsAttribution
CHECK_DEADLOCK FALSE
