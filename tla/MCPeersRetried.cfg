SPECIFICATION PeersSpec
CONSTANTS
  Keys <- MCKeys
  Ends <- MCOneEnd
  Origins = {o1}
  RECORD_LOG_CAP = 20
  StaleTimeout = 0
  Batches = {}
  MaxTime = 0
  MaxRecords = 20
  Sessions <- MCRetriedSessions
INVARIANTS
  LabelsTruthful
CHECK_DEADLOCK FALSE
