SPECIFICATION PeersSpec
CONSTANTS
  Keys <- MCKeys
  Ends <- MCEnds
  Origins = {o1}
  RECORD_LOG_CAP = 20
  StaleTimeout = 0
  Batches = {}
  MaxTime = 0
  MaxRecords = 20
  Sessions <- MCHonestSessions
INVARIANTS
  OneFlow
  LabelsTruthful
  StageNeverAhead
  WholeSessionReported
  DiagramComplete
  ArrowsTruthful
PROPERTIES
  StageNeverFallsBack
  RowsHighlightTheirStage
CHECK_DEADLOCK FALSE
