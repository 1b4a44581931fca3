SPECIFICATION MCSpec
CONSTANTS
  k1 = k1
  Keys = {k1,k2}
  LongFlow = k1
  Origins = {o1}
  RECORD_LOG_CAP = 4
  StaleTimeout = 1
  Batches <- MCBatches
  MaxTime = 3
  MaxRecords = 5
  MixedRecords = 2
INVARIANTS
  TypeOK
  RecordLogGapFree
  CiphertextNeverDecoded
  StageHasEvidence
  FinishDetectionAgrees
  InferredLabelsOrdered
  NoStaleConnection
PROPERTIES
  HistoryKept
  OnlySilentEvicted
