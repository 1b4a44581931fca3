SPECIFICATION Spec
CONSTANTS
  Bytes <- MCBytes
  RECORD_HEADER_LEN = 2
  MAX_RECORD_PAYLOAD = 2
  MAX_CIPHERTEXT = 2
  MAX_REASSEMBLY_BYTES = 4
  Segments <- MCSegments
  MCSegmentLen = 3
  MaxReceived = 7
INVARIANTS
  BufferIsTail
  NothingCompleteLeft
PROPERTIES
  ImplementsRecordStream
CHECK_DEADLOCK FALSE
