SPECIFICATION Spec
CONSTANTS
  Bytes <- MCBytes
  RECORD_HEADER_LEN = 2
  MAX_RECORD_PAYLOAD = 2
  MAX_CIPHERTEXT = 3
  MAX_REASSEMBLY_BYTES = 6
  Segments <- MCSegments
  MCSegmentLen = 3
  MaxReceived = 6
INVARIANTS
  RefusedOnlyIfIllegal
CHECK_DEADLOCK FALSE
