SPECIFICATION Spec
CONSTANTS
  Streaming = TRUE
  FlushLines = 2
  FlushEvery = 1
  Every = 3
  Jitter = 1
  Short = 1
  Lease = 9
  MaxBytes = 3
  Marker = 1
  Sizes = {1, 2}
  MaxLines = 3
  MaxMissed = 1
INVARIANTS
  LeaseKeptPending

