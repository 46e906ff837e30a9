CONSTANTS
  a = a
  b = b
  c = c
  Processes <- OneOfEach
  MaxParallel = 1
  Stranded = 0
  Streaming <- Streamer
  Displayed = {a, c}
  Disturbed = {a, c}
  MaxInterrupts = 2
  Nobody = Nobody
  Gone = Gone
SPECIFICATION Spec
INVARIANT FailureTold
