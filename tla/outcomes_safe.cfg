CONSTANTS
  a = a
  b = b
  c = c
  Processes <- OneOfEach
  MaxParallel = 1
  Stranded = 0
  Streaming <- Streamer
  Displayed = {a, c}
  Disturbed = {a, c}
  MaxInterrupts = 2
  Nobody = Nobody
  Gone = Gone
  Kinds <- AllKinds
  Timeout = 4
  Floor = 1
  IdleTimeout = 3
  MaxBackoffs = 3
  Delays = {0, 1, 2}
  MaxOutput = 2
  Waits = 2
SPECIFICATION AllSpec
INVARIANTS TransportTypeOK CapsRequests OneLateRequest BillsOnce OutcomeAgrees
PROPERTY DispatchEnds
CHECK_DEADLOCK FALSE
