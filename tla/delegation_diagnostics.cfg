CONSTANTS
  a = a
  b = b
  c = c
  Processes <- Three
  MaxParallel = 2
  Stranded = 1
  Streaming <- Streamers
  Displayed = {a}
  Disturbed = {a}
  MaxInterrupts = 1
  Nobody = Nobody
  Gone = Gone
SPECIFICATION Spec
INVARIANT DiagnosticsSeen

