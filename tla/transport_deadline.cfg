CONSTANTS
  Kinds <- StreamedOnly
  Timeout = 4
  Floor = 1
  IdleTimeout = 3
  MaxBackoffs = 3
  Delays = {0, 1, 2}
  MaxOutput = 2
  Waits = 1
SPECIFICATION TransportSpec
INVARIANT HardDeadline
CHECK_DEADLOCK FALSE
