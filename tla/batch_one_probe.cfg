CONSTANTS
  coder = coder
  vision = vision
  Models = {coder, vision}
  Threshold = 1
  Cooldown = 1
  Jobs = {1, 2, 3, 4, 5, 6}
  ModelOf <- SixJobs
  Streams = {}
  MaxParallel = 2
  MaxQueued = 4
  Timeout = 2
SPECIFICATION WholeBatches
INVARIANT OneProbe
CHECK_DEADLOCK FALSE
