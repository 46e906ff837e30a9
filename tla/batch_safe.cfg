CONSTANTS
  coder = coder
  vision = vision
  Models = {coder, vision}
  Threshold = 2
  Cooldown = 1
  Jobs = {1, 2, 3, 4}
  ModelOf <- FourJobs
  Streams = {}
  MaxParallel = 2
  MaxQueued = 1
  Timeout = 2
SPECIFICATION FairSpec
INVARIANTS TypeOK NoLeakedProbe OpenOnlyAfterThreshold
PROPERTIES Unblocks BatchEnds
