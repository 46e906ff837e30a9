CONSTANTS
  NewLine = "nl"
  Data = "data"
  Finish = "finish"
  Deltas = {"ab", "u", "au"}
  Text <- TextOf
  Reports = {"u", "au"}
  ReadChunk = 2
  MaxLine = 3
  MaxBytes = 5
  Paths <- TwoPaths
  Phantom <- Mentioned
  LastLine = 3
  MaxHunk = 2
  Claimed = {3}
  Breaks = 1
  Margin = 1
  Good = {"v", "w"}
  x = x
  y = y
  o = o
  NoDir = NoDir
  Runs = {x, y, o}
  Earlier = {o}
  Name <- Names
  KeepRuns = 1
  Grace = 2
  Horizon = 2
  Crashing = {y}
  Failing = {"scan", "write", "remove"}
  Suspends = {}
SPECIFICATION Spec
INVARIANT KnowsTheEnd
CHECK_DEADLOCK FALSE
