CONSTANTS
  a = a
  b = b
  d = d
  pa = pa
  pb = pb
  pd = pd
  pg = pg
  Ghost = Ghost
  Nobody = Nobody
  NoFile = NoFile
  Contenders = {a, b, d}
  Pids = {pa, pb, pd, pg}
  PidOf <- ThreeProcesses
  Retries = 3
  CrashPids = {}
  Failing = {}
  Suspends = {}
SPECIFICATION FreeSpec
INVARIANT MutualExclusion
