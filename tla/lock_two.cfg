CONSTANTS
  a = a
  b = b
  d = d
  pa = pa
  pb = pb
  pd = pd
  pg = pg
  Ghost = Ghost
  Nobody = Nobody
  NoFile = NoFile
  Contenders = {a, b}
  Pids = {pa, pb, pg}
  PidOf <- TwoProcesses
  Retries = 3
  CrashPids = {pa}
  Failing = {"steal", "discard", "claim", "verify"}
  Suspends = {}
SPECIFICATION Spec
INVARIANTS TypeOK MutualExclusion DiscardsOnlyStale
PROPERTY ImplementsToken
