CONSTANTS
  a = a
  b = b
  d = d
  pa = pa
  pb = pb
  pd = pd
  pg = pg
  Ghost = Ghost
  Nobody = Nobody
  NoFile = NoFile
  Contenders = {a, b}
  Pids = {pa, pb, pg}
  PidOf <- TwoProcesses
  Retries = 1
  CrashPids = {pa}
  Failing = {"inspect", "inspect_mtime", "write", "claim_write", "drop", "restore", "reread", "recreate", "rewrite", "dropcopy", "discard", "claim", "verify", "held"}
  Suspends = {"hold"}
SPECIFICATION FairSpec
PROPERTY SelfHeals
