CONSTANTS
  t1 = t1
  t2 = t2
  t3 = t3
  other = other
  Free = Free
  Dead = Dead
  Left = Left
  Tasks = {t1, t2, t3}
  Others = {other}
  Jobs = {1, 2}
  Caps = {1, 2}
  MinWorkers = 2
SPECIFICATION Spec
INVARIANT WorkerForEach
