CONSTANTS
  t1 = t1
  t2 = t2
  t3 = t3
  other = other
  Free = Free
  Dead = Dead
  Left = Left
  Tasks = {t1, t2, t3}
  Others = {other}
  Jobs = {1, 2}
  Caps = {1, 2}
  MinWorkers = 1
SPECIFICATION FairSpec
INVARIANTS TypeOK NeverFewer
PROPERTIES ImplementsCap TotalsExact BatchReturns SlotsComeBack
