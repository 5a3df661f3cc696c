SPECIFICATION Spec
CONSTANTS
  c1 = c1
  c2 = c2
  t1 = t1
  t2 = t2
  d1 = d1
  d2 = d2
  k1 = k1
  f1 = f1
  f2 = f2
  e1 = e1
  None = None
  Callers = {c1, c2}
  Tasks = {t1, t2}
  Flows = {}
  Edits = {}
  Dests = {d1, d2}
  Clients = {k1}
  MaxStarts = 1
  MaxGens = 1
  MaxPairs = 2
  DbFails = TRUE
INVARIANTS PresentedOnce WaitersMoveOn
PROPERTIES EveryCallerAnswered
CHECK_DEADLOCK FALSE
