SPECIFICATION Spec
CONSTANTS
  k1 = k1
  c1 = c1
  c2 = c2
  p1 = p1
  p2 = p2
  None = None
  Requests = {r1, r2, r3}
  Codes = {k1, k2}
  Clients = {c1, c2}
  People = {p1, p2}
  Manages = {k1}
  Admins = {p1}
  Refreshing = {c1}
  ClientOf <- MCClientOf
  PersonOf <- MCPersonOf
SYMMETRY Swaps
INVARIANTS LeaversKeepNothing
PROPERTIES OwnGrantsOnly
CHECK_DEADLOCK FALSE
