CONSTANTS
  t1 = t1
  m1 = m1
  c1 = c1
  c2 = c2
  k1 = k1
  k2 = k2
  None = None
  p1 = p1
  p2 = p2
  Tokens = {t1}
  Mcps = {m1}
  Calls <- MCCalls
  Asks <- MCAsks
  TokenOf <- MCTokenOf
  People <- MCPeople
  McpOf <- MCMcpOf
  AsksByDefault = {m1}
  TooLarge = {}
  MaxPending = 1
  PendingTime = 1
  GrantTime = 2
  KeptTime = 0
  MaxRows = 2
  MaxClock = 2
SPECIFICATION Spec
SYMMETRY Swaps
CONSTRAINT FewAtOnce
INVARIANTS TypeOK WithinLimit OneOpenRequest
PROPERTIES SaidOnce DecisionIsFinal KeepsPromise
CHECK_DEADLOCK FALSE
