CONSTANTS
  t1 = t1
  t2 = t2
  c1 = c1
  c2 = c2
  c3 = c3
  c4 = c4
  k1 = k1
  k2 = k2
  m1 = m1
  None = None
  Tokens <- MCTokens
  Calls <- MCCalls
  TokenOf <- MCTokenOf
  Lines = {1, 2, 3, 4}
  NoLine = NoLine
  Parts = {"turns", "gate", "net", "npm", "auto", "backups", "log", "child", "http"}
SPECIFICATION SumSpec
INVARIANTS TypeOK OneTurnPerToken
PROPERTIES KeepsLine EveryWaitEnds
CHECK_DEADLOCK FALSE
