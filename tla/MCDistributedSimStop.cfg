SPECIFICATION Spec
CONSTANTS
  r1 = r1
  r2 = r2
  r3 = r3
  l1 = l1
  l2 = l2
  Ranks = {r1, r2, r3}
  Links = {l1, l2}
  Ends <- ChainEnds
  Delay <- ThreeAndOne
  StopTime = 2
  Delays = {0, 2}
  TxTimes = {0}
  MaxUid = 5
  MaxTx = 0
PROPERTIES
  EveryRankReturns
CHECK_DEADLOCK FALSE
