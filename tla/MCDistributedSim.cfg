SPECIFICATION Spec
CONSTANTS
  r1 = r1
  r2 = r2
  r3 = r3
  l1 = l1
  l2 = l2
  Ranks = {r1, r2}
  Links = {l1, l2}
  Ends <- PairEnds
  Delay <- OneAndTwo
  StopTime = 4
  Delays = {0, 2}
  TxTimes = {0}
  MaxUid = 6
  MaxTx = 2
INVARIANTS
  TypeOK
  NoEventFromThePast
  GrantIsSafe
  CountsMatchTransit
PROPERTIES
  EveryRankReturns
