SPECIFICATION FairSpec
CONSTANTS
  Signalers = {s1, s2}
  Waiters = {w1, w2}
  Values = {1, 2}
  Initial = 0
PROPERTIES
  ImplementsFence
  WaitReturns
