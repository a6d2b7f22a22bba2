SPECIFICATION Spec
CONSTANTS
  Queues = {q1, q2}
  Fences = {f1}
  Values = {1, 2}
  AppThreads = {t1, t2}
  Finish = finish
  Nobody = nobody
  kCommandChunkCount = 3
  MaxOps = 2
SYMMETRY Symmetry
INVARIANT NoSelfWait
CHECK_DEADLOCK FALSE
