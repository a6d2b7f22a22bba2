SPECIFICATION Spec
CONSTANTS
  Queues = {q1, q2}
  Fences = {f1}
  Values = {1, 2}
  AppThreads = {t1, t2}
  Finish = finish
  Nobody = nobody
  kCommandChunkCount = 2
  MaxOps = 3
SYMMETRY Symmetry
INVARIANT RingNotOverrun
CHECK_DEADLOCK FALSE
