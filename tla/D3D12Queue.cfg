SPECIFICATION Spec
CONSTANTS
  Queues = {q1, q2}
  Fences = {f1}
  Values = {1, 2}
  AppThreads = {t1, t2}
  Finish = finish
  Nobody = nobody
  kCommandChunkCount = 3
  MaxOps = 4
SYMMETRY Symmetry
INVARIANTS
  QueueOrder
  SignalCoversWork
  WaitIsWatched
CHECK_DEADLOCK FALSE
