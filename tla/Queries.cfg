SPECIFICATION Spec
CONSTANTS
  Occlusion = {q1, q2}
  kEventStallThreshold = 1
  MaxSeq = 2
  MaxDraws = 2
  MaxQueries = 2
INVARIANTS QueryInv BracketCounted
PROPERTIES QueriesAnswered
CHECK_DEADLOCK FALSE
