SPECIFICATION Spec
CONSTANTS
  kCommandChunkCount = 2
  Uint64 = 8
  Latencies = {0, 2}
  DefaultLatency = 1
  LatencyRace = FALSE
  MaxSeq = 4
  MaxFrame = 3
INVARIANTS
  QueueInv
  NoChunkAliasing
  CoherentIsComplete
  InFlightBound
  FrameFenceIsRendered
PROPERTIES
  LatencyBound
  IdleMeansDone
  EveryChunkRetires
  CallsReturn
