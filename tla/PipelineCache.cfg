\* The constructor starts two workers.  Here it starts one, and submit the other.
SPECIFICATION Spec
CONSTANTS
  plain = plain
  mesh = mesh
  Pipelines <- MCPipelines
  Shaders <- MCShaders
  PixelVariants = {"ps"}
  MayFail = {"gv"}
  Uses <- MCUses
  Class <- MCClass
  Callers = {"c1", "c2"}
  Workers = {"w1", "w2"}
  FirstWorkers = {"w1"}
  NoTask = NoTask
INVARIANTS  BuiltFromItsShaders
CHECK_DEADLOCK FALSE
PROPERTIES RequestsAnswered DestructorReturns
